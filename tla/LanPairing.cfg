SPECIFICATION FairPairing
CONSTANTS
    None = None  offer1 = offer1  offer2 = offer2
    joiner1 = joiner1  joiner2 = joiner2
    Offers = {offer1, offer2}
    Joiners = {joiner1, joiner2}
PROPERTIES PairingSound ExchangesEnd
CHECK_DEADLOCK FALSE
