----------------------------- MODULE LanPairing -----------------------------
(***************************************************************************)
(* The one-shot passcode pairing of two LAN nodes: o-node's offer_pairing  *)
(* and join_pairing, and the exchange of hosted_remote/pairing.rs between  *)
(* them.  One node makes a sequence of offers, each with a passcode and a  *)
(* listener that accepts one connection; other nodes join, and each side   *)
(* stores the other's identity once its half of the exchange is complete.  *)
(* Any wait may time out, a connection may break, either process may die,  *)
(* and an operator may mistype the code or connect to the wrong offer.     *)
(*                                                                         *)
(* An offer stands for its session: nonce, passcode, fresh keys and        *)
(* certificates.  The two sides derive equal confirmation keys if and only *)
(* if they used the same code for the same offer (SPAKE2, external), so a  *)
(* confirmation is the code its sender used.  The exchange is in lockstep: *)
(* each direction of a connection holds at most one frame.                 *)
(***************************************************************************)
EXTENDS Naturals, FiniteSets, TLC

CONSTANTS
    Offers,    \* the offers the offering node ever makes, one code each
    Joiners,   \* the other nodes, each with one join at a time
    None

ASSUME NoneAssumption == None \notin Offers \cup Joiners

VARIABLES
    offer,     \* pc of each offer_pairing call
    served,    \* ghost: the joiners whose connection an offer accepted
    toOffer,   \* the frame on its way to the offerer
    toJoin,    \* the frame on its way to the joiner
    join,      \* the join_pairing call of each joiner and its connection
    atOffer,   \* the offering node's stored record of each joiner
    atJoin     \* each joiner's stored record of the offering node

pairingVars == <<offer, served, toOffer, toJoin, join, atOffer, atJoin>>

----------------------------------------------------------------------------
Kinds == {"ServerHello", "JoinHello", "OfferAuth", "JoinAuth", "Commit", "Ack", "Done"}
Frame(kind, code) == [kind |-> kind, code |-> code]
Frames == [kind : Kinds, code : Offers] \cup {None}
NoJoin == [pc |-> "idle", to |-> None, code |-> None, accepted |-> FALSE]

PairingInit ==
    /\ offer = [o \in Offers |-> "unmade"]
    /\ served = [o \in Offers |-> {}]
    /\ toOffer = [o \in Offers |-> None] /\ toJoin = [o \in Offers |-> None]
    /\ join = [j \in Joiners |-> NoJoin]
    /\ atOffer = [j \in Joiners |-> None] /\ atJoin = [j \in Joiners |-> None]

\* j's present connection is the one that o accepted.
Connected(o, j) == join[j].to = o /\ join[j].accepted

\* The joiner whose JoinHello the offerer read.
Peer(o) == CHOOSE j \in Joiners : j \in served[o]

\* Mutant of Verified: the confirmation is not compared.
VerifiedAny(frame, code) == TRUE

\* verify_confirmation: the tag was made with the same key.
Verified(frame, code) == frame.code = code

OfferTo(o, pc) == offer' = [offer EXCEPT ![o] = pc]
JoinTo(j, pc) == join' = [join EXCEPT ![j].pc = pc]

----------------------------------------------------------------------------
(* The offerer.                                                            *)

Offer(o) ==
    /\ offer[o] = "unmade"
    /\ \A other \in Offers : offer[other] \in {"unmade", "paired", "failed"}
    /\ OfferTo(o, "listening")
    /\ UNCHANGED <<served, toOffer, toJoin, join, atOffer, atJoin>>

\* One connection of the backlog is accepted and greeted.  One whose joiner
\* gave up meanwhile uses the offer up as well, which is OfferFails.
Accept(o, j) ==
    /\ offer[o] = "listening" /\ join[j].to = o /\ join[j].pc = "connected"
    /\ OfferTo(o, "hello")
    /\ served' = [served EXCEPT ![o] = @ \cup {j}]
    /\ toJoin' = [toJoin EXCEPT ![o] = Frame("ServerHello", o)]
    /\ join' = [join EXCEPT ![j].accepted = TRUE]
    /\ UNCHANGED <<toOffer, atOffer, atJoin>>

\* The offerer at pc reads the frame of kind want, verifies it if it carries
\* a confirmation, answers and goes on; a bad confirmation ends the attempt.
OfferReads(o, pc, want, checked, answer, next) ==
    /\ offer[o] = pc
    /\ toOffer[o] /= None /\ toOffer[o].kind = want
    /\ toOffer' = [toOffer EXCEPT ![o] = None]
    /\ IF checked => Verified(toOffer[o], o)
         THEN /\ OfferTo(o, next)
              /\ toJoin' = [toJoin EXCEPT ![o] = Frame(answer, o)]
         ELSE OfferTo(o, "failed") /\ toJoin' = toJoin
    /\ UNCHANGED <<served, join, atOffer, atJoin>>

OfferJoinHello(o) == OfferReads(o, "hello", "JoinHello", FALSE, "OfferAuth", "auth")
OfferJoinAuth(o) == OfferReads(o, "auth", "JoinAuth", TRUE, "Commit", "commit")
OfferAck(o) == OfferReads(o, "commit", "Ack", TRUE, "Done", "result")

\* The listener expires, a wait times out, the connection breaks, a callback
\* fails, the result does not verify, or the process dies.
OfferFails(o) ==
    /\ offer[o] \notin {"unmade", "paired", "failed"}
    /\ OfferTo(o, "failed")
    /\ UNCHANGED <<served, toOffer, toJoin, join, atOffer, atJoin>>

\* verify_and_store_pairing: a different record is replaced only on request.
OfferStores(o) ==
    /\ offer[o] = "result"
    /\ \E replace \in BOOLEAN :
        IF atOffer[Peer(o)] = None \/ replace
          THEN OfferTo(o, "paired") /\ atOffer' = [atOffer EXCEPT ![Peer(o)] = o]
          ELSE OfferTo(o, "failed") /\ atOffer' = atOffer
    /\ UNCHANGED <<served, toOffer, toJoin, join, atJoin>>

----------------------------------------------------------------------------
(* The joiner.                                                             *)

\* The operator types a code, and the process reaches a listener: the one it
\* was meant for, or another offer of the same node.  The kernel completes
\* connections as long as the listener exists, also after the accepted one.
Connect(j) ==
    /\ join[j].pc = "idle"
    /\ \E o \in Offers, code \in Offers :
        /\ offer[o] \notin {"unmade", "paired", "failed"}
        /\ offer[code] /= "unmade"
        /\ join' = [join EXCEPT ![j] = [pc |-> "connected", to |-> o, code |-> code,
                                        accepted |-> FALSE]]
    /\ UNCHANGED <<offer, served, toOffer, toJoin, atOffer, atJoin>>

\* The joiner at pc reads the frame of kind want, verifies it, answers (the
\* last frame has no answer) and goes on.
JoinReads(j, pc, want, checked, answer, next) ==
    LET o == join[j].to IN
    /\ join[j].pc = pc /\ Connected(o, j)
    /\ toJoin[o] /= None /\ toJoin[o].kind = want
    /\ toJoin' = [toJoin EXCEPT ![o] = None]
    /\ IF checked => Verified(toJoin[o], join[j].code)
         THEN /\ JoinTo(j, next)
              /\ toOffer' = [toOffer EXCEPT ![o] =
                               IF answer = "none" THEN @ ELSE Frame(answer, join[j].code)]
         ELSE join' = [join EXCEPT ![j] = NoJoin] /\ toOffer' = toOffer
    /\ UNCHANGED <<offer, served, atOffer, atJoin>>

JoinServerHello(j) == JoinReads(j, "connected", "ServerHello", FALSE, "JoinHello", "offered")
JoinOfferAuth(j) == JoinReads(j, "offered", "OfferAuth", TRUE, "JoinAuth", "joined")
JoinCommit(j) == JoinReads(j, "joined", "Commit", TRUE, "Ack", "acked")
JoinDone(j) == JoinReads(j, "acked", "Done", TRUE, "none", "result")

\* Mutant of JoinFails: the stream of a waiting joiner has no read timeout.
JoinFailsLate(j) ==
    /\ join[j].pc \notin {"idle", "connected"}
    /\ join' = [join EXCEPT ![j] = NoJoin]
    /\ UNCHANGED <<offer, served, toOffer, toJoin, atOffer, atJoin>>

JoinFails(j) ==
    /\ join[j].pc /= "idle"
    /\ join' = [join EXCEPT ![j] = NoJoin]
    /\ UNCHANGED <<offer, served, toOffer, toJoin, atOffer, atJoin>>

JoinStores(j) ==
    /\ join[j].pc = "result"
    /\ \E replace \in BOOLEAN :
        atJoin' = IF atJoin[j] = None \/ replace
                    THEN [atJoin EXCEPT ![j] = join[j].to] ELSE atJoin
    /\ join' = [join EXCEPT ![j] = NoJoin]
    /\ UNCHANGED <<offer, served, toOffer, toJoin, atOffer>>

----------------------------------------------------------------------------
OfferStep(o) ==
    \/ \E j \in Joiners : Accept(o, j)
    \/ OfferJoinHello(o) \/ OfferJoinAuth(o) \/ OfferAck(o) \/ OfferStores(o)
    \/ OfferFails(o)
JoinStep(j) ==
    \/ JoinServerHello(j) \/ JoinOfferAuth(j) \/ JoinCommit(j) \/ JoinDone(j)
    \/ JoinStores(j) \/ JoinFails(j)

PairingNext ==
    \/ \E o \in Offers : Offer(o) \/ OfferStep(o)
    \/ \E j \in Joiners : Connect(j) \/ JoinStep(j)

PairingSpec == PairingInit /\ [][PairingNext]_pairingVars

\* Deadlines and read timeouts make both sides move; new offers and new
\* joins are the operators' choice.
FairPairing ==
    /\ PairingSpec
    /\ \A o \in Offers : WF_pairingVars(OfferStep(o))
    /\ \A j \in Joiners : WF_pairingVars(JoinStep(j))

----------------------------------------------------------------------------
(* Types, and each stored record names an offer that accepted this joiner. *)
PairingTypes ==
    /\ offer \in [Offers -> {"unmade", "listening", "hello", "auth", "commit",
                             "result", "paired", "failed"}]
    /\ served \in [Offers -> SUBSET Joiners]
    /\ toOffer \in [Offers -> Frames] /\ toJoin \in [Offers -> Frames]
    /\ \A j \in Joiners :
        /\ join[j].pc \in {"idle", "connected", "offered", "joined", "acked", "result"}
        /\ join[j].to \in Offers \cup {None} /\ join[j].code \in Offers \cup {None}
        /\ \A o \in {atOffer[j], atJoin[j]} \ {None} : j \in served[o]

(* One offer, one attempt: a second joiner never gets past its connection, *)
(* whether the first one paired, mistyped the code or timed out.           *)
OneUse == \A o \in Offers : \A i, j \in Joiners :
    /\ i \in served[o] /\ j /= i
    => ~Connected(o, j) /\ o \notin {atOffer[j], atJoin[j]}

(* A joiner that used another code than its offer's reaches no result, and *)
(* neither does the offerer that serves it: a mistyped code or the code of *)
(* an earlier offer stores nothing on either side.                         *)
CodesAgree == \A o \in Offers : \A j \in Joiners :
    Connected(o, j) /\ join[j].code /= o =>
        /\ join[j].pc \notin {"joined", "acked", "result"}
        /\ offer[o] \notin {"commit", "result", "paired"}
        /\ o \notin {atOffer[j], atJoin[j]}

(* The joiner keeps nothing unless the offerer had everything: it reaches  *)
(* its result only by reading the Done of an offerer that completed its    *)
(* own exchange, whatever timed out in between.                            *)
JoinerSecond ==
    [][\A j \in Joiners : join[j].pc /= "result" /\ join'[j].pc = "result"
         => offer[join[j].to] \in {"result", "paired", "failed"}
            /\ Frame("Done", join[j].to) = toJoin[join[j].to]]_pairingVars

(* A pairing is between the one joiner an offer served and its offerer,    *)
(* under the same code, and the offerer completes it first.                *)
PairingSound == [](PairingTypes /\ OneUse /\ CodesAgree) /\ JoinerSecond

(* Every offer that is made and every join that is started ends, also the  *)
(* join that waits in the backlog of a consumed offer.                     *)
ExchangesEnd ==
    /\ \A o \in Offers : offer[o] = "listening" ~> offer[o] \in {"paired", "failed"}
    /\ \A j \in Joiners : join[j].pc /= "idle" ~> join[j].pc = "idle"

(* Does not hold: offer_pairing prints after its own store that both nodes *)
(* saved the other's identity, but the joiner can still lose the last      *)
(* frame or fail to store.                                                 *)
BothSaved == \A o \in Offers : \A j \in Joiners :
    offer[o] = "paired" /\ j \in served[o] ~> atJoin[j] = o
=============================================================================
