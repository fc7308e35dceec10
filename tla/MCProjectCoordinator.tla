------------------------- MODULE MCProjectCoordinator -------------------------
(***************************************************************************)
(* Small projects, one per question: each policy with two or three         *)
(* alternatives, a prerequisite of a branch and routes that declare        *)
(* resources.  The last two never start: their projection is refused.      *)
(***************************************************************************)
EXTENDS ProjectCoordinator

MCRoute == {"a", "b", "c", "p"}
MCResource == {"net", "file"}
MCPath == {"file"}

Nothing == [r \in MCRoute |-> {}]

Base(policy, contract, order) ==
  [policy |-> policy, contract |-> contract, order |-> order, ambient |-> {},
   idempotent |-> {}, prerequisites |-> Nothing, reads |-> Nothing, writes |-> Nothing]

Two == << <<"a">>, <<"b">> >>
Three == << <<"a">>, <<"b">>, <<"c">> >>
Deep == << <<"p", "a">>, <<"b">> >>

Needs(p) == [p EXCEPT !.prerequisites = [Nothing EXCEPT !["a"] = {"p"}]]

MCProjects ==
  { Needs(Base("explicit", "Strict", << <<"p", "a">> >>)),
    Base("all", "Strict", Two),
    [Needs(Base("fallback", "Strict", << <<"p", "a">>, <<"b">>, <<"c">> >>))
       EXCEPT !.idempotent = {"a"}],
    Base("any_success", "LegacyCompatibility", Three),
    \* a writes what its prerequisite read, b writes it again, c reads it
    [Needs(Base("fallback", "LegacyCompatibility", << <<"p", "a">>, <<"b">>, <<"c">> >>))
       EXCEPT !.reads["p"] = {"file"}, !.writes["a"] = {"file"},
              !.writes["b"] = {"file"}, !.reads["c"] = {"file"}],
    Base("race_success", "Strict", Three),
    Needs(Base("race_success", "Strict", Deep)),
    Base("race_settle", "Strict", Three),
    Needs(Base("race_settle", "Strict", Deep)),
    Base("verify_equivalent", "Strict", Two),
    [Base("benchmark_and_select", "Strict", Three)
       EXCEPT !.writes["a"] = {"net"}, !.writes["c"] = {"net", "file"},
              !.reads["b"] = {"file"}],
    \* b and c may read at the same time what a writes
    [Base("benchmark_validate_and_select", "Strict", Three)
       EXCEPT !.writes["a"] = {"net"}, !.reads["b"] = {"net"}, !.reads["c"] = {"net"}],
    \* refused: the second alternative writes what the first one reads
    [Base("fallback", "LegacyCompatibility", Two)
       EXCEPT !.reads["a"] = {"file"}, !.writes["b"] = {"file"}],
    \* refused: an ambient route beside others
    [Base("benchmark_validate_and_select", "Strict", Three) EXCEPT !.ambient = {"b"}] }
===============================================================================
