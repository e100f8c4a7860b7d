------------------------------ MODULE MCRunDay ------------------------------
(***************************************************************************)
(* An instance of RunDay for TLC: window lists that are in order, out of   *)
(* order and with an hour that does not exist, a database that enforces    *)
(* foreign keys, one order of ours and one of somebody else that matches   *)
(* no track.                                                               *)
(***************************************************************************)
EXTENDS RunDay

Scheduled(w) == [windows |-> w, once |-> FALSE, strict |-> FALSE]
MCDays       == {Scheduled(<<0, 1>>), Scheduled(<<1, 0>>), Scheduled(<<0, 24>>),
                 [Scheduled(<<0>>) EXCEPT !.strict = TRUE],
                 [Scheduled(<<24>>) EXCEPT !.once = TRUE]}

MCTrackList   == <<"conservative", "balanced">>
MCOwnerOf     == [o \in {"o1"} |-> "balanced"]
MCBegins      == [o \in {"o1", "x1"} |-> IF o = "x1" THEN {} ELSE {MCOwnerOf[o]}]
=============================================================================
