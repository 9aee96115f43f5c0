---------------------------- MODULE TurnMessages ----------------------------
(***************************************************************************)
(* The message protocol of a request (turn_engine/message_protocol.py):    *)
(* what is dropped and merged on the way from a transcript to the messages *)
(* a provider is sent.  A message is a record                              *)
(*                                                                         *)
(*   [role, uses, results, text]                                           *)
(*                                                                         *)
(* with the ids of its tool_use and tool_result blocks and whether it has  *)
(* any other block.  Only assistants hold tool_use blocks and only users   *)
(* tool_result blocks, which is how the engine builds them.                *)
(***************************************************************************)
EXTENDS Naturals, Sequences, FiniteSets, SequencesExt

ApiRoles == {"system", "user", "assistant"}

UsedUpTo(ms, i) == UNION {ms[h].uses : h \in 1 .. i}
AllUses(ms) == UsedUpTo(ms, Len(ms))
AllResults(ms) == UNION {ms[h].results : h \in DOMAIN ms}

IsEmptyMessage(m) == m.uses = {} /\ m.results = {} /\ ~m.text

(* A result counts when its use came before it and no earlier result of    *)
(* the same id counted.                                                    *)
ValidResults(ms, j) ==
    {id \in ms[j].results :
        /\ id \in UsedUpTo(ms, j - 1)
        /\ \A h \in 1 .. j - 1 :
              ~(id \in ms[h].results /\ id \in UsedUpTo(ms, h - 1))}

\* Mutant: uses without a result are kept.
EnsureToolResultPairingOfResults(ms) ==
    LET repaired == [i \in DOMAIN ms |-> [ms[i] EXCEPT !.results = ValidResults(ms, i)]]
    IN  SelectSeq(repaired, LAMBDA m : ~IsEmptyMessage(m))

EnsureToolResultPairing(ms) ==
    LET matched == UNION {ValidResults(ms, j) : j \in DOMAIN ms}
        repaired == [i \in DOMAIN ms |->
                        [ms[i] EXCEPT !.uses = @ \cap matched,
                                      !.results = ValidResults(ms, i)]]
    IN  SelectSeq(repaired, LAMBDA m : ~IsEmptyMessage(m))

CanMerge(left, right) == left.role = right.role

MergeMessages(left, right) ==
    [left EXCEPT !.uses = @ \cup right.uses,
                 !.results = @ \cup right.results,
                 !.text = @ \/ right.text]

MergeAdjacent(ms) ==
    FoldLeft(LAMBDA merged, m :
                 IF merged # <<>> /\ CanMerge(Last(merged), m)
                 THEN Append(Front(merged), MergeMessages(Last(merged), m))
                 ELSE Append(merged, m),
             <<>>, ms)

NormalizeMessagesForApi(ms) ==
    LET bound == SelectSeq(ms, LAMBDA m : m.role \in ApiRoles /\ ~IsEmptyMessage(m))
    IN  MergeAdjacent(EnsureToolResultPairing(MergeAdjacent(bound)))

----
(* What a provider requires of the messages of a request: the uses of a    *)
(* message are answered by the message after it, that message answers      *)
(* nothing else, and no two neighbours have the same role.                 *)
IsPaired(ms) ==
    /\ \A i \in DOMAIN ms :
          ms[i].uses # {} => i < Len(ms) /\ ms[i].uses = ms[i + 1].results
    /\ \A j \in DOMAIN ms :
          ms[j].results # {} => j > 1 /\ ms[j].results = ms[j - 1].uses

IsAlternating(ms) ==
    \A i \in 1 .. Len(ms) - 1 : ms[i].role # ms[i + 1].role
=============================================================================
