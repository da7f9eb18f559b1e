--------------------------- MODULE ExactlyOnceFeed ---------------------------
(***************************************************************************)
(* What keyset pagination promises a client that follows next_cursor to    *)
(* the end, with everything about pages, limits and statements left out.   *)
(*                                                                         *)
(* The client reads forward along the keyset order: its frontier only      *)
(* moves to later rows, and a row is received only as the frontier passes  *)
(* it.  Of the rows the frontier passes, those that have not been touched  *)
(* since the client began (settled) must all be received; a row that a     *)
(* rebuild of the mart added, moved or removed may be received or not.     *)
(***************************************************************************)
EXTENDS Keyset

VARIABLES settled,    \* the matching rows unchanged since the client began
          frontier,   \* the last row passed, NoCursor before the first
          received,   \* the rows the client has been given
          finished    \* the client was told there is no next page

vars == <<settled, frontier, received, finished>>

\* No two rows share an id.
OneRowPerId(S) == \A r, s \in S : r.id = s.id => r = s

Init == /\ settled \in {S \in SUBSET Row : OneRowPerId(S)}
        /\ frontier = NoCursor
        /\ received = {}
        /\ finished = FALSE

\* The rows of S passed when the frontier moves from c to f.
Passed(S, c, f) == {r \in Beyond(c, S) : ~SeekWhere(f, r)}

\* A page that is not the last one.
Advance == \E f \in Beyond(frontier, Row), given \in SUBSET Beyond(frontier, Row) :
             /\ ~finished
             /\ given = Passed(given, frontier, f)
             /\ Passed(settled, frontier, f) \subseteq given
             /\ frontier' = f
             /\ received' = received \cup given
             /\ UNCHANGED <<settled, finished>>

\* The last page.
Finish == \E given \in SUBSET Beyond(frontier, Row) :
            /\ ~finished
            /\ Beyond(frontier, settled) \subseteq given
            /\ frontier' = NoCursor
            /\ received' = received \cup given
            /\ finished' = TRUE
            /\ UNCHANGED settled

\* A rebuild of the mart touched some of the settled rows.
Unsettle == /\ settled' \in SUBSET settled
            /\ UNCHANGED <<frontier, received, finished>>

Next == Unsettle \/ Advance \/ Finish

Spec == Init /\ [][Next]_vars

-----------------------------------------------------------------------------
\* The promise: a walk that ended has received every row that stayed put.
NothingSettledMissed == finished => settled \subseteq received

\* While the walk goes on, a settled row has been received exactly if the
\* frontier has passed it.
FrontierSplitsSettled ==
  ~finished => \A r \in settled :
                 r \in received <=> frontier # NoCursor /\ ~SeekWhere(frontier, r)

\* A row once received is never received again: whatever a step adds was not
\* there before and lies beyond all that was.
OnlyForward == [][\A r \in received' \ received, s \in received : Precedes(s, r)]_vars
=============================================================================
