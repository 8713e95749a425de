------------------------------ MODULE History ------------------------------
(***************************************************************************)
(* Reading a conversation back page by page: handleHistory of              *)
(* internal/server/web.go and the three queries of internal/db/db.go       *)
(* behind it, while messages are being saved. A page is cut by id          *)
(* (id < before) but ordered by created_at, the time of the insert in      *)
(* whole seconds; what ORDER BY does with equal times SQL leaves open.     *)
(* The reader passes the id of the last message of a page as "before" of   *)
(* the next one, as the README describes the cursor.                       *)
(***************************************************************************)
EXTENDS Naturals, FiniteSets

CONSTANTS
    historyLimit,   \* cfg.App.HistoryLimit
    historyMax,     \* cfg.App.HistoryMax
    RawLimits,      \* what the query parameter may ask for, 0 when absent or not a number
    MaxRows,        \* bound: rows in the table messages
    MaxTime         \* bound: the last second of the clock

ASSUME HistoryAssumption ==
    /\ {historyLimit, historyMax} \subseteq Nat \ {0}
    /\ \A raw \in RawLimits : raw \in Nat
    /\ MaxRows \in Nat /\ MaxTime \in Nat

VARIABLES
    clock,      \* CURRENT_TIMESTAMP
    saved,      \* rows in the table; ids are 1 .. saved
    time,       \* created_at
    conv,       \* ids of the rows that belong to the conversation
    before,     \* the reader's cursor, 0 for the first page
    shown,      \* ids the reader has got
    repeated,   \* ids it has got twice
    top,        \* history: saved when the reader began
    done        \* a page came back empty

vars == <<clock, saved, time, conv, before, shown, repeated, top, done>>

Ids == 1 .. MaxRows

-----------------------------------------------------------------------------
\* handleHistory: an explicit limit is capped by historyMax, the default is not.
Limit(raw) ==
    IF raw = 0 THEN historyLimit ELSE IF raw < historyMax THEN raw ELSE historyMax

\* Mutant: "id <= before".
CandidatesInclusive == {i \in conv : before = 0 \/ i <= before}

\* WHERE type ... AND id < before.
Candidates == {i \in conv : before = 0 \/ i < before}

\* Mutant: no ORDER BY.
InOrderNot(page, rest) == page \cap rest = {}

\* ORDER BY created_at DESC: nothing left out is newer than anything in the page.
InOrder(page, rest) == \A i \in page, j \in rest : time[j] <= time[i]

\* ... LIMIT n: as many rows as there are, up to n.
IsPage(page, n) ==
    /\ page \subseteq Candidates
    /\ InOrder(page, Candidates \ page)
    /\ Cardinality(page) <= n
    /\ page # Candidates => Cardinality(page) = n

\* The last row of a page: one of its oldest.
IsLast(i, page) == i \in page /\ \A j \in page : time[i] <= time[j]

Init ==
    /\ clock = 0
    /\ saved = 0
    /\ time = [i \in Ids |-> 0]
    /\ conv = {}
    /\ before = 0
    /\ shown = {}
    /\ repeated = {}
    /\ top = 0
    /\ done = FALSE

\* The clock is assumed not to be set back.
Tick ==
    /\ clock < MaxTime
    /\ clock' = clock + 1
    /\ UNCHANGED <<saved, time, conv, before, shown, repeated, top, done>>

\* SaveMessage, of a message of this conversation or of another one.
SaveMessage(mine) ==
    /\ saved < MaxRows
    /\ saved' = saved + 1
    /\ time' = [time EXCEPT ![saved + 1] = clock]
    /\ conv' = IF mine THEN conv \cup {saved + 1} ELSE conv
    /\ UNCHANGED <<clock, before, shown, repeated, top, done>>

\* GetPublicMessages, GetGroupMessages, GetPrivateMessages: one query each.
GetMessages(raw, page, last) ==
    /\ ~done
    /\ IsPage(page, Limit(raw))
    /\ IsLast(last, page)
    /\ before' = last
    /\ shown' = shown \cup page
    /\ repeated' = repeated \cup (shown \cap page)
    /\ top' = IF before = 0 THEN saved ELSE top
    /\ UNCHANGED <<clock, saved, time, conv, done>>

\* An empty page ends the reading.
GetNothing ==
    /\ ~done
    /\ Candidates = {}
    /\ done' = TRUE
    /\ UNCHANGED <<clock, saved, time, conv, before, shown, repeated, top>>

Read ==
    \/ \E raw \in RawLimits, page \in SUBSET conv : \E last \in page :
          GetMessages(raw, page, last)
    \/ GetNothing

Next ==
    \/ Tick
    \/ \E mine \in BOOLEAN : SaveMessage(mine)
    \/ Read

Spec == Init /\ [][Next]_vars

\* A reader that has begun goes on to the end; nobody has to begin.
Fairness == WF_vars(before # 0 /\ Read)

-----------------------------------------------------------------------------
(* Properties.                                                             *)

\* Every variable has the type of what it models.
TypeOK ==
    /\ clock \in 0 .. MaxTime
    /\ saved \in 0 .. MaxRows
    /\ time \in [Ids -> 0 .. MaxTime]
    /\ conv \in SUBSET Ids
    /\ before \in 0 .. MaxRows
    /\ shown \in SUBSET Ids
    /\ repeated \in SUBSET Ids
    /\ top \in 0 .. MaxRows
    /\ done \in BOOLEAN

\* Cutting by id and ordering by time agree but for equal times: a message that was there when
\* the reader began, and that its cursor has passed without showing it, was written in the
\* same second as one that it did show, whatever is saved in the meantime.
SkippedOnlyInTies ==
    \A i \in conv : before # 0 /\ before <= i /\ i <= top /\ i \notin shown =>
        \E j \in shown : time[j] = time[i]

\* No message is shown twice, unless another one that was shown has the same second.
RepeatedOnlyInTies == \A i \in repeated : \E j \in shown \ {i} : time[j] = time[i]

\* The cursor falls with every page: a reading that has begun ends, although messages keep
\* coming.
PagingEnds == before # 0 ~> done
=============================================================================
