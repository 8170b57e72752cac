---------------------------- MODULE SessionProofs ----------------------------
(***************************************************************************)
(* Proofs about SessionTracker for every number of rows, handlers, payload *)
(* kinds, failures and limits: its types, that a row only gets lost when a *)
(* statement fails or the process dies, and that a tracked session knows   *)
(* the start of its row.                                                   *)
(***************************************************************************)
EXTENDS SessionTracker, FiniteSetTheorems, TLAPS

Statements == {"charge", "lookup", "resumeReply", "create", "createReply", "drive",
               "drives", "charges", "orphanDrives", "orphanCharges", "crash"}

\* The caps are numbers.
LEMMA Caps ==
    /\ StartCap \in Nat /\ MaxLag \in Nat /\ MaxFaults \in Nat /\ Stale \in Nat /\ ZeroTimeout \in Nat
    /\ SeenCap \in Nat /\ ZeroCap \in Nat /\ EndCap \in Nat /\ LogCap \in Nat
    /\ MaxLag <= StartCap /\ MaxLag <= LogCap /\ EndCap <= LogCap
    /\ Unset = -1 /\ Unset \in Unset .. ZeroCap
    /\ 0 \in 0 .. StartCap /\ 0 \in 0 .. LogCap /\ 0 \in 0 .. SeenCap /\ 0 \in Unset .. ZeroCap
BY SessionAssumption DEF SeenCap, ZeroCap, EndCap, LogCap, Unset

\* Aging stays below the cap.
LEMMA OlderType == \A cap \in Nat, low \in Int, age \in Int :
    low <= age /\ age <= cap => Older(age, cap) \in low .. cap
BY DEF Older

-----------------------------------------------------------------------------
(* Finite sets and the count of the failures. *)

\* There are finitely many statements to fail.
LEMMA StatementsFinite == IsFiniteSet(Statements)
<1> DEFINE A == {"charge", "lookup", "resumeReply", "create"}
           B == {"createReply", "drive", "drives", "charges"}
           C == {"orphanDrives", "orphanCharges", "crash"}
<1>1. IsFiniteSet({}) BY FS_EmptySet
<1>2. \A S, x : IsFiniteSet(S) => IsFiniteSet(S \cup {x}) BY FS_AddElement
<1>3. IsFiniteSet({"charge"}) /\ IsFiniteSet({"createReply"}) /\ IsFiniteSet({"orphanDrives"})
    BY FS_Singleton
<1>4. IsFiniteSet({"charge"} \cup {"lookup"} \cup {"resumeReply"} \cup {"create"}) BY <1>2, <1>3
<1>5. IsFiniteSet({"createReply"} \cup {"drive"} \cup {"drives"} \cup {"charges"}) BY <1>2, <1>3
<1>6. IsFiniteSet({"orphanDrives"} \cup {"orphanCharges"} \cup {"crash"}) BY <1>2, <1>3
<1>7. /\ A = {"charge"} \cup {"lookup"} \cup {"resumeReply"} \cup {"create"}
      /\ B = {"createReply"} \cup {"drive"} \cup {"drives"} \cup {"charges"}
      /\ C = {"orphanDrives"} \cup {"orphanCharges"} \cup {"crash"}
    OBVIOUS
<1>8. IsFiniteSet(A) /\ IsFiniteSet(B) /\ IsFiniteSet(C) BY <1>4, <1>5, <1>6, <1>7
<1>9. IsFiniteSet(A \cup B \cup C) BY <1>8, FS_Union
<1>10. Statements = A \cup B \cup C BY DEF Statements
<1>. QED BY <1>9, <1>10

\* A set within another and one more member has at most one member more.
LEMMA Grows == ASSUME NEW S, NEW T, NEW x, IsFiniteSet(S), T \subseteq S \cup {x}
               PROVE  Cardinality(T) \in Nat /\ Cardinality(S) \in Nat
                      /\ Cardinality(T) <= Cardinality(S) + 1
<1>1. IsFiniteSet(S \cup {x}) /\ Cardinality(S \cup {x}) <= Cardinality(S) + 1
      /\ Cardinality(S) \in Nat
    BY FS_AddElement, FS_CardinalityType
<1>2. Cardinality(T) <= Cardinality(S \cup {x}) /\ IsFiniteSet(T) BY <1>1, FS_Subset
<1>. QED BY <1>1, <1>2, FS_CardinalityType

\* A subset has at most as many members.
LEMMA Shrinks == ASSUME NEW S, NEW T, IsFiniteSet(S), T \subseteq S
                 PROVE  Cardinality(T) \in Nat /\ Cardinality(S) \in Nat
                        /\ Cardinality(T) <= Cardinality(S)
BY FS_Subset, FS_CardinalityType

\* Two failures count two.
LEMMA Counts == ASSUME NEW bad \in SUBSET Statements
                PROVE  /\ Cardinality(bad) \in Nat
                       /\ \A x \in bad : Cardinality(bad) >= 1
                       /\ \A x, y \in bad : x # y => Cardinality(bad) >= 2
<1>1. IsFiniteSet(bad) /\ Cardinality(bad) \in Nat
    BY StatementsFinite, FS_Subset, FS_CardinalityType
<1>2. ASSUME NEW x \in bad PROVE Cardinality(bad) >= 1
    BY <1>1, <1>2, FS_EmptySet
<1>3. ASSUME NEW x \in bad, NEW y \in bad, x # y PROVE Cardinality(bad) >= 2
    <2>1. IsFiniteSet(bad \ {x}) /\ Cardinality(bad \ {x}) = Cardinality(bad) - 1
        BY <1>1, FS_RemoveElement
    <2>2. Cardinality(bad \ {x}) # 0 BY <2>1, <1>3, FS_EmptySet
    <2>3. Cardinality(bad \ {x}) \in Nat BY <2>1, FS_CardinalityType
    <2>. QED BY <1>1, <2>1, <2>2, <2>3
<1>. QED BY <1>1, <1>2, <1>3

\* What Failing says of the count of the failures.
LEMMA Fails == ASSUME NEW bad \in SUBSET Statements, NEW possible, Failing(bad, possible), faults \in 0 .. MaxFaults
               PROVE  /\ faults' \in 0 .. MaxFaults /\ faults' >= faults
                      /\ \A x \in bad : faults' >= faults + 1
                      /\ \A x, y \in bad : x # y => faults' >= faults + 2
BY Counts, Caps DEF Failing
-----------------------------------------------------------------------------
(* What an operation on the rows does to each of them. *)

LEMMA OpenedRows ==
    ASSUME NEW ids, NEW rows \in Rows(ids), NEW r \in ids, NEW start \in 0 .. StartCap
    PROVE  /\ Opened(rows, r, start) \in Rows(ids)
           /\ Opened(rows, r, start)[r] = [state |-> "open", start |-> start, end |-> 0]
           /\ \A q \in ids : q # r => Opened(rows, r, start)[q] = rows[q]
<1>1. [state |-> "open", start |-> start, end |-> 0] \in Row BY Caps DEF Row
<1>2. rows \in [ids -> Row] BY DEF Rows
<1>3. Opened(rows, r, start) \in [ids -> Row] BY <1>1, <1>2 DEF Opened
<1>. QED BY <1>1, <1>2, <1>3 DEF Opened, Rows

LEMMA EndedRows ==
    ASSUME NEW ids, NEW rows \in Rows(ids), NEW r \in ids, NEW end \in 0 .. LogCap
    PROVE  /\ Ended(rows, r, end) \in Rows(ids)
           /\ Ended(rows, r, end)[r] = [state |-> "ended", start |-> rows[r].start, end |-> end]
           /\ \A q \in ids : q # r => Ended(rows, r, end)[q] = rows[q]
<1>1. rows \in [ids -> Row] /\ rows[r] \in Row BY DEF Rows
<1>2. [state |-> "ended", start |-> rows[r].start, end |-> end] \in Row BY <1>1 DEF Row
<1>3. Ended(rows, r, end) = [rows EXCEPT ![r] = [state |-> "ended", start |-> rows[r].start, end |-> end]]
    BY DEF Ended
<1>4. Ended(rows, r, end) \in [ids -> Row] BY <1>1, <1>2, <1>3
<1>. QED BY <1>1, <1>3, <1>4 DEF Rows

LEMMA ReopenedRows ==
    ASSUME NEW ids, NEW rows \in Rows(ids), NEW r \in ids
    PROVE  /\ Reopened(rows, r) \in Rows(ids)
           /\ Reopened(rows, r)[r] = [state |-> "open", start |-> rows[r].start, end |-> 0]
           /\ \A q \in ids : q # r => Reopened(rows, r)[q] = rows[q]
<1>1. rows \in [ids -> Row] /\ rows[r] \in Row BY DEF Rows
<1>2. [state |-> "open", start |-> rows[r].start, end |-> 0] \in Row BY <1>1, Caps DEF Row
<1>3. Reopened(rows, r) = [rows EXCEPT ![r] = [state |-> "open", start |-> rows[r].start, end |-> 0]]
    BY DEF Reopened
<1>4. Reopened(rows, r) \in [ids -> Row] BY <1>1, <1>2, <1>3
<1>. QED BY <1>1, <1>3, <1>4 DEF Rows

\* The sweep and the recovery end rows, and do nothing else to them.
Closes(ids, rows, rows1) ==
    /\ rows1 \in Rows(ids)
    /\ \A q \in ids : rows1[q].start = rows[q].start
                      /\ (rows1[q].state = rows[q].state \/ (rows1[q].state = "ended" /\ rows[q].state # "none"))

LEMMA SweptCloses ==
    ASSUME NEW ids, NEW rows \in Rows(ids), NEW limit
    PROVE  Closes(ids, rows, SweptRows(rows, limit))
<1>1. DOMAIN rows = ids BY DEF Rows
<1>2. ASSUME NEW q \in ids
      PROVE  Ended(rows, q, 0)[q] = [state |-> "ended", start |-> rows[q].start, end |-> 0]
             /\ Ended(rows, q, 0)[q] \in Row
    <2>1. 0 \in 0 .. LogCap BY Caps
    <2>2. Ended(rows, q, 0) \in [ids -> Row] BY <2>1, EndedRows DEF Rows
    <2>. QED BY <2>1, <2>2, EndedRows
<1>3. SweptRows(rows, limit) = [q \in ids |->
        IF IsOpen(rows, q) /\ rows[q].start > limit THEN Ended(rows, q, 0)[q] ELSE rows[q]]
    BY <1>1 DEF SweptRows
<1>4. rows \in [ids -> Row] BY DEF Rows
<1>5. SweptRows(rows, limit) \in [ids -> Row] BY <1>2, <1>3, <1>4
<1>6. ASSUME NEW q \in ids
      PROVE  SweptRows(rows, limit)[q].start = rows[q].start
             /\ (\/ SweptRows(rows, limit)[q].state = rows[q].state
                 \/ (SweptRows(rows, limit)[q].state = "ended" /\ rows[q].state # "none"))
    <2>1. CASE IsOpen(rows, q) /\ rows[q].start > limit
        <3>1. SweptRows(rows, limit)[q] = [state |-> "ended", start |-> rows[q].start, end |-> 0]
            BY <1>2, <1>3, <2>1
        <3>. QED BY <2>1, <3>1 DEF IsOpen
    <2>2. CASE ~(IsOpen(rows, q) /\ rows[q].start > limit)
        <3>1. SweptRows(rows, limit)[q] = rows[q] BY <1>3, <2>2
        <3>. QED BY <3>1
    <2>. QED BY <2>1, <2>2
<1>. QED BY <1>5, <1>6 DEF Closes, Rows

LEMMA RecoveredCloses ==
    ASSUME NEW ids, NEW rows \in Rows(ids), NEW tracked, NEW lastLog \in Unset .. LogCap, NEW skip
    PROVE  Closes(ids, rows, Recovered(rows, tracked, lastLog, skip))
<1> DEFINE end == IF lastLog = Unset THEN 0 ELSE lastLog
           R == Recovered(rows, tracked, lastLog, skip)
           Closing(q) == /\ tracked.id = None /\ IsOpen(rows, q) /\ q \notin skip
                         /\ lastLog = Unset \/ lastLog >= Fresh
<1>1. DOMAIN rows = ids /\ rows \in [ids -> Row] BY DEF Rows
<1>2. end \in 0 .. LogCap BY Caps
<1>3. ASSUME NEW q \in ids
      PROVE  Ended(rows, q, end)[q] = [state |-> "ended", start |-> rows[q].start, end |-> end]
             /\ Ended(rows, q, end)[q] \in Row
    <2>2. Ended(rows, q, end) \in [ids -> Row] BY <1>2, EndedRows DEF Rows
    <2>. QED BY <1>2, <2>2, EndedRows
<1>4. R = [q \in ids |-> IF Closing(q) THEN Ended(rows, q, end)[q] ELSE rows[q]]
    BY <1>1 DEF Recovered
<1> HIDE DEF end
<1>5. R \in [ids -> Row] BY <1>1, <1>3, <1>4
<1>6. ASSUME NEW q \in ids
      PROVE  R[q].start = rows[q].start
             /\ (R[q].state = rows[q].state \/ (R[q].state = "ended" /\ rows[q].state # "none"))
    <2>1. CASE Closing(q)
        <3>1. R[q] = [state |-> "ended", start |-> rows[q].start, end |-> end] BY <1>3, <1>4, <2>1
        <3>. QED BY <2>1, <3>1 DEF IsOpen
    <2>2. CASE ~Closing(q)
        <3>1. R[q] = rows[q] BY <1>4, <2>2
        <3>. QED BY <3>1
    <2>. QED BY <2>1, <2>2
<1>. QED BY <1>5, <1>6 DEF Closes, Rows

\* Ending one row, or leaving the table, is a special case.
LEMMA EndedCloses ==
    ASSUME NEW ids, NEW rows \in Rows(ids)
    PROVE  /\ Closes(ids, rows, rows)
           /\ \A r \in ids, end \in 0 .. LogCap : rows[r].state # "none" => Closes(ids, rows, Ended(rows, r, end))
<1>1. Closes(ids, rows, rows) BY DEF Closes
<1>2. ASSUME NEW r \in ids, NEW end \in 0 .. LogCap, rows[r].state # "none"
      PROVE  Closes(ids, rows, Ended(rows, r, end))
    <2> DEFINE E == Ended(rows, r, end)
    <2>1. /\ E \in Rows(ids)
          /\ E[r] = [state |-> "ended", start |-> rows[r].start, end |-> end]
          /\ \A q \in ids : q # r => E[q] = rows[q]
        BY EndedRows
    <2> HIDE DEF E
    <2>2. E[r].start = rows[r].start /\ E[r].state = "ended" BY <2>1
    <2>3. \A q \in ids : q # r => E[q].start = rows[q].start /\ E[q].state = rows[q].state BY <2>1
    <2>4. \A q \in ids : E[q].start = rows[q].start
                          /\ (E[q].state = rows[q].state \/ (E[q].state = "ended" /\ rows[q].state # "none"))
        BY <1>2, <2>2, <2>3
    <2>5. Closes(ids, rows, E) BY <2>1, <2>4 DEF Closes
    <2>. QED BY <2>5 DEF E
<1>. QED BY <1>1, <1>2
-----------------------------------------------------------------------------
(* A step of one table and the session tracked in it. *)

Untracked(ids, rows, id) == {r \in ids : IsOpen(rows, r) /\ id # r}
StartsAgree(rows, session) ==
    session.id # None => rows[session.id].state # "none" /\ rows[session.id].start = session.start

\* The step ends rows only; the session goes on, is dropped, or is taken from an open
\* row. A session is lost when it is dropped while its row stays open.
Keeps(ids, rows, rows1, old, new, lost) ==
    /\ Closes(ids, rows, rows1)
    /\ \/ new.id = old.id /\ (new.start = old.start \/ new.id = None)
       \/ new.id = None /\ old.id # None /\ (lost \/ ~IsOpen(rows1, old.id))
       \/ old.id = None /\ new.id \in ids /\ IsOpen(rows, new.id) /\ new.start = rows[new.id].start

LEMMA KeepsStarts ==
    ASSUME NEW ids, None \notin ids, NEW rows \in Rows(ids), NEW rows1, NEW old, NEW new, NEW lost,
           old.id \in ids \cup {None}, Keeps(ids, rows, rows1, old, new, lost), StartsAgree(rows, old)
    PROVE  StartsAgree(rows1, new)
BY DEF Keeps, Closes, StartsAgree, IsOpen

LEMMA KeepsUntracked ==
    ASSUME NEW ids, None \notin ids, IsFiniteSet(ids), NEW rows \in Rows(ids), NEW rows1, NEW old, NEW new,
           NEW lost, Keeps(ids, rows, rows1, old, new, lost)
    PROVE  LET n  == Cardinality(Untracked(ids, rows, old.id))
               n1 == Cardinality(Untracked(ids, rows1, new.id))
           IN n \in Nat /\ n1 \in Nat /\ n1 <= n + 1 /\ (~lost => n1 <= n)
<1> DEFINE U == Untracked(ids, rows, old.id)
           U1 == Untracked(ids, rows1, new.id)
<1>1. \A r \in ids : IsOpen(rows1, r) => IsOpen(rows, r) BY DEF Keeps, Closes, IsOpen
<1>2. IsFiniteSet(U) /\ IsFiniteSet(U1) BY FS_Subset DEF Untracked
<1>3. U1 \subseteq U \cup {old.id} BY <1>1 DEF Keeps, Untracked
<1>4. ~lost => U1 \subseteq U BY <1>1 DEF Keeps, Untracked
<1> HIDE DEF U, U1
<1>5. Cardinality(U) \in Nat /\ Cardinality(U1) \in Nat /\ Cardinality(U1) <= Cardinality(U) + 1
    BY <1>2, <1>3, Grows
<1>6. ~lost => Cardinality(U1) <= Cardinality(U) BY <1>2, <1>4, Shrinks
<1>. QED BY <1>5, <1>6 DEF U, U1
-----------------------------------------------------------------------------
(* The invariant, and the completions. *)

\* The process has no session while it is down.
Clean == phase = "down" => drive.id = None /\ charging.id = None
Live  == TypeOK /\ Clean /\ CanonicalStart

LEMMA StartsAgreeDef == CanonicalStart <=> StartsAgree(drives, drive) /\ StartsAgree(charges, charging)
BY DEF CanonicalStart, StartsAgree

LEMMA NoSessions == /\ NoDrive \in DriveSession /\ NoDrive.id = None
                    /\ NoCharge \in ChargeSession /\ NoCharge.id = None
BY Caps DEF NoDrive, NoCharge, DriveSession, ChargeSession

LEMMA CompleteDriveStep ==
    ASSUME Live, NEW end \in 0 .. LogCap, NEW bad, drive.id # None, CompleteDrive(end, bad)
    PROVE  /\ drive' = NoDrive
           /\ Keeps(Drives, drives, drives', drive, drive', "drive" \in bad)
<1>1. drive.id \in Drives /\ drives[drive.id].state # "none" /\ drives \in Rows(Drives)
    BY DEF Live, TypeOK, DriveSession, CanonicalStart
<1>2. drive' = NoDrive /\ NoDrive.id = None BY NoSessions DEF CompleteDrive
<1>3. CASE "drive" \in bad
    <2>1. drives' = drives BY <1>3 DEF CompleteDrive
    <2>2. Closes(Drives, drives, drives') BY <1>1, <2>1, EndedCloses
    <2>. QED BY <1>2, <1>3, <2>2 DEF Keeps
<1>4. CASE "drive" \notin bad
    <2>1. drives' = Ended(drives, drive.id, end) BY <1>4 DEF CompleteDrive
    <2>2. Closes(Drives, drives, drives') BY <1>1, <2>1, EndedCloses
    <2>3. drives'[drive.id] = [state |-> "ended", start |-> drives[drive.id].start, end |-> end]
        BY <1>1, <2>1, EndedRows
    <2>4. ~IsOpen(drives', drive.id) BY <2>3 DEF IsOpen
    <2>. QED BY <1>2, <2>2, <2>4 DEF Keeps
<1>. QED BY <1>2, <1>3, <1>4

LEMMA CompleteChargeStep ==
    ASSUME Live, NEW end \in 0 .. LogCap, NEW bad, charging.id # None, CompleteCharge(end, bad)
    PROVE  /\ charging' = NoCharge
           /\ Keeps(Charges, charges, charges', charging, charging', "charge" \in bad)
<1>1. charging.id \in Charges /\ charges[charging.id].state # "none" /\ charges \in Rows(Charges)
    BY DEF Live, TypeOK, ChargeSession, CanonicalStart
<1>2. charging' = NoCharge /\ NoCharge.id = None BY NoSessions DEF CompleteCharge
<1>3. CASE "charge" \in bad
    <2>1. charges' = charges BY <1>3 DEF CompleteCharge
    <2>2. Closes(Charges, charges, charges') BY <1>1, <2>1, EndedCloses
    <2>. QED BY <1>2, <1>3, <2>2 DEF Keeps
<1>4. CASE "charge" \notin bad
    <2>1. charges' = Ended(charges, charging.id, end) BY <1>4 DEF CompleteCharge
    <2>2. Closes(Charges, charges, charges') BY <1>1, <2>1, EndedCloses
    <2>3. charges'[charging.id] = [state |-> "ended", start |-> charges[charging.id].start, end |-> end]
        BY <1>1, <2>1, EndedRows
    <2>4. ~IsOpen(charges', charging.id) BY <2>3 DEF IsOpen
    <2>. QED BY <1>2, <2>2, <2>4 DEF Keeps
<1>. QED BY <1>2, <1>3, <1>4

\* A table and a session that stay as they are.
LEMMA StaysStep ==
    ASSUME Live
    PROVE  /\ drives' = drives /\ drive' = drive => Keeps(Drives, drives, drives', drive, drive', FALSE)
           /\ charges' = charges /\ charging' = charging
                => Keeps(Charges, charges, charges', charging, charging', FALSE)
BY EndedCloses DEF Live, TypeOK, Keeps

-----------------------------------------------------------------------------
(* What every step but a start of a session and the passing of time does. *)

Settles(lostDrive, lostCharge) ==
    /\ Keeps(Drives, drives, drives', drive, drive', lostDrive)
    /\ Keeps(Charges, charges, charges', charging, charging', lostCharge)
    /\ faults' \in 0 .. MaxFaults /\ faults' >= faults
    /\ (lostDrive \/ lostCharge) => faults' >= faults + 1

LEMMA SettlesStarts == ASSUME Live, NEW d, NEW c, Settles(d, c)
                       PROVE  drives' \in Rows(Drives) /\ charges' \in Rows(Charges) /\ CanonicalStart'
<1>1. drives \in Rows(Drives) /\ charges \in Rows(Charges)
      /\ drive.id \in Drives \cup {None} /\ charging.id \in Charges \cup {None}
    BY DEF Live, TypeOK, DriveSession, ChargeSession
<1>2. None \notin Drives /\ None \notin Charges BY SessionAssumption
<1>3. StartsAgree(drives, drive) /\ StartsAgree(charges, charging) BY StartsAgreeDef DEF Live
<1>4. StartsAgree(drives', drive') BY <1>1, <1>2, <1>3, KeepsStarts DEF Settles
<1>5. StartsAgree(charges', charging') BY <1>1, <1>2, <1>3, KeepsStarts DEF Settles
<1>6. CanonicalStart' BY <1>4, <1>5 DEF CanonicalStart, StartsAgree
<1>. QED BY <1>6 DEF Settles, Keeps, Closes

LEMMA SettlesOrphans == ASSUME Live, OrphansBounded, NEW d, NEW c, Settles(d, c)
                        PROVE  OrphansBounded'
<1>1. drives \in Rows(Drives) /\ charges \in Rows(Charges) /\ faults \in 0 .. MaxFaults /\ MaxFaults \in Nat
    BY Caps DEF Live, TypeOK
<1>2. None \notin Drives /\ None \notin Charges /\ IsFiniteSet(Drives) /\ IsFiniteSet(Charges)
    BY SessionAssumption
<1>3. /\ OrphanDrives = Untracked(Drives, drives, drive.id)
      /\ OrphanCharges = Untracked(Charges, charges, charging.id)
    BY DEF OrphanDrives, OrphanCharges, Untracked
<1>4. /\ OrphanDrives' = Untracked(Drives, drives', drive'.id)
      /\ OrphanCharges' = Untracked(Charges, charges', charging'.id)
    BY DEF OrphanDrives, OrphanCharges, Untracked, IsOpen
<1>5. /\ Cardinality(OrphanDrives) \in Nat /\ Cardinality(OrphanDrives') \in Nat
      /\ Cardinality(OrphanDrives') <= Cardinality(OrphanDrives) + 1
      /\ ~d => Cardinality(OrphanDrives') <= Cardinality(OrphanDrives)
    BY <1>1, <1>2, <1>3, <1>4, KeepsUntracked DEF Settles
<1>6. /\ Cardinality(OrphanCharges) \in Nat /\ Cardinality(OrphanCharges') \in Nat
      /\ Cardinality(OrphanCharges') <= Cardinality(OrphanCharges) + 1
      /\ ~c => Cardinality(OrphanCharges') <= Cardinality(OrphanCharges)
    BY <1>1, <1>2, <1>3, <1>4, KeepsUntracked DEF Settles
<1>7. /\ Cardinality(OrphanDrives) <= faults /\ Cardinality(OrphanCharges) <= faults
      /\ faults' \in Nat /\ faults' >= faults /\ ((d \/ c) => faults' >= faults + 1)
    BY <1>1 DEF OrphansBounded, Settles
<1>8. Cardinality(OrphanDrives') <= faults'
    <2>1. CASE d BY <1>1, <1>5, <1>7, <2>1
    <2>2. CASE ~d BY <1>1, <1>5, <1>7, <2>2
    <2>. QED BY <2>1, <2>2
<1>9. Cardinality(OrphanCharges') <= faults'
    <2>1. CASE c BY <1>1, <1>6, <1>7, <2>1
    <2>2. CASE ~c BY <1>1, <1>6, <1>7, <2>2
    <2>. QED BY <2>1, <2>2
<1>. QED BY <1>8, <1>9 DEF OrphansBounded
-----------------------------------------------------------------------------
(* One lemma per action: the types of what it changes, and how it settles. *)

\* The part of the types that no step of the tables disturbs.
Rest == /\ gear \in Gears /\ charged \in BOOLEAN
        /\ pc \in [Handlers -> {"idle", "drives", "charges"}]
        /\ msg \in [Handlers -> Payload] /\ lag \in [Handlers -> 0 .. MaxLag]
        /\ phase \in {"down", "recovered", "validated", "completed", "up"}
Typed == drive \in DriveSession /\ charging \in ChargeSession /\ Rest

LEMMA TypeParts == TypeOK <=> /\ drives \in Rows(Drives) /\ charges \in Rows(Charges)
                              /\ Typed /\ faults \in 0 .. MaxFaults
BY DEF TypeOK, Typed, Rest

LEMMA Empty == NoPayload \in Payload
BY DEF NoPayload, Payload, Gears, Speeds, ChargeStates

LEMMA ReceiveStep ==
    ASSUME Live, NEW h \in Handlers, NEW m \in Kinds, NEW l \in 0 .. MaxLag, Receive(h, m, l)
    PROVE  Typed' /\ Clean' /\ Settles(FALSE, FALSE)
<1>1. TypeOK /\ m \in Payload BY SessionAssumption DEF Live
<1>2. UNCHANGED <<drives, charges, drive, charging, phase, faults>> BY DEF Receive, tables, sessions
<1>3. gear' \in Gears /\ charged' \in BOOLEAN
    BY <1>1 DEF Receive, TypeOK, Payload
<1>4. /\ pc' \in [Handlers -> {"idle", "drives", "charges"}]
      /\ msg' \in [Handlers -> Payload] /\ lag' \in [Handlers -> 0 .. MaxLag]
    BY <1>1 DEF Receive, TypeOK, delivery
<1>5. Typed' BY <1>1, <1>2, <1>3, <1>4 DEF Typed, Rest, TypeOK
<1>6. Clean' BY <1>2 DEF Live, Clean
<1>7. Settles(FALSE, FALSE)
    <2>1. Keeps(Drives, drives, drives', drive, drive', FALSE)
          /\ Keeps(Charges, charges, charges', charging, charging', FALSE)
        BY <1>2, StaysStep
    <2>2. faults' \in 0 .. MaxFaults /\ faults' >= faults BY <1>1, <1>2, Caps DEF TypeOK
    <2>. QED BY <2>1, <2>2 DEF Settles
<1>. QED BY <1>5, <1>6, <1>7

LEMMA TrackedTypes ==
    ASSUME Live, NEW h \in Handlers, Tracked(h)
    PROVE  /\ gear' \in Gears /\ charged' \in BOOLEAN /\ UNCHANGED phase
           /\ pc' \in [Handlers -> {"idle", "drives", "charges"}]
           /\ msg' \in [Handlers -> Payload] /\ lag' \in [Handlers -> 0 .. MaxLag]
           /\ phase \in {"down", "recovered", "validated", "completed", "up"}
<1>1. TypeOK BY DEF Live
<1>2. UNCHANGED <<gear, charged, phase>> BY DEF Tracked, live
<1>3. pc' \in [Handlers -> {"idle", "drives", "charges"}] BY <1>1 DEF Tracked, TypeOK
<1>4. msg[h] \in Payload BY <1>1 DEF TypeOK
<1>5. [NoPayload EXCEPT !.charge = msg[h].charge] \in Payload
    BY <1>4, Empty DEF NoPayload, Payload
<1>6. msg' \in [Handlers -> Payload] BY <1>1, <1>5 DEF Tracked, TypeOK
<1>7. 0 \in 0 .. MaxLag BY Caps
<1>8. lag' \in [Handlers -> 0 .. MaxLag] BY <1>1, <1>7 DEF Tracked, TypeOK
<1>. QED BY <1>1, <1>2, <1>3, <1>6, <1>8 DEF TypeOK

LEMMA DoneTypes ==
    ASSUME Live, NEW h \in Handlers, Done(h)
    PROVE  /\ gear' \in Gears /\ charged' \in BOOLEAN /\ UNCHANGED phase
           /\ pc' \in [Handlers -> {"idle", "drives", "charges"}]
           /\ msg' \in [Handlers -> Payload] /\ lag' \in [Handlers -> 0 .. MaxLag]
           /\ phase \in {"down", "recovered", "validated", "completed", "up"}
           /\ UNCHANGED <<drives, drive>>
<1>1. TypeOK BY DEF Live
<1>2. UNCHANGED <<gear, charged, phase, drives, drive>> BY DEF Done, live
<1>3. pc' \in [Handlers -> {"idle", "drives", "charges"}] BY <1>1 DEF Done, TypeOK
<1>6. msg' \in [Handlers -> Payload] BY <1>1, Empty DEF Done, TypeOK
<1>7. 0 \in 0 .. MaxLag BY Caps
<1>8. lag' \in [Handlers -> 0 .. MaxLag] BY <1>1, <1>7 DEF Done, TypeOK
<1>. QED BY <1>1, <1>2, <1>3, <1>6, <1>8 DEF TypeOK

LEMMA EndDriveStep ==
    ASSUME Live, NEW h \in Handlers, EndDrive(h)
    PROVE  Typed' /\ Clean' /\ \E d \in BOOLEAN : Settles(d, FALSE)
<1>1. TypeOK /\ drive.id # None /\ UNCHANGED <<charges, charging>> BY DEF Live, EndDrive, EndsDrive
<1>2. PICK bad \in SUBSET {"drive"} : Failing(bad, {"drive"}) /\ CompleteDrive(lag[h], bad)
    BY DEF EndDrive
<1>3. bad \in SUBSET Statements /\ faults \in 0 .. MaxFaults BY <1>1 DEF Statements, TypeOK
<1>4. lag[h] \in 0 .. LogCap BY <1>1, Caps DEF TypeOK
<1>5. drive' = NoDrive /\ Keeps(Drives, drives, drives', drive, drive', "drive" \in bad)
    BY <1>1, <1>2, <1>4, CompleteDriveStep
<1>6. Keeps(Charges, charges, charges', charging, charging', FALSE) BY <1>1, StaysStep
<1>7. faults' \in 0 .. MaxFaults /\ faults' >= faults /\ (("drive" \in bad) => faults' >= faults + 1)
    BY <1>2, <1>3, Fails
<1>8. Settles("drive" \in bad, FALSE) BY <1>5, <1>6, <1>7 DEF Settles
<1>9. Typed' BY <1>1, <1>5, NoSessions, TrackedTypes DEF EndDrive, Typed, Rest, TypeOK
<1>10. Clean' BY <1>1, <1>5, NoSessions, TrackedTypes DEF EndDrive, Clean, Live
<1>11. ("drive" \in bad) \in BOOLEAN OBVIOUS
<1>. QED BY <1>8, <1>9, <1>10, <1>11

LEMMA HearDriveStep ==
    ASSUME Live, NEW h \in Handlers, HearDrive(h)
    PROVE  Typed' /\ Clean' /\ Settles(FALSE, FALSE)
<1>1. TypeOK /\ UNCHANGED <<drives, charges, charging, faults>> BY DEF Live, HearDrive, tables
<1>2. drive' \in DriveSession /\ drive'.id = drive.id /\ drive'.start = drive.start
    <2>1. CASE drive.id = None BY <1>1, <2>1 DEF HearDrive, TypeOK
    <2>2. CASE drive.id # None
        <3>1. drive \in DriveSession /\ 0 \in 0 .. SeenCap /\ 0 \in Unset .. ZeroCap /\ Unset \in Unset .. ZeroCap
            BY <1>1, Caps DEF TypeOK
        <3>2. PICK z \in Unset .. ZeroCap : drive' = [drive EXCEPT !.seen = 0, !.zero = z]
            <4> DEFINE z == CASE Driving(msg[h]) \/ msg[h].speed = "moving" -> Unset
                              [] ~Driving(msg[h]) /\ msg[h].speed = "zero" ->
                                    IF drive.zero = Unset \/ drive.zero > ZeroTimeout THEN 0 ELSE drive.zero
                              [] OTHER -> drive.zero
            <4>1. z \in Unset .. ZeroCap BY <3>1 DEF DriveSession
            <4>2. drive' = [drive EXCEPT !.seen = 0, !.zero = z] BY <2>2 DEF HearDrive
            <4>. QED BY <4>1, <4>2
        <3>. QED BY <3>1, <3>2 DEF DriveSession
    <2>. QED BY <2>1, <2>2
<1>3. Keeps(Drives, drives, drives', drive, drive', FALSE)
    <2>1. Closes(Drives, drives, drives') BY <1>1, EndedCloses DEF TypeOK
    <2>. QED BY <1>2, <2>1 DEF Keeps
<1>4. Settles(FALSE, FALSE)
    <2>1. Keeps(Charges, charges, charges', charging, charging', FALSE) BY <1>1, StaysStep
    <2>2. faults' \in 0 .. MaxFaults /\ faults' >= faults BY <1>1, Caps DEF TypeOK
    <2>. QED BY <1>3, <2>1, <2>2 DEF Settles
<1>5. Typed' BY <1>1, <1>2, TrackedTypes DEF HearDrive, Typed, Rest, TypeOK
<1>6. Clean' BY <1>1, <1>2, TrackedTypes DEF HearDrive, Clean, Live
<1>. QED BY <1>4, <1>5, <1>6

LEMMA EndChargeStep ==
    ASSUME Live, NEW h \in Handlers, EndCharge(h)
    PROVE  Typed' /\ Clean' /\ \E c \in BOOLEAN : Settles(FALSE, c)
<1>1. TypeOK /\ charging.id # None BY DEF Live, EndCharge
<1>2. PICK bad \in SUBSET {"charge"} : Failing(bad, {"charge"}) /\ CompleteCharge(lag[h], bad)
    BY DEF EndCharge
<1>3. bad \in SUBSET Statements /\ faults \in 0 .. MaxFaults BY <1>1 DEF Statements, TypeOK
<1>4. lag[h] \in 0 .. LogCap BY <1>1, Caps DEF TypeOK
<1>5. charging' = NoCharge /\ Keeps(Charges, charges, charges', charging, charging', "charge" \in bad)
    BY <1>1, <1>2, <1>4, CompleteChargeStep
<1>6. UNCHANGED <<drives, drive>> BY DoneTypes DEF EndCharge
<1>7. Keeps(Drives, drives, drives', drive, drive', FALSE) BY <1>6, StaysStep
<1>8. faults' \in 0 .. MaxFaults /\ faults' >= faults /\ (("charge" \in bad) => faults' >= faults + 1)
    BY <1>2, <1>3, Fails
<1>9. Settles(FALSE, "charge" \in bad) BY <1>5, <1>7, <1>8 DEF Settles
<1>10. Typed' BY <1>1, <1>5, <1>6, NoSessions, DoneTypes DEF EndCharge, Typed, Rest, TypeOK
<1>11. Clean' BY <1>5, <1>6, NoSessions, DoneTypes DEF EndCharge, Clean, Live
<1>12. ("charge" \in bad) \in BOOLEAN OBVIOUS
<1>. QED BY <1>9, <1>10, <1>11, <1>12

LEMMA HearChargeStep ==
    ASSUME Live, NEW h \in Handlers, HearCharge(h)
    PROVE  Typed' /\ Clean' /\ Settles(FALSE, FALSE)
<1>1. TypeOK /\ UNCHANGED <<drives, drive, charges, faults>>
    BY DoneTypes DEF Live, HearCharge
<1>2. charging' \in ChargeSession /\ charging'.id = charging.id /\ charging'.start = charging.start
    BY <1>1, Caps DEF HearCharge, TypeOK, ChargeSession
<1>3. Keeps(Charges, charges, charges', charging, charging', FALSE)
    <2>1. Closes(Charges, charges, charges') BY <1>1, EndedCloses DEF TypeOK
    <2>. QED BY <1>2, <2>1 DEF Keeps
<1>4. Settles(FALSE, FALSE)
    <2>1. Keeps(Drives, drives, drives', drive, drive', FALSE) BY <1>1, StaysStep
    <2>2. faults' \in 0 .. MaxFaults /\ faults' >= faults BY <1>1, Caps DEF TypeOK
    <2>. QED BY <1>3, <2>1, <2>2 DEF Settles
<1>5. Typed' BY <1>1, <1>2, DoneTypes DEF HearCharge, Typed, Rest, TypeOK
<1>6. Clean' BY <1>1, <1>2, DoneTypes DEF HearCharge, Clean, Live
<1>. QED BY <1>4, <1>5, <1>6

\* Ending a row of a table and then sweeping the table only ends rows.
LEMMA ClosesTwice ==
    ASSUME NEW ids, NEW rows, NEW rows1, NEW rows2, Closes(ids, rows, rows1), Closes(ids, rows1, rows2)
    PROVE  Closes(ids, rows, rows2)
BY DEF Closes

LEMMA SweepStep ==
    ASSUME Live, NEW limit, NEW bad \in SUBSET {"drive", "charge", "orphanDrives", "orphanCharges"},
           Sweep(limit, bad), phase # "down", phase' \in {"completed", "up"}
    PROVE  Typed' /\ Clean' /\ Settles("drive" \in bad, "charge" \in bad)
<1> DEFINE drives1  == IF Idle(drive, limit) /\ "drive" \notin bad THEN Ended(drives, drive.id, 0) ELSE drives
           charges1 == IF Idle(charging, limit) /\ "charge" \notin bad
                       THEN Ended(charges, charging.id, 0) ELSE charges
<1>1. TypeOK /\ drives \in Rows(Drives) /\ charges \in Rows(Charges) /\ 0 \in 0 .. LogCap
    BY Caps DEF Live, TypeOK
<1>2. /\ Idle(drive, limit) => drive.id \in Drives /\ drive.id # None /\ drives[drive.id].state # "none"
      /\ Idle(charging, limit) => charging.id \in Charges /\ charging.id # None
                                  /\ charges[charging.id].state # "none"
    BY <1>1 DEF Live, TypeOK, Idle, CanonicalStart, DriveSession, ChargeSession
<1>3. Closes(Drives, drives, drives1) /\ Closes(Charges, charges, charges1)
    BY <1>1, <1>2, EndedCloses
<1>4. /\ (Idle(drive, limit) /\ "drive" \notin bad) => ~IsOpen(drives1, drive.id)
      /\ (Idle(charging, limit) /\ "charge" \notin bad) => ~IsOpen(charges1, charging.id)
    <2>1. ASSUME Idle(drive, limit), "drive" \notin bad PROVE ~IsOpen(drives1, drive.id)
        <3>1. drives1[drive.id] = [state |-> "ended", start |-> drives[drive.id].start, end |-> 0]
            BY <1>1, <1>2, <2>1, EndedRows
        <3>. QED BY <3>1 DEF IsOpen
    <2>2. ASSUME Idle(charging, limit), "charge" \notin bad PROVE ~IsOpen(charges1, charging.id)
        <3>1. charges1[charging.id] = [state |-> "ended", start |-> charges[charging.id].start, end |-> 0]
            BY <1>1, <1>2, <2>2, EndedRows
        <3>. QED BY <3>1 DEF IsOpen
    <2>. QED BY <2>1, <2>2
<1>5. /\ drives'  = IF "orphanDrives" \in bad THEN drives1 ELSE SweptRows(drives1, limit)
      /\ charges' = IF "orphanCharges" \in bad THEN charges1 ELSE SweptRows(charges1, limit)
      /\ drive'    = IF Idle(drive, limit) THEN NoDrive ELSE drive
      /\ charging' = IF Idle(charging, limit) THEN NoCharge ELSE charging
      /\ UNCHANGED <<gear, charged, pc, msg, lag>>
    BY DEF Sweep, live, delivery
<1>6. /\ Failing(bad, (IF Idle(drive, limit) THEN {"drive"} ELSE {})
                      \cup (IF Idle(charging, limit) THEN {"charge"} ELSE {})
                      \cup {"orphanDrives", "orphanCharges"})
      /\ bad \in SUBSET Statements
    BY DEF Sweep, Statements
<1> HIDE DEF drives1, charges1
<1>7. drives1 \in Rows(Drives) /\ charges1 \in Rows(Charges) BY <1>3 DEF Closes
<1>8. Closes(Drives, drives1, drives') /\ Closes(Charges, charges1, charges')
    <2>1. Closes(Drives, drives1, drives1) /\ Closes(Charges, charges1, charges1) BY <1>7, EndedCloses
    <2>2. Closes(Drives, drives1, SweptRows(drives1, limit))
          /\ Closes(Charges, charges1, SweptRows(charges1, limit))
        BY <1>7, SweptCloses
    <2>. QED BY <1>5, <2>1, <2>2
<1>9. Closes(Drives, drives, drives') /\ Closes(Charges, charges, charges')
    BY <1>3, <1>8, ClosesTwice
<1>10. /\ (Idle(drive, limit) /\ "drive" \notin bad) => ~IsOpen(drives', drive.id)
       /\ (Idle(charging, limit) /\ "charge" \notin bad) => ~IsOpen(charges', charging.id)
    BY <1>2, <1>4, <1>8 DEF Closes, IsOpen
<1>11. Keeps(Drives, drives, drives', drive, drive', "drive" \in bad)
    <2>1. CASE Idle(drive, limit) BY <1>2, <1>5, <1>9, <1>10, <2>1, NoSessions DEF Keeps
    <2>2. CASE ~Idle(drive, limit) BY <1>5, <1>9, <2>2 DEF Keeps
    <2>. QED BY <2>1, <2>2
<1>12. Keeps(Charges, charges, charges', charging, charging', "charge" \in bad)
    <2>1. CASE Idle(charging, limit) BY <1>2, <1>5, <1>9, <1>10, <2>1, NoSessions DEF Keeps
    <2>2. CASE ~Idle(charging, limit) BY <1>5, <1>9, <2>2 DEF Keeps
    <2>. QED BY <2>1, <2>2
<1>13. /\ faults' \in 0 .. MaxFaults /\ faults' >= faults
       /\ (("drive" \in bad) \/ ("charge" \in bad)) => faults' >= faults + 1
    BY <1>1, <1>6, Fails DEF TypeOK
<1>14. Settles("drive" \in bad, "charge" \in bad) BY <1>11, <1>12, <1>13 DEF Settles
<1>15. drive' \in DriveSession /\ charging' \in ChargeSession BY <1>1, <1>5, NoSessions DEF TypeOK
<1>16. Typed' BY <1>1, <1>5, <1>15 DEF Typed, Rest, TypeOK
<1>17. Clean' BY DEF Clean
<1>. QED BY <1>14, <1>16, <1>17

LEMMA CleanupStep == ASSUME Live, Cleanup \/ StartCleanup
                     PROVE  Typed' /\ Clean' /\ \E d, c \in BOOLEAN : Settles(d, c)
<1>1. CASE Cleanup
    <2>1. PICK bad \in SUBSET {"drive", "charge", "orphanDrives", "orphanCharges"} : Sweep(Stale, bad)
        BY <1>1 DEF Cleanup
    <2>2. phase # "down" /\ phase' \in {"completed", "up"} BY <1>1 DEF Cleanup
    <2>3. Typed' /\ Clean' /\ Settles("drive" \in bad, "charge" \in bad) BY <2>1, <2>2, SweepStep
    <2>4. ("drive" \in bad) \in BOOLEAN /\ ("charge" \in bad) \in BOOLEAN OBVIOUS
    <2>. QED BY <2>3, <2>4
<1>2. CASE StartCleanup
    <2>1. PICK bad \in SUBSET {"drive", "charge", "orphanDrives", "orphanCharges"} : Sweep(2 * Stale, bad)
        BY <1>2 DEF StartCleanup
    <2>2. phase # "down" /\ phase' \in {"completed", "up"} BY <1>2 DEF StartCleanup
    <2>3. Typed' /\ Clean' /\ Settles("drive" \in bad, "charge" \in bad) BY <2>1, <2>2, SweepStep
    <2>4. ("drive" \in bad) \in BOOLEAN /\ ("charge" \in bad) \in BOOLEAN OBVIOUS
    <2>. QED BY <2>3, <2>4
<1>. QED BY <1>1, <1>2

LEMMA RecoverSessionsStep ==
    ASSUME Live, RecoverSessions
    PROVE  Typed' /\ Clean' /\ Settles(FALSE, FALSE)
<1>1. /\ TypeOK /\ drive.id = None /\ charging.id = None
      /\ UNCHANGED <<drives, charges, gear, charged, pc, msg, lag>> /\ phase' = "recovered"
    BY DEF Live, Clean, RecoverSessions, tables, live, delivery
<1>2. PICK bad \in SUBSET {"drives", "charges"} :
        /\ Failing(bad, {"drives", "charges"})
        /\ \/ UNCHANGED drive
           \/ \E d \in Newest(drives, StaleRows(drives, DriveHorizon)) :
                drive' = [NoDrive EXCEPT !.id = d, !.start = drives[d].start]
        /\ \/ UNCHANGED charging
           \/ \E c \in Newest(charges, StaleRows(charges, ChargeHorizon)) :
                charging' = [NoCharge EXCEPT !.id = c, !.start = charges[c].start]
    BY DEF RecoverSessions
<1>3. /\ drive' \in DriveSession
      /\ Keeps(Drives, drives, drives', drive, drive', FALSE)
    <2>1. CASE UNCHANGED drive BY <1>1, <2>1, StaysStep DEF TypeOK
    <2>2. CASE ~UNCHANGED drive
        <3>1. PICK d \in Newest(drives, StaleRows(drives, DriveHorizon)) :
                drive' = [NoDrive EXCEPT !.id = d, !.start = drives[d].start]
            BY <1>2, <2>2
        <3>2. d \in Drives /\ IsOpen(drives, d) /\ drives[d] \in Row
            BY <1>1, <3>1 DEF Newest, StaleRows, TypeOK, Rows
        <3>3. drive' = [id |-> d, start |-> drives[d].start, seen |-> 0, zero |-> Unset]
            BY <3>1 DEF NoDrive
        <3>4. Closes(Drives, drives, drives') BY <1>1, EndedCloses DEF TypeOK
        <3>. QED BY <1>1, <3>2, <3>3, <3>4, Caps DEF Keeps, DriveSession, Row
    <2>. QED BY <2>1, <2>2
<1>4. /\ charging' \in ChargeSession
      /\ Keeps(Charges, charges, charges', charging, charging', FALSE)
    <2>1. CASE UNCHANGED charging BY <1>1, <2>1, StaysStep DEF TypeOK
    <2>2. CASE ~UNCHANGED charging
        <3>1. PICK c \in Newest(charges, StaleRows(charges, ChargeHorizon)) :
                charging' = [NoCharge EXCEPT !.id = c, !.start = charges[c].start]
            BY <1>2, <2>2
        <3>2. c \in Charges /\ IsOpen(charges, c) /\ charges[c] \in Row
            BY <1>1, <3>1 DEF Newest, StaleRows, TypeOK, Rows
        <3>3. charging' = [id |-> c, start |-> charges[c].start, seen |-> 0]
            BY <3>1 DEF NoCharge
        <3>4. Closes(Charges, charges, charges') BY <1>1, EndedCloses DEF TypeOK
        <3>. QED BY <1>1, <3>2, <3>3, <3>4, Caps DEF Keeps, ChargeSession, Row
    <2>. QED BY <2>1, <2>2
<1>5. faults' \in 0 .. MaxFaults /\ faults' >= faults
    <2>1. bad \in SUBSET Statements /\ Failing(bad, {"drives", "charges"}) BY <1>2 DEF Statements
    <2>. QED BY <1>1, <2>1, Fails DEF TypeOK
<1>6. Settles(FALSE, FALSE) BY <1>3, <1>4, <1>5 DEF Settles
<1>7. Typed' BY <1>1, <1>3, <1>4 DEF Typed, Rest, TypeOK
<1>8. Clean' BY <1>1 DEF Clean
<1>. QED BY <1>6, <1>7, <1>8

LEMMA ValidateStep ==
    ASSUME Live, ValidateRecoveredSessions
    PROVE  Typed' /\ Clean' /\ \E d, c \in BOOLEAN : Settles(d, c)
<1> DEFINE endDrive  == drive.id # None /\ (drive.start > DriveLimit \/ gear = "P")
           endCharge == charging.id # None /\ (charging.start > ChargeLimit \/ charged)
<1>1. /\ TypeOK /\ 0 \in 0 .. LogCap /\ UNCHANGED <<gear, charged, pc, msg, lag>>
      /\ phase' = "validated"
    BY Caps DEF Live, ValidateRecoveredSessions, live, delivery
<1>2. PICK bad \in SUBSET {"drive", "charge"} :
        /\ Failing(bad, (IF endDrive THEN {"drive"} ELSE {}) \cup (IF endCharge THEN {"charge"} ELSE {}))
        /\ IF endDrive THEN CompleteDrive(0, bad) ELSE UNCHANGED <<drives, drive>>
        /\ IF endCharge THEN CompleteCharge(0, bad) ELSE UNCHANGED <<charges, charging>>
    BY DEF ValidateRecoveredSessions
<1>3. bad \in SUBSET Statements BY DEF Statements
<1>4. /\ drive' \in DriveSession
      /\ Keeps(Drives, drives, drives', drive, drive', "drive" \in bad)
    <2>1. CASE endDrive BY <1>1, <1>2, <2>1, CompleteDriveStep, NoSessions
    <2>2. CASE ~endDrive
        <3>1. UNCHANGED <<drives, drive>> BY <1>2, <2>2
        <3>2. Closes(Drives, drives, drives') BY <1>1, <3>1, EndedCloses DEF TypeOK
        <3>. QED BY <1>1, <3>1, <3>2 DEF Keeps, TypeOK
    <2>. QED BY <2>1, <2>2
<1>5. /\ charging' \in ChargeSession
      /\ Keeps(Charges, charges, charges', charging, charging', "charge" \in bad)
    <2>1. CASE endCharge BY <1>1, <1>2, <2>1, CompleteChargeStep, NoSessions
    <2>2. CASE ~endCharge
        <3>1. UNCHANGED <<charges, charging>> BY <1>2, <2>2
        <3>2. Closes(Charges, charges, charges') BY <1>1, <3>1, EndedCloses DEF TypeOK
        <3>. QED BY <1>1, <3>1, <3>2 DEF Keeps, TypeOK
    <2>. QED BY <2>1, <2>2
<1>6. /\ faults' \in 0 .. MaxFaults /\ faults' >= faults
      /\ (("drive" \in bad) \/ ("charge" \in bad)) => faults' >= faults + 1
    BY <1>1, <1>2, <1>3, Fails DEF TypeOK
<1>7. Settles("drive" \in bad, "charge" \in bad) BY <1>4, <1>5, <1>6 DEF Settles
<1>8. Typed' BY <1>1, <1>4, <1>5 DEF Typed, Rest, TypeOK
<1>9. Clean' BY <1>1 DEF Clean
<1>10. ("drive" \in bad) \in BOOLEAN /\ ("charge" \in bad) \in BOOLEAN OBVIOUS
<1>. QED BY <1>7, <1>8, <1>9, <1>10

LEMMA RecoverIncompleteStep ==
    ASSUME Live, RecoverIncompleteSessions
    PROVE  Typed' /\ Clean' /\ Settles(FALSE, FALSE)
<1>1. /\ TypeOK /\ UNCHANGED <<drive, charging, gear, charged, pc, msg, lag>> /\ phase' = "completed"
    BY DEF Live, RecoverIncompleteSessions, sessions, live, delivery
<1>2. PICK bad \in SUBSET {"drives", "charges"}, lastLog \in Unset .. LogCap,
          skipDrives \in SUBSET {d \in Drives : IsOpen(drives, d)},
          skipCharges \in SUBSET {c \in Charges : IsOpen(charges, c)} :
        /\ faults' = faults + Cardinality(bad) + Cardinality(skipDrives) + Cardinality(skipCharges)
        /\ faults' <= MaxFaults
        /\ drives'  = IF "drives" \in bad THEN drives ELSE Recovered(drives, drive, lastLog, skipDrives)
        /\ charges' = IF "charges" \in bad THEN charges ELSE Recovered(charges, charging, lastLog, skipCharges)
    BY DEF RecoverIncompleteSessions
<1>3. Closes(Drives, drives, drives') BY <1>1, <1>2, EndedCloses, RecoveredCloses DEF TypeOK
<1>4. Closes(Charges, charges, charges') BY <1>1, <1>2, EndedCloses, RecoveredCloses DEF TypeOK
<1>5. faults' \in 0 .. MaxFaults /\ faults' >= faults
    <2>1. bad \in SUBSET Statements BY DEF Statements
    <2>2. IsFiniteSet(skipDrives) /\ IsFiniteSet(skipCharges) BY SessionAssumption, FS_Subset
    <2>3. Cardinality(bad) \in Nat /\ Cardinality(skipDrives) \in Nat /\ Cardinality(skipCharges) \in Nat
        BY <2>1, <2>2, Counts, FS_CardinalityType
    <2>. QED BY <1>1, <1>2, <2>3, Caps DEF TypeOK
<1>6. Settles(FALSE, FALSE) BY <1>1, <1>3, <1>4, <1>5 DEF Settles, Keeps
<1>7. Typed' BY <1>1 DEF Typed, Rest, TypeOK
<1>8. Clean' BY <1>1 DEF Clean
<1>. QED BY <1>6, <1>7, <1>8

LEMMA CrashStep ==
    ASSUME Live, Crash
    PROVE  Typed' /\ Clean' /\ Settles(TRUE, TRUE)
<1>1. /\ TypeOK /\ UNCHANGED <<drives, charges, gear, charged>> /\ phase' = "down"
      /\ drive' = NoDrive /\ charging' = NoCharge /\ 0 \in 0 .. MaxLag
      /\ pc' = [h \in Handlers |-> "idle"]
      /\ msg' = [h \in Handlers |-> NoPayload] /\ lag' = [h \in Handlers |-> 0]
    BY Caps DEF Live, Crash, tables, live
<1>2. Closes(Drives, drives, drives') /\ Closes(Charges, charges, charges')
    BY <1>1, EndedCloses DEF TypeOK
<1>3. /\ drive'.id = None /\ drive'.start = 0 /\ charging'.id = None /\ charging'.start = 0
      /\ drive' \in DriveSession /\ charging' \in ChargeSession
    BY <1>1, NoSessions DEF NoDrive, NoCharge
<1>4. Keeps(Drives, drives, drives', drive, drive', TRUE)
    <2>1. CASE drive.id # None BY <1>2, <1>3, <2>1 DEF Keeps
    <2>2. CASE drive.id = None BY <1>2, <1>3, <2>2 DEF Keeps
    <2>. QED BY <2>1, <2>2
<1>5. Keeps(Charges, charges, charges', charging, charging', TRUE)
    <2>1. CASE charging.id # None BY <1>2, <1>3, <2>1 DEF Keeps
    <2>2. CASE charging.id = None BY <1>2, <1>3, <2>2 DEF Keeps
    <2>. QED BY <2>1, <2>2
<1>6. faults' \in 0 .. MaxFaults /\ faults' >= faults + 1 /\ faults' >= faults
    <2>1. {"crash"} \in SUBSET Statements /\ Failing({"crash"}, {"crash"}) BY DEF Statements, Crash
    <2>. QED BY <1>1, <2>1, Fails DEF TypeOK
<1>7. Settles(TRUE, TRUE) BY <1>4, <1>5, <1>6 DEF Settles
<1>8. Typed' BY <1>1, <1>3, Empty DEF Typed, Rest, TypeOK
<1>9. Clean' BY <1>3 DEF Clean
<1>. QED BY <1>7, <1>8, <1>9
-----------------------------------------------------------------------------
(* The starts of sessions. *)

\* A start that finds no drive tracked, on the table rows (after a merge that failed
\* half-way, or as it was).
LEMMA CreateDriveStep ==
    ASSUME Live, drive.id = None, NEW rows \in Rows(Drives), NEW l \in 0 .. MaxLag, NEW bad,
           \A d \in FreeDrives : rows[d].state # "open", CreateDrive(rows, l, bad)
    PROVE  /\ drives' \in Rows(Drives) /\ drive' \in DriveSession /\ StartsAgree(drives', drive')
           /\ \/ OrphanDrives' \subseteq Untracked(Drives, rows, None)
              \/ "createReply" \in bad
                 /\ \E x : OrphanDrives' \subseteq Untracked(Drives, rows, None) \cup {x}
<1>1. TypeOK /\ None \notin Drives BY SessionAssumption DEF Live
<1>2. OrphanDrives' = Untracked(Drives, drives', drive'.id)
    BY DEF OrphanDrives, Untracked, IsOpen
<1>3. CASE "create" \in bad
    <2>1. drives' = rows /\ drive' = drive BY <1>3 DEF CreateDrive
    <2>. QED BY <1>1, <1>2, <2>1 DEF StartsAgree, TypeOK
<1>4. CASE "create" \notin bad
    <2>1. PICK d \in FreeDrives : /\ drives' = Opened(rows, d, l)
                                  /\ IF "createReply" \in bad THEN UNCHANGED drive
                                     ELSE drive' = TrackedDrive(d, l)
        BY <1>4 DEF CreateDrive
    <2>2. d \in Drives /\ l \in 0 .. StartCap BY <2>1, Caps DEF FreeDrives
    <2> DEFINE O == Opened(rows, d, l)
    <2>3. /\ O \in Rows(Drives) /\ O[d] = [state |-> "open", start |-> l, end |-> 0]
          /\ \A q \in Drives : q # d => O[q] = rows[q]
        BY <2>2, OpenedRows
    <2>4. drives' = O BY <2>1
    <2> HIDE DEF O
    <2>5. /\ drives' \in Rows(Drives) /\ drives'[d] = [state |-> "open", start |-> l, end |-> 0]
          /\ \A q \in Drives : q # d => drives'[q] = rows[q]
        BY <2>3, <2>4
    <2>6. \A r \in Drives : IsOpen(drives', r) => IsOpen(rows, r) \/ r = d BY <2>5 DEF IsOpen
    <2>7. CASE "createReply" \in bad
        <3>1. drive' = drive BY <2>1, <2>7
        <3>2. OrphanDrives' \subseteq Untracked(Drives, rows, None) \cup {d}
            BY <1>1, <1>2, <2>6 DEF Untracked
        <3>. QED BY <1>1, <2>5, <2>7, <3>1, <3>2 DEF StartsAgree, TypeOK
    <2>8. CASE "createReply" \notin bad
        <3>1. drive' = [id |-> d, start |-> l, seen |-> 0, zero |-> Unset]
            BY <2>1, <2>8 DEF TrackedDrive
        <3>2. drive' \in DriveSession BY <2>2, <3>1, Caps DEF DriveSession
        <3>3. StartsAgree(drives', drive') BY <2>5, <3>1 DEF StartsAgree
        <3>4. OrphanDrives' \subseteq Untracked(Drives, rows, None)
            BY <1>1, <1>2, <2>6, <3>1 DEF Untracked
        <3>. QED BY <2>5, <3>2, <3>3, <3>4
    <2>. QED BY <2>7, <2>8
<1>. QED BY <1>3, <1>4

\* What a drive's start does to the drives: a row for each failure may be lost.
LEMMA StartDriveDrives ==
    ASSUME Live, drive.id = None, NEW l \in 0 .. MaxLag, NEW bad \in SUBSET Statements,
           IF Recent(l) = {} \/ "lookup" \in bad
           THEN "resumeReply" \notin bad /\ CreateDrive(drives, l, bad)
           ELSE \E d \in Recent(l) :
                IF "resumeReply" \in bad
                THEN CreateDrive(Reopened(drives, d), l, bad)
                ELSE ResumeDrive(d) /\ bad \cap {"create", "createReply"} = {}
    PROVE  /\ drives' \in Rows(Drives) /\ drive' \in DriveSession /\ StartsAgree(drives', drive')
           /\ Cardinality(OrphanDrives) \in Nat /\ Cardinality(OrphanDrives') \in Nat
           /\ Cardinality(OrphanDrives') <= Cardinality(OrphanDrives) + Cardinality(bad)
<1>1. TypeOK /\ drives \in Rows(Drives) /\ None \notin Drives /\ IsFiniteSet(Drives)
    BY SessionAssumption DEF Live, TypeOK
<1>2. OrphanDrives = Untracked(Drives, drives, None) BY <1>1 DEF OrphanDrives, Untracked
<1>3. IsFiniteSet(OrphanDrives) /\ IsFiniteSet(OrphanDrives') /\ Cardinality(OrphanDrives) \in Nat
      /\ Cardinality(OrphanDrives') \in Nat
    <2>1. OrphanDrives \subseteq Drives /\ OrphanDrives' \subseteq Drives BY DEF OrphanDrives
    <2>. QED BY <1>1, <2>1, FS_Subset, FS_CardinalityType
<1>4. Cardinality(bad) \in Nat /\ (\A x \in bad : Cardinality(bad) >= 1)
      /\ (\A x, y \in bad : x # y => Cardinality(bad) >= 2)
    BY Counts
<1>5. CASE Recent(l) = {} \/ "lookup" \in bad
    <2>1. CreateDrive(drives, l, bad) BY <1>5
    <2>2. \A d \in FreeDrives : drives[d].state # "open" BY DEF FreeDrives
    <2>3. /\ drives' \in Rows(Drives) /\ drive' \in DriveSession /\ StartsAgree(drives', drive')
          /\ \/ OrphanDrives' \subseteq OrphanDrives
             \/ "createReply" \in bad /\ \E x : OrphanDrives' \subseteq OrphanDrives \cup {x}
        BY <1>1, <1>2, <2>1, <2>2, CreateDriveStep
    <2>4. CASE OrphanDrives' \subseteq OrphanDrives BY <1>3, <1>4, <2>3, <2>4, Shrinks
    <2>5. CASE "createReply" \in bad /\ \E x : OrphanDrives' \subseteq OrphanDrives \cup {x}
        <3>1. Cardinality(OrphanDrives') <= Cardinality(OrphanDrives) + 1 BY <1>3, <2>5, Grows
        <3>2. Cardinality(bad) >= 1 BY <1>4, <2>5
        <3>. QED BY <1>3, <1>4, <2>3, <3>1, <3>2
    <2>. QED BY <2>3, <2>4, <2>5
<1>6. CASE ~(Recent(l) = {} \/ "lookup" \in bad)
    <2>1. PICK d \in Recent(l) :
            IF "resumeReply" \in bad THEN CreateDrive(Reopened(drives, d), l, bad) ELSE ResumeDrive(d)
        BY <1>6
    <2>2. d \in Drives /\ drives[d].state = "ended" BY DEF Recent, Mergeable, IsEnded
    <2>3. /\ Reopened(drives, d) \in Rows(Drives)
          /\ Reopened(drives, d)[d] = [state |-> "open", start |-> drives[d].start, end |-> 0]
          /\ \A q \in Drives : q # d => Reopened(drives, d)[q] = drives[q]
        BY <1>1, <2>2, ReopenedRows
    <2> DEFINE rows == Reopened(drives, d)
    <2>4. CASE "resumeReply" \in bad
        <3>1. CreateDrive(rows, l, bad) BY <2>1, <2>4
        <3> HIDE DEF rows
        <3>2. /\ rows \in Rows(Drives) /\ \A q \in Drives : q # d => rows[q] = drives[q]
            BY <2>3 DEF rows
        <3>3. \A e \in FreeDrives : rows[e].state # "open" BY <2>2, <3>2 DEF FreeDrives
        <3>4. Untracked(Drives, rows, None) \subseteq OrphanDrives \cup {d}
            BY <1>2, <3>2 DEF Untracked, IsOpen
        <3>5. drives' \in Rows(Drives) /\ drive' \in DriveSession /\ StartsAgree(drives', drive')
            BY <3>1, <3>2, <3>3, CreateDriveStep
        <3>8. \/ OrphanDrives' \subseteq Untracked(Drives, rows, None)
              \/ "createReply" \in bad
                 /\ \E x : OrphanDrives' \subseteq Untracked(Drives, rows, None) \cup {x}
            BY <3>1, <3>2, <3>3, CreateDriveStep
        <3>6. CASE OrphanDrives' \subseteq Untracked(Drives, rows, None)
            <4>1. OrphanDrives' \subseteq OrphanDrives \cup {d} BY <3>4, <3>6
            <4>2. Cardinality(OrphanDrives') <= Cardinality(OrphanDrives) + 1 BY <1>3, <4>1, Grows
            <4>3. Cardinality(bad) >= 1 BY <1>4, <2>4
            <4>4. Cardinality(OrphanDrives') <= Cardinality(OrphanDrives) + Cardinality(bad)
                BY <1>3, <1>4, <4>2, <4>3
            <4>. QED BY <1>3, <3>5, <4>4
        <3>7. CASE "createReply" \in bad
                   /\ \E x : OrphanDrives' \subseteq Untracked(Drives, rows, None) \cup {x}
            <4>1. PICK x : OrphanDrives' \subseteq (OrphanDrives \cup {d}) \cup {x} BY <3>4, <3>7
            <4>2. /\ IsFiniteSet(OrphanDrives \cup {d})
                  /\ Cardinality(OrphanDrives \cup {d}) <= Cardinality(OrphanDrives) + 1
                  /\ Cardinality(OrphanDrives \cup {d}) \in Nat
                <5>1. IsFiniteSet(OrphanDrives \cup {d}) BY <1>3, FS_AddElement
                <5>. QED BY <1>3, <5>1, Grows
            <4>3. Cardinality(OrphanDrives') <= Cardinality(OrphanDrives \cup {d}) + 1
                BY <4>1, <4>2, Grows
            <4>4. Cardinality(bad) >= 2 BY <1>4, <2>4, <3>7
            <4>5. Cardinality(OrphanDrives') <= Cardinality(OrphanDrives) + Cardinality(bad)
                BY <1>3, <1>4, <4>2, <4>3, <4>4
            <4>. QED BY <1>3, <3>5, <4>5
        <3>. QED BY <3>6, <3>7, <3>8
    <2>5. CASE "resumeReply" \notin bad
        <3>1. drives' = rows /\ drive' = [id |-> d, start |-> drives[d].start, seen |-> 0, zero |-> Unset]
            BY <2>1, <2>5 DEF ResumeDrive, TrackedDrive
        <3>2. drives[d] \in Row BY <1>1, <2>2 DEF Rows
        <3>3. drive' \in DriveSession BY <2>2, <3>1, <3>2, Caps DEF DriveSession, Row
        <3>4. drives' \in Rows(Drives) /\ StartsAgree(drives', drive')
            BY <2>3, <3>1 DEF StartsAgree
        <3>5. OrphanDrives' \subseteq OrphanDrives
            <4>1. \A q \in Drives : q # d => drives'[q] = drives[q] BY <2>3, <3>1
            <4>2. drive'.id = d BY <3>1
            <4>3. OrphanDrives' = Untracked(Drives, drives', drive'.id)
                BY DEF OrphanDrives, Untracked, IsOpen
            <4>. QED BY <1>1, <1>2, <4>1, <4>2, <4>3 DEF Untracked, IsOpen
        <3>. QED BY <1>3, <1>4, <3>3, <3>4, <3>5, Shrinks
    <2>. QED BY <2>4, <2>5
<1>. QED BY <1>5, <1>6

\* What a step owes: the invariant again.
Owed == drives' \in Rows(Drives) /\ charges' \in Rows(Charges) /\ faults' \in 0 .. MaxFaults
        /\ Typed' /\ Clean' /\ CanonicalStart' /\ OrphansBounded'

LEMMA StartDriveStep ==
    ASSUME Live, OrphansBounded, NEW h \in Handlers, StartDrive(h)
    PROVE  Owed
<1>1. TypeOK /\ drive.id = None /\ lag[h] \in 0 .. MaxLag /\ lag[h] \in 0 .. LogCap
      /\ faults \in 0 .. MaxFaults /\ charges \in Rows(Charges) /\ charging \in ChargeSession
    BY Caps DEF Live, StartDrive, StartsDrive, TypeOK
<1>2. PICK bad \in SUBSET {"charge", "lookup", "resumeReply", "create", "createReply"} :
        /\ Failing(bad, {"lookup", "resumeReply", "create", "createReply"}
                        \cup IF charging.id # None THEN {"charge"} ELSE {})
        /\ IF charging.id # None THEN CompleteCharge(lag[h], bad) ELSE UNCHANGED <<charges, charging>>
        /\ IF Recent(lag[h]) = {} \/ "lookup" \in bad
           THEN "resumeReply" \notin bad /\ CreateDrive(drives, lag[h], bad)
           ELSE \E d \in Recent(lag[h]) :
                IF "resumeReply" \in bad
                THEN CreateDrive(Reopened(drives, d), lag[h], bad)
                ELSE ResumeDrive(d) /\ bad \cap {"create", "createReply"} = {}
    BY DEF StartDrive
<1>3. bad \in SUBSET Statements BY DEF Statements
<1>4. /\ drives' \in Rows(Drives) /\ drive' \in DriveSession /\ StartsAgree(drives', drive')
      /\ Cardinality(OrphanDrives) \in Nat /\ Cardinality(OrphanDrives') \in Nat
      /\ Cardinality(OrphanDrives') <= Cardinality(OrphanDrives) + Cardinality(bad)
    BY <1>1, <1>2, <1>3, StartDriveDrives
<1>5. /\ charging' \in ChargeSession
      /\ Keeps(Charges, charges, charges', charging, charging', "charge" \in bad)
    <2>1. CASE charging.id # None BY <1>1, <1>2, <2>1, CompleteChargeStep, NoSessions
    <2>2. CASE charging.id = None
        <3>1. UNCHANGED <<charges, charging>> BY <1>2, <2>2
        <3>2. Closes(Charges, charges, charges') BY <1>1, <3>1, EndedCloses
        <3>. QED BY <1>1, <3>1, <3>2 DEF Keeps
    <2>. QED BY <2>1, <2>2
<1>6. None \notin Charges /\ IsFiniteSet(Charges) BY SessionAssumption
<1>7. charges' \in Rows(Charges) BY <1>5 DEF Keeps, Closes
<1>8. CanonicalStart'
    <2>1. StartsAgree(charges, charging) BY StartsAgreeDef DEF Live
    <2>2. charging.id \in Charges \cup {None} BY <1>1 DEF ChargeSession
    <2>3. StartsAgree(charges', charging') BY <1>1, <1>5, <1>6, <2>1, <2>2, KeepsStarts
    <2>. QED BY <1>4, <2>3 DEF CanonicalStart, StartsAgree
<1>9. OrphansBounded'
    <2>1. /\ OrphanCharges = Untracked(Charges, charges, charging.id)
          /\ OrphanCharges' = Untracked(Charges, charges', charging'.id)
        BY DEF OrphanCharges, Untracked, IsOpen
    <2>2. /\ Cardinality(OrphanCharges) \in Nat /\ Cardinality(OrphanCharges') \in Nat
          /\ Cardinality(OrphanCharges') <= Cardinality(OrphanCharges) + 1
          /\ ("charge" \notin bad) => Cardinality(OrphanCharges') <= Cardinality(OrphanCharges)
        <3>1. PICK lost \in BOOLEAN :
                /\ lost => "charge" \in bad
                /\ Keeps(Charges, charges, charges', charging, charging', lost)
            <4>1. ("charge" \in bad) \in BOOLEAN OBVIOUS
            <4>. QED BY <1>5, <4>1
        <3>2. /\ Cardinality(OrphanCharges) \in Nat /\ Cardinality(OrphanCharges') \in Nat
              /\ Cardinality(OrphanCharges') <= Cardinality(OrphanCharges) + 1
              /\ ~lost => Cardinality(OrphanCharges') <= Cardinality(OrphanCharges)
            BY <1>1, <1>6, <2>1, <3>1, KeepsUntracked
        <3>. QED BY <3>1, <3>2
    <2>3. Cardinality(bad) \in Nat /\ (\A x \in bad : Cardinality(bad) >= 1) BY <1>3, Counts
    <2>4. faults' = faults + Cardinality(bad) BY <1>2 DEF Failing
    <2>5. Cardinality(OrphanCharges') <= Cardinality(OrphanCharges) + Cardinality(bad)
        <3>1. CASE "charge" \in bad
            <4>1. Cardinality(bad) >= 1 BY <2>3, <3>1
            <4>. QED BY <2>2, <2>3, <4>1
        <3>2. CASE "charge" \notin bad BY <2>2, <2>3, <3>2
        <3>. QED BY <3>1, <3>2
    <2>6. Cardinality(OrphanDrives) <= faults /\ Cardinality(OrphanCharges) <= faults
        BY DEF OrphansBounded
    <2>7. faults \in Nat BY <1>1
    <2>8. Cardinality(OrphanDrives') <= faults' /\ Cardinality(OrphanCharges') <= faults'
        BY <1>4, <2>2, <2>3, <2>4, <2>5, <2>6, <2>7
    <2>. QED BY <2>8 DEF OrphansBounded
<1>10. faults' \in 0 .. MaxFaults BY <1>1, <1>2, <1>3, Fails
<1>11. Typed' /\ Clean'
    <2>1. Tracked(h) /\ phase = "up" BY DEF StartDrive, Trackable
    <2>2. UNCHANGED phase BY <2>1, TrackedTypes
    <2>3. Typed' BY <1>4, <1>5, <2>1, TrackedTypes DEF Typed, Rest
    <2>4. Clean' BY <2>1, <2>2 DEF Clean
    <2>. QED BY <2>3, <2>4
<1>. QED BY <1>4, <1>7, <1>8, <1>9, <1>10, <1>11 DEF Owed

LEMMA StartChargeStep ==
    ASSUME Live, OrphansBounded, NEW h \in Handlers, StartCharge(h)
    PROVE  Owed
<1>1. /\ TypeOK /\ charging.id = None /\ lag[h] \in 0 .. StartCap /\ faults \in 0 .. MaxFaults
      /\ charges \in Rows(Charges) /\ charging \in ChargeSession /\ None \notin Charges
      /\ IsFiniteSet(Charges) /\ phase = "up"
    BY SessionAssumption, Caps DEF Live, StartCharge, Done, TypeOK
<1>2. UNCHANGED <<drives, drive, phase>> BY DoneTypes DEF StartCharge
<1>3. PICK bad \in SUBSET {"create", "createReply"} :
        /\ Failing(bad, {"create", "createReply"})
        /\ IF "create" \in bad THEN UNCHANGED <<charges, charging>>
           ELSE \E c \in FreeCharges :
                /\ charges' = Opened(charges, c, lag[h])
                /\ charging' = IF "createReply" \in bad THEN charging
                               ELSE [id |-> c, start |-> lag[h], seen |-> 0]
    BY DEF StartCharge
<1>4. bad \in SUBSET Statements BY DEF Statements
<1>5. OrphanCharges' = Untracked(Charges, charges', charging'.id)
      /\ OrphanCharges = Untracked(Charges, charges, None)
    BY <1>1 DEF OrphanCharges, Untracked, IsOpen
<1>6. /\ charges' \in Rows(Charges) /\ charging' \in ChargeSession /\ StartsAgree(charges', charging')
      /\ \/ OrphanCharges' \subseteq OrphanCharges
         \/ "createReply" \in bad /\ \E x : OrphanCharges' \subseteq OrphanCharges \cup {x}
    <2>1. CASE "create" \in bad
        <3>1. UNCHANGED <<charges, charging>> BY <1>3, <2>1
        <3>. QED BY <1>1, <1>5, <3>1 DEF StartsAgree
    <2>2. CASE "create" \notin bad
        <3>1. PICK c \in FreeCharges :
                /\ charges' = Opened(charges, c, lag[h])
                /\ charging' = IF "createReply" \in bad THEN charging
                               ELSE [id |-> c, start |-> lag[h], seen |-> 0]
            BY <1>3, <2>2
        <3>2. c \in Charges BY DEF FreeCharges
        <3> DEFINE O == Opened(charges, c, lag[h])
        <3>3. /\ O \in Rows(Charges) /\ O[c] = [state |-> "open", start |-> lag[h], end |-> 0]
              /\ \A q \in Charges : q # c => O[q] = charges[q]
            BY <1>1, <3>2, OpenedRows
        <3>4. charges' = O BY <3>1
        <3> HIDE DEF O
        <3>5. /\ charges' \in Rows(Charges)
              /\ charges'[c] = [state |-> "open", start |-> lag[h], end |-> 0]
              /\ \A q \in Charges : IsOpen(charges', q) => IsOpen(charges, q) \/ q = c
            BY <3>3, <3>4 DEF IsOpen
        <3>6. CASE "createReply" \in bad
            <4>1. charging' = charging BY <3>1, <3>6
            <4>2. OrphanCharges' \subseteq OrphanCharges \cup {c} BY <1>1, <1>5, <3>5 DEF Untracked
            <4>. QED BY <1>1, <3>5, <3>6, <4>1, <4>2 DEF StartsAgree
        <3>7. CASE "createReply" \notin bad
            <4>1. charging' = [id |-> c, start |-> lag[h], seen |-> 0] BY <3>1, <3>7
            <4>2. charging' \in ChargeSession BY <1>1, <3>2, <4>1, Caps DEF ChargeSession
            <4>3. StartsAgree(charges', charging') BY <3>5, <4>1 DEF StartsAgree
            <4>4. OrphanCharges' \subseteq OrphanCharges BY <1>1, <1>5, <3>5, <4>1 DEF Untracked
            <4>. QED BY <3>5, <4>2, <4>3, <4>4
        <3>. QED BY <3>6, <3>7
    <2>. QED BY <2>1, <2>2
<1>7. OrphansBounded'
    <2>1. Cardinality(bad) \in Nat /\ (\A x \in bad : Cardinality(bad) >= 1) BY <1>4, Counts
    <2>2. faults' = faults + Cardinality(bad) /\ faults \in Nat BY <1>1, <1>3 DEF Failing
    <2>3. IsFiniteSet(OrphanCharges) /\ Cardinality(OrphanCharges) \in Nat
        <3>1. OrphanCharges \subseteq Charges BY DEF OrphanCharges
        <3>. QED BY <1>1, <3>1, FS_Subset, FS_CardinalityType
    <2>4. Cardinality(OrphanCharges') \in Nat
          /\ Cardinality(OrphanCharges') <= Cardinality(OrphanCharges) + Cardinality(bad)
        <3>1. CASE OrphanCharges' \subseteq OrphanCharges BY <2>1, <2>3, <3>1, Shrinks
        <3>2. CASE "createReply" \in bad /\ \E x : OrphanCharges' \subseteq OrphanCharges \cup {x}
            <4>1. /\ Cardinality(OrphanCharges') \in Nat
                  /\ Cardinality(OrphanCharges') <= Cardinality(OrphanCharges) + 1
                BY <2>3, <3>2, Grows
            <4>2. Cardinality(bad) >= 1 BY <2>1, <3>2
            <4>. QED BY <2>1, <2>3, <4>1, <4>2
        <3>. QED BY <1>6, <3>1, <3>2
    <2>5. OrphanDrives' = OrphanDrives BY <1>2 DEF OrphanDrives, IsOpen
    <2>6. IsFiniteSet(Drives) /\ OrphanDrives \subseteq Drives BY SessionAssumption DEF OrphanDrives
    <2>7. Cardinality(OrphanDrives) \in Nat BY <2>6, FS_Subset, FS_CardinalityType
    <2>8. Cardinality(OrphanDrives) <= faults /\ Cardinality(OrphanCharges) <= faults
        BY DEF OrphansBounded
    <2>9. Cardinality(OrphanDrives') <= faults' /\ Cardinality(OrphanCharges') <= faults'
        BY <2>1, <2>2, <2>3, <2>4, <2>5, <2>7, <2>8
    <2>. QED BY <2>9 DEF OrphansBounded
<1>8. CanonicalStart'
    <2>1. StartsAgree(drives, drive) BY StartsAgreeDef DEF Live
    <2>2. StartsAgree(drives', drive') BY <1>2, <2>1 DEF StartsAgree
    <2>. QED BY <1>6, <2>2 DEF CanonicalStart, StartsAgree
<1>9. Typed' /\ Clean' /\ drives' \in Rows(Drives)
    <2>1. Typed' BY <1>1, <1>2, <1>6, DoneTypes DEF StartCharge, Typed, Rest, TypeOK
    <2>2. Clean' BY <1>1, <1>2 DEF Clean
    <2>. QED BY <1>1, <1>2, <2>1, <2>2 DEF TypeOK
<1>10. faults' \in 0 .. MaxFaults BY <1>1, <1>3, <1>4, Fails
<1>. QED BY <1>6, <1>7, <1>8, <1>9, <1>10 DEF Owed
-----------------------------------------------------------------------------
(* Time passes. *)

LEMMA AgedRowType ==
    ASSUME NEW row \in Row, NEW tracked \in BOOLEAN, NEW keep
    PROVE  /\ AgedRow(row, tracked, keep) \in Row
           /\ AgedRow(row, tracked, keep).state = "open" => row.state = "open"
           /\ (tracked /\ row.state # "none") =>
                /\ AgedRow(row, tracked, keep).state = row.state
                /\ AgedRow(row, tracked, keep).start = Older(row.start, StartCap)
<1>1. /\ row.start \in 0 .. StartCap /\ row.end \in 0 .. LogCap
      /\ row.state \in {"none", "open", "ended"}
    BY DEF Row
<1>2. Older(row.start, StartCap) \in 0 .. StartCap BY <1>1, Caps, OlderType
<1>3. Older(row.end, EndCap) \in 0 .. LogCap
    <2>1. EndCap \in Nat /\ LogCap \in Nat /\ EndCap <= LogCap BY Caps
    <2>. QED BY <1>1, <2>1 DEF Older
<1>4. CASE row.state = "none" BY <1>4 DEF AgedRow
<1>5. CASE row.state = "open"
    <2>1. AgedRow(row, tracked, keep) = [row EXCEPT !.start = Older(row.start, StartCap)]
        BY <1>5 DEF AgedRow
    <2>. QED BY <1>2, <1>5, <2>1 DEF Row
<1>6. CASE row.state = "ended"
    <2>1. CASE Settled(row, tracked, keep)
        <3>1. AgedRow(row, tracked, keep) = NoRow BY <1>6, <2>1 DEF AgedRow
        <3>2. ~tracked BY <2>1 DEF Settled
        <3>3. NoRow \in Row BY Caps DEF NoRow, Row
        <3>4. NoRow.state = "none" BY DEF NoRow
        <3>. QED BY <3>1, <3>2, <3>3, <3>4
    <2>2. CASE ~Settled(row, tracked, keep)
        <3>1. AgedRow(row, tracked, keep)
                = [row EXCEPT !.start = Older(row.start, StartCap), !.end = Older(row.end, EndCap)]
            BY <1>6, <2>2 DEF AgedRow
        <3>. QED BY <1>2, <1>3, <1>6, <3>1 DEF Row
    <2>. QED BY <2>1, <2>2
<1>. QED BY <1>1, <1>4, <1>5, <1>6

LEMMA TickStep ==
    ASSUME Live, OrphansBounded, Tick
    PROVE  Owed
<1>1. /\ TypeOK /\ drives \in Rows(Drives) /\ charges \in Rows(Charges) /\ drive \in DriveSession
      /\ charging \in ChargeSession /\ None \notin Drives /\ None \notin Charges
      /\ UNCHANGED <<gear, charged, pc, msg, phase, faults>> /\ faults \in 0 .. MaxFaults
    BY SessionAssumption DEF Live, Tick, TypeOK, live
<1>2. /\ drives'  = [d \in Drives  |-> AgedRow(drives[d], drive.id = d, EndCap)]
      /\ charges' = [c \in Charges |-> AgedRow(charges[c], charging.id = c, 0)]
      /\ (\A d \in Drives : drives[d] \in Row) /\ (\A c \in Charges : charges[c] \in Row)
    BY <1>1 DEF Tick, Rows
<1>3. \A d \in Drives : (drive.id = d) \in BOOLEAN OBVIOUS
<1>4. \A c \in Charges : (charging.id = c) \in BOOLEAN OBVIOUS
<1>5. /\ drives' \in Rows(Drives) /\ charges' \in Rows(Charges)
      /\ \A d \in Drives : IsOpen(drives', d) => IsOpen(drives, d)
      /\ \A c \in Charges : IsOpen(charges', c) => IsOpen(charges, c)
    <2>1. \A d \in Drives : drives'[d] \in Row /\ (drives'[d].state = "open" => drives[d].state = "open")
        BY <1>2, <1>3, AgedRowType
    <2>2. \A c \in Charges : charges'[c] \in Row /\ (charges'[c].state = "open" => charges[c].state = "open")
        BY <1>2, <1>4, AgedRowType
    <2>. QED BY <1>2, <2>1, <2>2 DEF Rows, IsOpen
<1>6. /\ drive' \in DriveSession /\ drive'.id = drive.id
      /\ drive.id # None => drive'.start = Older(drive.start, StartCap)
    <2>1. CASE drive.id = None BY <1>1, <2>1 DEF Tick
    <2>2. CASE drive.id # None
        <3> DEFINE z == IF drive.zero = Unset THEN drive.zero ELSE Older(drive.zero, ZeroCap)
        <3>1. drive' = [drive EXCEPT !.start = Older(drive.start, StartCap),
                                     !.seen = Older(drive.seen, SeenCap), !.zero = z]
            BY <2>2 DEF Tick
        <3>2. /\ drive.start \in 0 .. StartCap /\ drive.seen \in 0 .. SeenCap
              /\ drive.zero \in Unset .. ZeroCap
            BY <1>1 DEF DriveSession
        <3>3. /\ Older(drive.start, StartCap) \in 0 .. StartCap
              /\ Older(drive.seen, SeenCap) \in 0 .. SeenCap
            BY <3>2, Caps, OlderType
        <3>4. Older(drive.zero, ZeroCap) \in Unset .. ZeroCap BY <3>2, Caps, OlderType
        <3>5. z \in Unset .. ZeroCap BY <3>2, <3>4
        <3> HIDE DEF z
        <3>. QED BY <1>1, <3>1, <3>3, <3>5 DEF DriveSession
    <2>. QED BY <2>1, <2>2
<1>7. /\ charging' \in ChargeSession /\ charging'.id = charging.id
      /\ charging.id # None => charging'.start = Older(charging.start, StartCap)
    <2>1. CASE charging.id = None BY <1>1, <2>1 DEF Tick
    <2>2. CASE charging.id # None
        <3>1. charging' = [charging EXCEPT !.start = Older(charging.start, StartCap),
                                           !.seen = Older(charging.seen, SeenCap)]
            BY <2>2 DEF Tick
        <3>2. charging.start \in 0 .. StartCap /\ charging.seen \in 0 .. SeenCap
            BY <1>1 DEF ChargeSession
        <3>3. /\ Older(charging.start, StartCap) \in 0 .. StartCap
              /\ Older(charging.seen, SeenCap) \in 0 .. SeenCap
            BY <3>2, Caps, OlderType
        <3>. QED BY <1>1, <3>1, <3>3 DEF ChargeSession
    <2>. QED BY <2>1, <2>2
<1>8. CanonicalStart'
    <2>1. ASSUME drive.id # None
          PROVE  drives'[drive.id].state # "none" /\ drives'[drive.id].start = drive'.start
        <3>1. /\ drive.id \in Drives /\ drives[drive.id].state # "none"
              /\ drives[drive.id].start = drive.start
            BY <1>1, <2>1 DEF Live, CanonicalStart, DriveSession
        <3>2. drives'[drive.id] = AgedRow(drives[drive.id], TRUE, EndCap) BY <1>2, <3>1
        <3>3. drives[drive.id] \in Row /\ TRUE \in BOOLEAN BY <1>2, <3>1
        <3>4. AgedRow(drives[drive.id], TRUE, EndCap).state = drives[drive.id].state
            BY <3>1, <3>3, AgedRowType
        <3>5. AgedRow(drives[drive.id], TRUE, EndCap).start = Older(drives[drive.id].start, StartCap)
            BY <3>1, <3>3, AgedRowType
        <3>. QED BY <1>6, <2>1, <3>1, <3>2, <3>4, <3>5
    <2>2. ASSUME charging.id # None
          PROVE  charges'[charging.id].state # "none" /\ charges'[charging.id].start = charging'.start
        <3>1. /\ charging.id \in Charges /\ charges[charging.id].state # "none"
              /\ charges[charging.id].start = charging.start
            BY <1>1, <2>2 DEF Live, CanonicalStart, ChargeSession
        <3>2. charges'[charging.id] = AgedRow(charges[charging.id], TRUE, 0) BY <1>2, <3>1
        <3>3. charges[charging.id] \in Row /\ TRUE \in BOOLEAN BY <1>2, <3>1
        <3>4. AgedRow(charges[charging.id], TRUE, 0).state = charges[charging.id].state
            BY <3>1, <3>3, AgedRowType
        <3>5. AgedRow(charges[charging.id], TRUE, 0).start = Older(charges[charging.id].start, StartCap)
            BY <3>1, <3>3, AgedRowType
        <3>. QED BY <1>7, <2>2, <3>1, <3>2, <3>4, <3>5
    <2>. QED BY <1>6, <1>7, <2>1, <2>2 DEF CanonicalStart
<1>9. OrphansBounded'
    <2>1. OrphanDrives' \subseteq OrphanDrives /\ OrphanCharges' \subseteq OrphanCharges
        BY <1>5, <1>6, <1>7 DEF OrphanDrives, OrphanCharges, IsOpen
    <2>2. IsFiniteSet(OrphanDrives) /\ IsFiniteSet(OrphanCharges)
        <3>1. OrphanDrives \subseteq Drives /\ OrphanCharges \subseteq Charges
            BY DEF OrphanDrives, OrphanCharges
        <3>. QED BY <3>1, SessionAssumption, FS_Subset
    <2>3. /\ Cardinality(OrphanDrives') \in Nat /\ Cardinality(OrphanDrives) \in Nat
          /\ Cardinality(OrphanDrives') <= Cardinality(OrphanDrives)
        BY <2>1, <2>2, Shrinks
    <2>4. /\ Cardinality(OrphanCharges') \in Nat /\ Cardinality(OrphanCharges) \in Nat
          /\ Cardinality(OrphanCharges') <= Cardinality(OrphanCharges)
        BY <2>1, <2>2, Shrinks
    <2>. QED BY <1>1, <2>3, <2>4 DEF OrphansBounded
<1>10. Typed'
    <2>1. lag' \in [Handlers -> 0 .. MaxLag]
        <3>1. ASSUME NEW h \in Handlers PROVE (IF pc[h] = "idle" THEN 0 ELSE lag[h] + 1) \in 0 .. MaxLag
            <4>1. lag[h] \in 0 .. MaxLag /\ MaxLag \in Nat BY <1>1, Caps DEF TypeOK
            <4>2. pc[h] # "idle" => lag[h] < MaxLag BY DEF Tick
            <4>. QED BY <4>1, <4>2
        <3>2. lag' = [h \in Handlers |-> IF pc[h] = "idle" THEN 0 ELSE lag[h] + 1] BY DEF Tick
        <3>. QED BY <3>1, <3>2
    <2>. QED BY <1>1, <1>6, <1>7, <2>1 DEF Typed, Rest, TypeOK
<1>11. Clean' BY <1>1, <1>6, <1>7 DEF Live, Clean
<1>. QED BY <1>1, <1>5, <1>8, <1>9, <1>10, <1>11 DEF Owed
-----------------------------------------------------------------------------
(* The theorems. *)

SessionInv == Live /\ OrphansBounded

LEMMA SettlesOwed ==
    ASSUME SessionInv, Typed', Clean', NEW d, NEW c, Settles(d, c)
    PROVE  Owed
BY SettlesStarts, SettlesOrphans DEF SessionInv, Owed, Settles

LEMMA InitInv == Init => SessionInv
<1> SUFFICES ASSUME Init PROVE SessionInv
    OBVIOUS
<1>1. NoRow \in Row /\ 0 \in 0 .. MaxLag BY Caps DEF NoRow, Row
<1>2. drives \in Rows(Drives) /\ charges \in Rows(Charges) BY <1>1 DEF Init, Rows
<1>3. drive \in DriveSession /\ charging \in ChargeSession BY NoSessions DEF Init
<1>4. msg \in [Handlers -> Payload] BY Empty DEF Init
<1>5. lag \in [Handlers -> 0 .. MaxLag] BY <1>1 DEF Init
<1>6. TypeOK
    <2>1. pc \in [Handlers -> {"idle", "drives", "charges"}] BY DEF Init
    <2>2. faults \in 0 .. MaxFaults BY Caps DEF Init
    <2>3. gear \in Gears /\ charged \in BOOLEAN BY DEF Init, Gears
    <2>4. phase \in {"down", "recovered", "validated", "completed", "up"} BY DEF Init
    <2>. QED BY <1>2, <1>3, <1>4, <1>5, <2>1, <2>2, <2>3, <2>4 DEF TypeOK
<1>7. Clean /\ CanonicalStart BY NoSessions DEF Init, Clean, CanonicalStart
<1>8. OrphansBounded
    <2>1. OrphanDrives = {} /\ OrphanCharges = {}
        BY DEF Init, NoRow, OrphanDrives, OrphanCharges, IsOpen
    <2>. QED BY <2>1, FS_EmptySet DEF Init, OrphansBounded
<1>. QED BY <1>6, <1>7, <1>8 DEF SessionInv, Live

LEMMA NextInv == SessionInv /\ [Next]_vars => SessionInv'
<1> SUFFICES ASSUME SessionInv, [Next]_vars PROVE SessionInv'
    OBVIOUS
<1>1. Live /\ OrphansBounded BY DEF SessionInv
<1>2. ASSUME Owed PROVE SessionInv'
    BY <1>2 DEF Owed, SessionInv, Live, TypeOK, Typed, Rest
<1>3. ASSUME NEW h \in Handlers, NEW m \in Kinds, NEW l \in 0 .. MaxLag, Receive(h, m, l) PROVE Owed
    BY <1>1, <1>3, ReceiveStep, SettlesOwed
<1>4. ASSUME NEW h \in Handlers, StartDrive(h) PROVE Owed BY <1>1, <1>4, StartDriveStep
<1>5. ASSUME NEW h \in Handlers, EndDrive(h) PROVE Owed BY <1>1, <1>5, EndDriveStep, SettlesOwed
<1>6. ASSUME NEW h \in Handlers, HearDrive(h) PROVE Owed BY <1>1, <1>6, HearDriveStep, SettlesOwed
<1>7. ASSUME NEW h \in Handlers, StartCharge(h) PROVE Owed BY <1>1, <1>7, StartChargeStep
<1>8. ASSUME NEW h \in Handlers, EndCharge(h) PROVE Owed BY <1>1, <1>8, EndChargeStep, SettlesOwed
<1>9. ASSUME NEW h \in Handlers, HearCharge(h) PROVE Owed BY <1>1, <1>9, HearChargeStep, SettlesOwed
<1>10. CASE Cleanup BY <1>1, <1>2, <1>10, CleanupStep, SettlesOwed
<1>11. CASE RecoverSessions BY <1>1, <1>2, <1>11, RecoverSessionsStep, SettlesOwed
<1>12. CASE ValidateRecoveredSessions BY <1>1, <1>2, <1>12, ValidateStep, SettlesOwed
<1>13. CASE RecoverIncompleteSessions BY <1>1, <1>2, <1>13, RecoverIncompleteStep, SettlesOwed
<1>14. CASE StartCleanup BY <1>1, <1>2, <1>14, CleanupStep, SettlesOwed
<1>15. CASE Crash BY <1>1, <1>2, <1>15, CrashStep, SettlesOwed
<1>16. CASE Tick BY <1>1, <1>2, <1>16, TickStep
<1>17. CASE UNCHANGED vars
    <2>1. UNCHANGED <<drives, charges, drive, charging, gear, charged, pc, msg, lag, phase, faults>>
        BY <1>17 DEF vars
    <2>2. TypeOK' BY <1>1, <2>1 DEF Live, TypeOK
    <2>3. Clean' /\ CanonicalStart' BY <1>1, <2>1 DEF Live, Clean, CanonicalStart
    <2>4. OrphansBounded'
        <3>1. OrphanDrives' = OrphanDrives /\ OrphanCharges' = OrphanCharges
            BY <2>1 DEF OrphanDrives, OrphanCharges, IsOpen
        <3>. QED BY <1>1, <2>1, <3>1 DEF OrphansBounded
    <2>. QED BY <2>2, <2>3, <2>4 DEF SessionInv, Live
<1>. QED BY <1>2, <1>3, <1>4, <1>5, <1>6, <1>7, <1>8, <1>9, <1>10, <1>11, <1>12, <1>13, <1>14, <1>15,
            <1>16, <1>17 DEF Next, Handle, Boot

\* For every number of rows, deliveries, failures and crashes, and for any limits: the
\* tables and the tracker hold what they may, and no row or session has an unset time.
THEOREM Types == Spec => []TypeOK
<1>1. SessionInv => TypeOK BY DEF SessionInv, Live
<1>. QED BY <1>1, InitInv, NextInv, PTL DEF Spec

\* A row that is open but not tracked costs a crash or a failed statement, each at most
\* one of either kind: the handlers, the sweep and the recovery lose no row themselves.
THEOREM RowsAreTracked == Spec => []OrphansBounded
<1>1. SessionInv => OrphansBounded BY DEF SessionInv
<1>. QED BY <1>1, InitInv, NextInv, PTL DEF Spec

\* The tracked start is the row's, whatever was merged, swept, crashed or restored.
THEOREM StartIsTheRows == Spec => []CanonicalStart
<1>1. SessionInv => CanonicalStart BY DEF SessionInv, Live
<1>. QED BY <1>1, InitInv, NextInv, PTL DEF Spec
-----------------------------------------------------------------------------
(* Overlap: a charge next to a drive began after it. *)

\* The tracker is empty through the start of the process, except between the recovery
\* and the validation that drops what was recovered.
EmptyUntilUp ==
    phase \in {"down", "validated", "completed"} => drive.id = None /\ charging.id = None

\* The recovery restores sessions the validation finds too old, and no others.
RecoveredAreOld ==
    phase = "recovered" =>
        /\ drive.id # None => drive.start > DriveLimit
        /\ charging.id # None => charging.start > ChargeLimit

OverlapInv == EmptyUntilUp /\ RecoveredAreOld /\ OverlapIsLate

\* The limits, and the caps above them.
LEMMA Limits ==
    /\ DriveLimit \in Nat /\ ChargeLimit \in Nat /\ DriveHorizon \in Nat /\ ChargeHorizon \in Nat
    /\ DriveLimit <= DriveHorizon /\ ChargeLimit <= ChargeHorizon
    /\ DriveLimit < StartCap /\ ChargeLimit < StartCap
BY SessionAssumption

\* The starts of tracked sessions are numbers.
LEMMA SessionNumbers ==
    ASSUME TypeOK
    PROVE  /\ drive.start \in 0 .. StartCap /\ charging.start \in 0 .. StartCap
           /\ \A h \in Handlers : lag[h] \in 0 .. MaxLag
BY DEF TypeOK, DriveSession, ChargeSession

\* A step of a phase that leaves the sessions, or drops some, keeps the invariant.
LEMMA OverlapDrops ==
    ASSUME OverlapInv,
           phase' = phase \/ (phase = "completed" /\ phase' = "up")
             \/ (phase = "validated" /\ phase' = "completed"),
           \/ drive'.id = None
           \/ drive'.id = drive.id /\ drive'.start = drive.start,
           \/ charging'.id = None
           \/ charging'.id = charging.id /\ charging'.start = charging.start
    PROVE  OverlapInv'
BY DEF OverlapInv, EmptyUntilUp, RecoveredAreOld, OverlapIsLate

\* A drive that starts leaves no charge tracked.
LEMMA StartDriveOverlap ==
    ASSUME NEW h \in Handlers, StartDrive(h)
    PROVE  OverlapInv'
<1>1. phase = "up" /\ phase' = "up" BY DEF StartDrive, Trackable, Tracked
<1>2. charging'.id = None
    <2>1. CASE charging.id # None
        <3>1. PICK bad : CompleteCharge(lag[h], bad) BY <2>1 DEF StartDrive
        <3>. QED BY <3>1, NoSessions DEF CompleteCharge
    <2>2. CASE charging.id = None BY <2>2 DEF StartDrive
    <2>. QED BY <2>1, <2>2
<1>. QED BY <1>1, <1>2 DEF OverlapInv, EmptyUntilUp, RecoveredAreOld, OverlapIsLate

\* A charge that starts next to a drive began when its payload did.
LEMMA StartChargeOverlap ==
    ASSUME TypeOK, OverlapInv, NEW h \in Handlers, StartCharge(h)
    PROVE  OverlapInv'
<1>1. phase = "up" /\ phase' = "up" /\ drive' = drive /\ charging.id = None
    BY DEF StartCharge, Done
<1>2. charging' = charging \/ charging'.start = lag[h]
    <2>1. PICK bad \in SUBSET {"create", "createReply"} :
            IF "create" \in bad THEN UNCHANGED <<charges, charging>>
            ELSE \E c \in FreeCharges :
                charging' = IF "createReply" \in bad THEN charging
                            ELSE [id |-> c, start |-> lag[h], seen |-> 0]
        BY DEF StartCharge
    <2>2. CASE "create" \in bad BY <2>1, <2>2
    <2>3. CASE "create" \notin bad
        <3>1. PICK c \in FreeCharges :
                charging' = IF "createReply" \in bad THEN charging
                            ELSE [id |-> c, start |-> lag[h], seen |-> 0]
            BY <2>1, <2>3
        <3>. QED BY <3>1
    <2>. QED BY <2>2, <2>3
<1>3. charging'.id # None => charging'.start <= drive'.start + MaxLag
    BY <1>1, <1>2, SessionNumbers, Caps
<1>. QED BY <1>1, <1>3 DEF OverlapInv, EmptyUntilUp, RecoveredAreOld, OverlapIsLate

\* The other steps of a delivery drop a session or leave it.
LEMMA HandleOverlap ==
    ASSUME TypeOK, OverlapInv, NEW h \in Handlers,
           EndDrive(h) \/ HearDrive(h) \/ EndCharge(h) \/ HearCharge(h)
    PROVE  OverlapInv'
<1>1. CASE EndDrive(h)
    <2>1. phase' = phase /\ charging' = charging BY <1>1 DEF EndDrive, Tracked
    <2>2. drive' = NoDrive BY <1>1 DEF EndDrive, CompleteDrive
    <2>. QED BY <2>1, <2>2, NoSessions, OverlapDrops
<1>2. CASE HearDrive(h)
    <2>1. phase' = phase /\ charging' = charging BY <1>2 DEF HearDrive, Tracked
    <2>2. drive' = drive \/ \E z : drive' = [drive EXCEPT !.seen = 0, !.zero = z]
        BY <1>2 DEF HearDrive
    <2>3. drive'.id = drive.id /\ drive'.start = drive.start BY <2>2 DEF TypeOK, DriveSession
    <2>. QED BY <2>1, <2>3, OverlapDrops
<1>3. CASE EndCharge(h)
    <2>1. phase' = phase /\ drive' = drive BY <1>3 DEF EndCharge, Done
    <2>2. charging' = NoCharge BY <1>3 DEF EndCharge, CompleteCharge
    <2>. QED BY <2>1, <2>2, NoSessions, OverlapDrops
<1>4. CASE HearCharge(h)
    <2>1. phase' = phase /\ drive' = drive BY <1>4 DEF HearCharge, Done
    <2>2. charging' = charging \/ charging' = [charging EXCEPT !.seen = 0]
        BY <1>4 DEF HearCharge
    <2>3. charging'.id = charging.id /\ charging'.start = charging.start BY <2>2 DEF TypeOK, ChargeSession
    <2>. QED BY <2>1, <2>3, OverlapDrops
<1>. QED BY <1>1, <1>2, <1>3, <1>4

\* The sweep drops idle sessions, also when it runs first.
LEMMA SweepOverlap == OverlapInv /\ (Cleanup \/ StartCleanup) => OverlapInv'
<1> SUFFICES ASSUME OverlapInv, Cleanup \/ StartCleanup PROVE OverlapInv'
    OBVIOUS
<1>1. phase' = phase \/ (phase = "completed" /\ phase' = "up") BY DEF Cleanup, StartCleanup
<1>2. PICK limit, bad : Sweep(limit, bad) BY DEF Cleanup, StartCleanup
<1>3. /\ drive' = NoDrive \/ drive' = drive
      /\ charging' = NoCharge \/ charging' = charging
    BY <1>2 DEF Sweep
<1>. QED BY <1>1, <1>3, NoSessions, OverlapDrops

\* The recovery restores what started before its horizon, which is past the limit.
LEMMA RecoverOverlap ==
    ASSUME TypeOK, OverlapInv, RecoverSessions
    PROVE  OverlapInv'
<1>1. phase' = "recovered" /\ drive.id = None /\ charging.id = None
    BY DEF RecoverSessions, OverlapInv, EmptyUntilUp
<1>2. ASSUME drive'.id # None PROVE drive'.start > DriveLimit
    <2>1. PICK d \in Newest(drives, StaleRows(drives, DriveHorizon)) :
            drive' = [NoDrive EXCEPT !.id = d, !.start = drives[d].start]
        BY <1>1, <1>2 DEF RecoverSessions
    <2>2. d \in Drives /\ drives[d].start > DriveHorizon
        BY <2>1 DEF Newest, StaleRows, TypeOK, Rows
    <2>3. drive'.start = drives[d].start BY <2>1 DEF NoDrive
    <2>4. drives[d].start \in 0 .. StartCap BY <2>2 DEF TypeOK, Rows, Row
    <2>. QED BY <2>2, <2>3, <2>4, Limits, Caps
<1>3. ASSUME charging'.id # None PROVE charging'.start > ChargeLimit
    <2>1. PICK c \in Newest(charges, StaleRows(charges, ChargeHorizon)) :
            charging' = [NoCharge EXCEPT !.id = c, !.start = charges[c].start]
        BY <1>1, <1>3 DEF RecoverSessions
    <2>2. c \in Charges /\ charges[c].start > ChargeHorizon
        BY <2>1 DEF Newest, StaleRows, TypeOK, Rows
    <2>3. charging'.start = charges[c].start BY <2>1 DEF NoCharge
    <2>4. charges[c].start \in 0 .. StartCap BY <2>2 DEF TypeOK, Rows, Row
    <2>. QED BY <2>2, <2>3, <2>4, Limits, Caps
<1>. QED BY <1>1, <1>2, <1>3 DEF OverlapInv, EmptyUntilUp, RecoveredAreOld, OverlapIsLate

\* So the validation drops all of it.
LEMMA ValidateOverlap ==
    ASSUME OverlapInv, ValidateRecoveredSessions
    PROVE  OverlapInv'
<1>1. phase = "recovered" /\ phase' = "validated" BY DEF ValidateRecoveredSessions
<1>2. /\ drive.id # None => drive.start > DriveLimit
      /\ charging.id # None => charging.start > ChargeLimit
    BY <1>1 DEF OverlapInv, RecoveredAreOld
<1>3. drive'.id = None
    <2>1. CASE drive.id = None BY <2>1 DEF ValidateRecoveredSessions
    <2>2. CASE drive.id # None
        <3>1. PICK bad : CompleteDrive(0, bad) BY <1>2, <2>2 DEF ValidateRecoveredSessions
        <3>. QED BY <3>1, NoSessions DEF CompleteDrive
    <2>. QED BY <2>1, <2>2
<1>4. charging'.id = None
    <2>1. CASE charging.id = None BY <2>1 DEF ValidateRecoveredSessions
    <2>2. CASE charging.id # None
        <3>1. PICK bad : CompleteCharge(0, bad) BY <1>2, <2>2 DEF ValidateRecoveredSessions
        <3>. QED BY <3>1, NoSessions DEF CompleteCharge
    <2>. QED BY <2>1, <2>2
<1>. QED BY <1>1, <1>3, <1>4 DEF OverlapInv, EmptyUntilUp, RecoveredAreOld, OverlapIsLate

\* Both sessions age alike, and not beyond what is compared.
LEMMA TickOverlap ==
    ASSUME TypeOK, OverlapInv, Tick
    PROVE  OverlapInv'
<1>1. phase' = phase BY DEF Tick
<1>2. /\ drive.id = None => drive' = drive
      /\ drive.id # None => drive'.id = drive.id /\ drive'.start = Older(drive.start, StartCap)
    BY DEF Tick, TypeOK, DriveSession
<1>3. /\ charging.id = None => charging' = charging
      /\ charging.id # None => charging'.id = charging.id
                               /\ charging'.start = Older(charging.start, StartCap)
    BY DEF Tick, TypeOK, ChargeSession
<1>4. \A age, limit \in 0 .. StartCap :
        limit < StartCap /\ age > limit => Older(age, StartCap) > limit
    BY Caps DEF Older
<1>5. \A c, d \in 0 .. StartCap :
        c <= d + MaxLag => Older(c, StartCap) <= Older(d, StartCap) + MaxLag
    BY Caps DEF Older
<1>6. EmptyUntilUp' BY <1>1, <1>2, <1>3 DEF OverlapInv, EmptyUntilUp
<1>7. RecoveredAreOld'
    <2>1. DriveLimit \in 0 .. StartCap /\ ChargeLimit \in 0 .. StartCap BY Limits, Caps
    <2>. QED BY <1>1, <1>2, <1>3, <1>4, <2>1, SessionNumbers, Limits DEF OverlapInv, RecoveredAreOld
<1>8. OverlapIsLate' BY <1>1, <1>2, <1>3, <1>5, SessionNumbers DEF OverlapInv, OverlapIsLate
<1>. QED BY <1>6, <1>7, <1>8 DEF OverlapInv

LEMMA InitOverlap == Init => OverlapInv
BY NoSessions DEF Init, OverlapInv, EmptyUntilUp, RecoveredAreOld, OverlapIsLate

LEMMA NextOverlap == TypeOK /\ OverlapInv /\ [Next]_vars => OverlapInv'
<1> SUFFICES ASSUME TypeOK, OverlapInv, [Next]_vars PROVE OverlapInv'
    OBVIOUS
<1>1. ASSUME NEW h \in Handlers, NEW m \in Kinds, NEW l \in 0 .. MaxLag, Receive(h, m, l)
      PROVE  OverlapInv'
    BY <1>1, OverlapDrops DEF Receive, sessions
<1>2. CASE \E h \in Handlers : Handle(h)
    BY <1>2, StartDriveOverlap, StartChargeOverlap, HandleOverlap DEF Handle
<1>3. CASE Cleanup \/ StartCleanup BY <1>3, SweepOverlap
<1>4. CASE RecoverSessions BY <1>4, RecoverOverlap
<1>5. CASE ValidateRecoveredSessions BY <1>5, ValidateOverlap
<1>6. CASE RecoverIncompleteSessions
    <2>1. /\ phase = "validated" /\ phase' = "completed"
          /\ drive' = drive /\ charging' = charging
        BY <1>6 DEF RecoverIncompleteSessions, sessions
    <2>. QED BY <2>1, OverlapDrops
<1>7. CASE Crash
    BY <1>7, NoSessions DEF Crash, OverlapInv, EmptyUntilUp, RecoveredAreOld, OverlapIsLate
<1>8. CASE Tick BY <1>8, TickOverlap
<1>9. CASE UNCHANGED vars BY <1>9, OverlapDrops DEF vars
<1>. QED BY <1>1, <1>2, <1>3, <1>4, <1>5, <1>6, <1>7, <1>8, <1>9 DEF Next, Boot

\* A charge that is tracked next to a drive began after it, up to the disorder of the
\* payloads: for any limits and any rows the recovery finds, because the validation
\* drops whatever the recovery restored and a drive that starts drops the charge.
THEOREM OverlapStaysLate == Spec => []OverlapIsLate
<1>1. SessionInv => TypeOK BY DEF SessionInv, Live
<1>2. OverlapInv => OverlapIsLate BY DEF OverlapInv
<1>. QED BY <1>1, <1>2, InitInv, NextInv, InitOverlap, NextOverlap, PTL DEF Spec

=============================================================================
