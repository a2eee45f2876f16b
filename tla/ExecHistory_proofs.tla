--------------------------- MODULE ExecHistory_proofs --------------------------
(***************************************************************************)
(* Proofs about ExecHistory for any tasks, sessions, clients, page sizes   *)
(* and settings, and however far the clock runs.                           *)
(***************************************************************************)
EXTENDS ExecHistory, FiniteSetTheorems, TLAPS

\* A row has been drawn before.
RowInv == \A e \in rows \cup pending : started[e] # 0

\* The cursor is at the last row received, and everything received is there or
\* before it ...
GotInv(c) ==
    LET cursor == reader[c].cursor
    IN  /\ cursor.kind = "none" => reader[c].got = {}
        /\ cursor.kind = "token" =>
              \A e \in reader[c].got :
                  /\ started[e] # 0
                  /\ \/ started[e] > cursor.time
                     \/ started[e] = cursor.time /\ e >= cursor.id

\* ... what is owed comes after it, in a row of the session the token is for ...
OwedInv(c) ==
    LET r == reader[c]
    IN  /\ r.cursor.kind = "none" => r.owed = {}
        /\ r.cursor.kind = "token" => r.cursor.session = ReaderSession[c]
        /\ \A e \in r.owed :
              e \in rows /\ SessionOf[e] = ReaderSession[c] /\ After(r.cursor, e)

\* ... and nothing is owed in the end.
DoneInv(c) == reader[c].pc = "done" => reader[c].owed = {}

IInv ==
    /\ TypeOK /\ RowInv
    /\ \A c \in Readers : GotInv(c) /\ OwedInv(c) /\ DoneInv(c)

USE ExecHistoryAssumption

-----------------------------------------------------------------------------
(***************************************************************************)
(* Pages.                                                                  *)
(***************************************************************************)

\* Positions are made of numbers.
LEMMA Positions ==
    /\ \A e \in Execs : e \in Nat
    /\ \A token \in Tokens : token.id \in Nat /\ token.time \in Nat
<1>1. \A token \in Tokens : token.id \in Execs /\ token.time \in 1..MaxTime
  BY DEF Tokens
<1>2. \A e \in Execs : e \in Nat
  BY DEF ExecHistoryAssumption
<1>3. \A t \in 1..MaxTime : t \in Nat
  BY DEF ExecHistoryAssumption
<1>4. QED
  BY <1>1, <1>2, <1>3, Zenon

\* A cursor that is accepted is the client's own, in one form or the other.
LEMMA OwnCursor ==
    ASSUME NEW c \in Readers, NEW cursor, NEW limit, IInv,
           cursor \in Sent(c), Accepted(cursor, ReaderSession[c], limit)
    PROVE  LET own == reader[c].cursor
           IN  \/ cursor = own
               \/ /\ own \in Tokens /\ cursor.kind = "legacy"
                  /\ cursor.time = own.time /\ cursor.id = own.id
<1> DEFINE own == reader[c].cursor
<1>1. own \in Tokens \cup {Start}
  BY DEF IInv, TypeOK, ReaderState
<1>2. CASE cursor = own
  BY <1>2
<1>3. CASE own.kind # "none" /\ cursor = [kind |-> "legacy", time |-> own.time, id |-> own.id]
  BY <1>1, <1>3 DEF Start
<1>4. ASSUME NEW e \in rows, NEW l \in Limits, SessionOf[e] # ReaderSession[c],
             cursor = NextCursor(e, SessionOf[e], l)
      PROVE  FALSE
  BY <1>4 DEF NextCursor, Accepted
<1>5. QED
  BY <1>2, <1>3, <1>4 DEF Sent

\* The rest of a history is the same in both forms.
LEMMA SameRest ==
    ASSUME NEW c \in Readers, NEW cursor, NEW limit, IInv,
           cursor \in Sent(c), Accepted(cursor, ReaderSession[c], limit)
    PROVE  /\ Rest(ReaderSession[c], cursor) = Rest(ReaderSession[c], reader[c].cursor)
           /\ cursor.kind = "none" <=> reader[c].cursor.kind = "none"
<1>1. CASE cursor = reader[c].cursor
  BY <1>1
<1>2. CASE /\ reader[c].cursor \in Tokens /\ cursor.kind = "legacy"
           /\ cursor.time = reader[c].cursor.time /\ cursor.id = reader[c].cursor.id
  <2>1. \A e : After(cursor, e) <=> After(reader[c].cursor, e)
    BY <1>2 DEF After, Tokens
  <2>2. QED
    BY <1>2, <2>1 DEF Rest, Tokens
<1>3. QED
  BY <1>1, <1>2, OwnCursor

\* Only a history that has come to its end gives an empty page.
LEMMA EmptyPage ==
    ASSUME NEW rest, NEW limit \in Limits, IsPage({}, rest, limit)
    PROVE  rest = {}
<1>1. Cardinality({}) = 0
  BY FS_EmptySet
<1>2. limit # 0 /\ MaxPage # 0
  OBVIOUS
<1>3. QED
  BY <1>1, <1>2 DEF IsPage

\* What a page leaves over comes after each of its rows.
LEMMA PageFirst ==
    ASSUME NEW rest, NEW limit \in Limits, NEW page, IsPage(page, rest, limit)
    PROVE  page \subseteq rest /\ \A e \in page, f \in rest \ page : Newer(e, f)
  BY DEF IsPage

-----------------------------------------------------------------------------
(***************************************************************************)
(* The invariant.                                                          *)
(***************************************************************************)

LEMMA InitIInv == Init => IInv
<1> SUFFICES ASSUME Init PROVE IInv
  OBVIOUS
<1>1. TypeOK
  BY DEF Init, TypeOK, ReaderState
<1>2. RowInv
  BY DEF Init, RowInv
<1>3. \A c \in Readers : GotInv(c) /\ OwedInv(c) /\ DoneInv(c)
  BY DEF Init, GotInv, OwedInv, DoneInv, Start
<1>4. QED
  BY <1>1, <1>2, <1>3 DEF IInv

\* A page: the cursor moves behind it, and nothing before the cursor is owed.
LEMMA PageKeepsIInv ==
    ASSUME IInv, NEW c \in Readers, NEW cursor \in Sent(c), NEW limit \in Limits,
           NEW page \in SUBSET Rest(ReaderSession[c], cursor),
           ListExecHistory(c, cursor, limit, page)
    PROVE  IInv'
<1> DEFINE own == reader[c].cursor
           rest == Rest(ReaderSession[c], cursor)
           owed == IF cursor.kind = "none" THEN rest ELSE reader[c].owed
<1>1. /\ UNCHANGED <<now, started, pending, rows, ttl>>
      /\ IsPage(page, rest, limit)
      /\ reader[c].pc = "reading"
      /\ Accepted(cursor, ReaderSession[c], limit)
  BY DEF ListExecHistory
<1>2. rest = Rest(ReaderSession[c], own) /\ (cursor.kind = "none" <=> own.kind = "none")
  BY <1>1, SameRest
<1>3. /\ now \in 1..MaxTime /\ started \in [Execs -> 0..MaxTime]
      /\ pending \subseteq Execs /\ rows \subseteq Execs /\ ttl \in Ttls
      /\ reader \in [Readers -> ReaderState]
  BY DEF IInv, TypeOK
<1>4. reader[c] \in ReaderState
  BY <1>3
<1>5. own \in Tokens \cup {Start}
  BY <1>4 DEF ReaderState
<1>6. reader[c].owed \subseteq rest
  BY <1>2 DEF IInv, OwedInv, Rest
<1>7. ASSUME reader' \in [Readers -> ReaderState],
             \A d \in Readers \ {c} : reader'[d] = reader[d],
             GotInv(c)', OwedInv(c)', DoneInv(c)'
      PROVE  IInv'
  <2>1. TypeOK'
    BY <1>1, <1>3, <1>7 DEF TypeOK
  <2>2. RowInv'
    BY <1>1 DEF IInv, RowInv
  <2>3. ASSUME NEW d \in Readers \ {c} PROVE GotInv(d)' /\ OwedInv(d)' /\ DoneInv(d)'
    BY <1>1, <1>7, <2>3 DEF IInv, GotInv, OwedInv, DoneInv, After
  <2>4. QED
    BY <1>7, <2>1, <2>2, <2>3 DEF IInv
<1>8. CASE page = {} /\ reader' = [reader EXCEPT ![c] = [@ EXCEPT !.pc = "done"]]
  <2>1. rest = {}
    BY <1>1, <1>8, EmptyPage
  <2>2. reader[c].owed = {}
    BY <1>6, <2>1
  <2>3. /\ reader'[c].cursor = own /\ reader'[c].got = reader[c].got
        /\ reader'[c].owed = {}
    BY <1>3, <1>4, <1>8, <2>2 DEF ReaderState
  <2>4. reader' \in [Readers -> ReaderState]
    BY <1>3, <1>4, <1>8 DEF ReaderState
  <2>5. GotInv(c)'
    BY <1>1, <2>3 DEF IInv, GotInv
  <2>6. OwedInv(c)'
    BY <1>1, <2>3 DEF IInv, OwedInv
  <2>7. DoneInv(c)'
    BY <2>3 DEF DoneInv
  <2>8. QED
    BY <1>3, <1>7, <1>8, <2>4, <2>5, <2>6, <2>7
<1>9. ASSUME NEW last \in page,
             \A e \in page : e = last \/ Newer(e, last),
             reader' = [reader EXCEPT ![c] =
                 [pc |-> "reading",
                  cursor |-> NextCursor(last, ReaderSession[c], limit),
                  got |-> @.got \cup page, owed |-> owed \ page]]
      PROVE  IInv'
  <2> DEFINE next == NextCursor(last, ReaderSession[c], limit)
  <2>1. last \in rest /\ last \in rows /\ last \in Execs /\ page \subseteq Execs
    BY <1>3 DEF Rest
  <2>2. started[last] \in 1..MaxTime
    BY <1>3, <2>1 DEF IInv, RowInv
  <2>3. /\ next \in Tokens /\ next.kind = "token" /\ next.time = started[last]
        /\ next.id = last /\ next.session = ReaderSession[c]
    <3>1. ReaderSession[c] \in Sessions /\ ttl \in Nat /\ now \in 1..MaxTime
      BY <1>3
    <3>2. (IF ttl > 0 THEN now + ttl ELSE 0) \in Nat
      BY <3>1
    <3>3. QED
      BY <2>1, <2>2, <3>1, <3>2 DEF NextCursor, Tokens
  <2>4. /\ reader'[c].pc = "reading" /\ reader'[c].cursor = next
        /\ reader'[c].got = reader[c].got \cup page /\ reader'[c].owed = owed \ page
    BY <1>3, <1>9
  <2>5. reader' \in [Readers -> ReaderState]
    <3>1. owed \subseteq Execs /\ reader[c].got \subseteq Execs
      BY <1>3, <1>4 DEF Rest, ReaderState
    <3>2. [pc |-> "reading", cursor |-> next, got |-> reader[c].got \cup page,
           owed |-> owed \ page] \in ReaderState
      BY <2>1, <2>3, <3>1 DEF ReaderState
    <3>3. QED
      BY <1>3, <1>9, <3>2
  <2>6. last \in Nat /\ started[last] \in Nat
    BY <1>3, <2>1
  <2>7. GotInv(c)'
    <3>1. ASSUME NEW e \in reader[c].got
          PROVE  started[e] # 0 /\ e \in Execs /\ Newer(e, last)
      <4>1. own \in Tokens /\ own.kind = "token"
        BY <1>5, <3>1 DEF IInv, GotInv, Start, Tokens
      <4>2. /\ started[e] # 0
            /\ started[e] > own.time \/ (started[e] = own.time /\ e >= own.id)
        BY <3>1, <4>1 DEF IInv, GotInv
      <4>3. started[last] < own.time \/ (started[last] = own.time /\ last < own.id)
        BY <1>2, <2>1, <4>1 DEF Rest, After
      <4>4. e \in Execs /\ e \in Nat /\ started[e] \in Nat
        BY <1>3, <1>4, <3>1 DEF ReaderState
      <4>5. own.id \in Nat /\ own.time \in Nat
        BY <4>1, Positions
      <4>6. QED
        BY <2>6, <4>2, <4>3, <4>4, <4>5 DEF Newer
    <3>2. ASSUME NEW e \in page PROVE started[e] # 0 /\ e \in Execs
      BY <1>3 DEF Rest, IInv, RowInv
    <3>3. ASSUME NEW e \in reader'[c].got
          PROVE  /\ started[e] # 0
                 /\ started[e] > started[last] \/ (started[e] = started[last] /\ e >= last)
      <4>1. CASE e \in reader[c].got
        <5>1. e \in Execs /\ e \in Nat /\ Newer(e, last) /\ started[e] # 0
          BY <3>1, <4>1
        <5>2. QED
          BY <2>6, <5>1 DEF Newer
      <4>2. CASE e \in page
        <5>1. e = last \/ Newer(e, last)
          BY <1>9, <4>2
        <5>2. e \in Nat /\ started[e] # 0
          BY <3>2, <4>2
        <5>3. QED
          BY <2>6, <5>1, <5>2 DEF Newer
      <4>3. QED
        BY <2>4, <3>3, <4>1, <4>2
    <3>4. QED
      BY <1>1, <2>3, <2>4, <3>3 DEF GotInv
  <2>8. OwedInv(c)'
    <3>1. ASSUME NEW e \in owed \ page
          PROVE  /\ e \in rows /\ SessionOf[e] = ReaderSession[c]
                 /\ started[e] < started[last] \/ (started[e] = started[last] /\ e < last)
      <4>1. e \in rest
        BY <1>6
      <4>2. Newer(last, e)
        BY <1>1, <3>1, <4>1, PageFirst
      <4>3. e \in Nat /\ last \in Nat /\ started[e] \in Nat /\ started[last] \in Nat
        BY <1>3, <2>1, <4>1 DEF Rest
      <4>4. QED
        BY <4>1, <4>2, <4>3 DEF Rest, Newer
    <3>2. QED
      BY <1>1, <2>3, <2>4, <3>1 DEF OwedInv, After
  <2>9. DoneInv(c)'
    BY <2>4 DEF DoneInv
  <2>10. QED
    BY <1>3, <1>7, <1>9, <2>5, <2>7, <2>8, <2>9
<1>10. QED
  BY <1>8, <1>9 DEF ListExecHistory

LEMMA NextIInv == IInv /\ [Next]_vars => IInv'
<1> SUFFICES ASSUME IInv, [Next]_vars PROVE IInv'
  OBVIOUS
<1>t. /\ now \in 1..MaxTime /\ started \in [Execs -> 0..MaxTime]
      /\ pending \subseteq Execs /\ rows \subseteq Execs /\ ttl \in Ttls
      /\ reader \in [Readers -> ReaderState]
  BY DEF IInv, TypeOK
<1>u. ASSUME UNCHANGED <<started, reader>>, rows \subseteq rows',
             rows' \cup pending' \subseteq rows \cup pending,
             now' \in 1..MaxTime, ttl' \in Ttls
      PROVE  IInv'
  <2>1. TypeOK'
    BY <1>t, <1>u DEF TypeOK
  <2>2. RowInv'
    BY <1>u DEF IInv, RowInv
  <2>3. ASSUME NEW c \in Readers PROVE GotInv(c)' /\ OwedInv(c)' /\ DoneInv(c)'
    BY <1>u, <2>3 DEF IInv, GotInv, OwedInv, DoneInv, After
  <2>4. QED
    BY <2>1, <2>2, <2>3 DEF IInv
<1>1. CASE UNCHANGED vars
  BY <1>t, <1>u, <1>1 DEF vars
<1>2. CASE Tick
  BY <1>t, <1>u, <1>2 DEF Tick
<1>3. ASSUME NEW e \in Execs, Execute(e) PROVE IInv'
  <2>1. started' \in [Execs -> 0..MaxTime] /\ \A f \in Execs \ {e} : started'[f] = started[f]
    BY <1>t, <1>3 DEF Execute
  <2>2. started[e] = 0 /\ started'[e] = now /\ now # 0
    BY <1>t, <1>3 DEF Execute
  <2>3. /\ pending' = pending \cup {e} /\ UNCHANGED <<now, rows, ttl, reader>>
    BY <1>3 DEF Execute
  <2>4. TypeOK'
    BY <1>t, <2>1, <2>3 DEF TypeOK
  <2>5. RowInv'
    BY <1>t, <2>1, <2>2, <2>3 DEF IInv, RowInv
  <2>6. ASSUME NEW c \in Readers PROVE GotInv(c)' /\ OwedInv(c)' /\ DoneInv(c)'
    <3>1. reader[c].got \subseteq Execs /\ reader[c].owed \subseteq Execs
      BY <1>t DEF ReaderState
    <3>2. \A f \in reader[c].got : reader[c].cursor.kind = "token" => f # e
      BY <2>2 DEF IInv, GotInv
    <3>3. e \notin reader[c].owed
      BY <2>2 DEF IInv, OwedInv, RowInv
    <3>4. GotInv(c)'
      BY <2>1, <2>3, <3>1, <3>2 DEF IInv, GotInv
    <3>5. OwedInv(c)'
      BY <2>1, <2>3, <3>1, <3>3 DEF IInv, OwedInv, After
    <3>6. QED
      BY <2>3, <3>4, <3>5 DEF IInv, DoneInv
  <2>7. QED
    BY <2>4, <2>5, <2>6 DEF IInv
<1>4. ASSUME NEW e \in Execs, CreateExecTask(e) PROVE IInv'
  BY <1>t, <1>u, <1>4 DEF CreateExecTask
<1>5. ASSUME NEW gone \in SUBSET rows, CleanupExecHistory(gone) PROVE IInv'
  <2>1. \A c \in Readers :
           /\ reader'[c].pc = reader[c].pc /\ reader'[c].cursor = reader[c].cursor
           /\ reader'[c].got = reader[c].got /\ reader'[c].owed = reader[c].owed \ gone
    BY <1>t, <1>5 DEF CleanupExecHistory, ReaderState
  <2>2. reader' \in [Readers -> ReaderState]
    BY <1>t, <1>5 DEF CleanupExecHistory, ReaderState
  <2>3. rows' = rows \ gone /\ UNCHANGED <<now, started, pending, ttl>>
    BY <1>5 DEF CleanupExecHistory
  <2>4. TypeOK'
    BY <1>t, <2>2, <2>3 DEF TypeOK
  <2>5. RowInv'
    BY <2>3 DEF IInv, RowInv
  <2>6. ASSUME NEW c \in Readers PROVE GotInv(c)' /\ OwedInv(c)' /\ DoneInv(c)'
    <3>1. GotInv(c)'
      BY <2>1, <2>3 DEF IInv, GotInv
    <3>2. OwedInv(c)'
      BY <2>1, <2>3 DEF IInv, OwedInv, After
    <3>3. DoneInv(c)'
      BY <2>1, <2>3 DEF IInv, DoneInv
    <3>4. QED
      BY <3>1, <3>2, <3>3
  <2>7. QED
    BY <2>4, <2>5, <2>6 DEF IInv
<1>6. ASSUME NEW setting \in Ttls, Restart(setting) PROVE IInv'
  BY <1>t, <1>u, <1>6 DEF Restart
<1>7. ASSUME NEW c \in Readers, NEW cursor \in Sent(c), NEW limit \in Limits,
             ListRefused(c, cursor, limit)
      PROVE  IInv'
  <2>1. /\ UNCHANGED <<now, started, pending, rows, ttl>>
        /\ reader' = [reader EXCEPT ![c] = [@ EXCEPT !.pc = "refused"]]
    BY <1>7 DEF ListRefused
  <2>2. reader' \in [Readers -> ReaderState]
    BY <1>t, <2>1 DEF ReaderState
  <2>3. \A d \in Readers :
           /\ reader'[d].cursor = reader[d].cursor /\ reader'[d].got = reader[d].got
           /\ reader'[d].owed = reader[d].owed
           /\ reader'[d].pc = "done" => reader[d].pc = "done"
    BY <1>t, <2>1 DEF ReaderState
  <2>4. TypeOK'
    BY <1>t, <2>1, <2>2 DEF TypeOK
  <2>5. RowInv'
    BY <2>1 DEF IInv, RowInv
  <2>6. ASSUME NEW d \in Readers PROVE GotInv(d)' /\ OwedInv(d)' /\ DoneInv(d)'
    BY <2>1, <2>3 DEF IInv, GotInv, OwedInv, DoneInv, After
  <2>7. QED
    BY <2>4, <2>5, <2>6 DEF IInv
<1>8. QED
  BY <1>1, <1>2, <1>3, <1>4, <1>5, <1>6, <1>7, PageKeepsIInv DEF Next

-----------------------------------------------------------------------------
(***************************************************************************)
(* Theorems.                                                               *)
(***************************************************************************)

\* Where clients are, and what they are owed, is the same in every state the
\* server can reach.
THEOREM Invariance == Spec => []IInv
  BY InitIInv, NextIInv, PTL DEF Spec

\* Table, tokens and clients are what TypeOK says.
THEOREM TypeCorrect == Spec => []TypeOK
<1>1. IInv => TypeOK
  BY DEF IInv
<1>2. QED
  BY <1>1, Invariance, PTL

\* No row comes twice, and the order is kept over all pages.
THEOREM PagesInOrder == Spec => []PagesFollow
<1>1. IInv => PagesFollow
  <2> SUFFICES ASSUME IInv, NEW c \in Readers, NEW e \in reader[c].got,
                      NEW f \in Rest(ReaderSession[c], reader[c].cursor)
               PROVE  Newer(e, f)
    BY DEF PagesFollow
  <2> DEFINE own == reader[c].cursor
  <2>1. own \in Tokens /\ own.kind = "token"
    BY DEF IInv, TypeOK, ReaderState, GotInv, Start, Tokens
  <2>2. started[e] > own.time \/ (started[e] = own.time /\ e >= own.id)
    BY <2>1 DEF IInv, GotInv
  <2>3. started[f] < own.time \/ (started[f] = own.time /\ f < own.id)
    BY <2>1 DEF Rest, After
  <2>4. e \in Nat /\ f \in Nat /\ started[e] \in Nat /\ started[f] \in Nat
    <3>1. reader[c] \in ReaderState
      BY DEF IInv, TypeOK
    <3>2. e \in Execs /\ f \in Execs
      BY <3>1 DEF IInv, TypeOK, ReaderState, Rest
    <3>3. QED
      BY <3>2, Positions DEF IInv, TypeOK
  <2>5. own.id \in Nat /\ own.time \in Nat
    BY <2>1, Positions
  <2>6. QED
    BY <2>2, <2>3, <2>4, <2>5 DEF Newer
<1>2. QED
  BY <1>1, Invariance, PTL

\* A client that reaches the end has every row that was there and stayed.
THEOREM HistoryComplete == Spec => []NothingSkipped
<1>1. IInv => NothingSkipped
  BY DEF IInv, DoneInv, NothingSkipped
<1>2. QED
  BY <1>1, Invariance, PTL

\* A token that is used in time, under the setting it was issued with, is accepted.
THEOREM TokensAccepted == Spec => []TimelyTokenAccepted
<1>1. IInv => TimelyTokenAccepted
  <2> SUFFICES ASSUME IInv, NEW c \in Readers,
                      reader[c].cursor.kind = "token",
                      reader[c].cursor.expires = reader[c].cursor.issued + ttl,
                      now <= reader[c].cursor.expires
               PROVE  Accepted(reader[c].cursor, ReaderSession[c], reader[c].cursor.limit)
    BY DEF TimelyTokenAccepted
  <2> DEFINE own == reader[c].cursor
  <2>1. own.session = ReaderSession[c]
    BY DEF IInv, OwedInv
  <2>2. own \in Tokens
    BY DEF IInv, TypeOK, ReaderState, Start
  <2>3. now \in Nat /\ ttl \in Nat /\ own.issued \in Nat
    BY <2>2 DEF IInv, TypeOK, Tokens
  <2>4. now - own.issued <= 2 * ttl
    BY <2>3
  <2>5. QED
    BY <2>1, <2>4 DEF Accepted
<1>2. QED
  BY <1>1, Invariance, PTL
=============================================================================
