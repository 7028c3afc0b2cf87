---------------------------- MODULE PriorityProofs ----------------------------
(***************************************************************************)
(* Proofs about Priority, for every number of items, stage indices,        *)
(* callers and requests, and any priorities.                               *)
(***************************************************************************)
EXTENDS Priority, WellFoundedInduction, NaturalsInduction, TLAPS

LEMMA LeastNumber ==
  ASSUME NEW S, S \subseteq Nat, S # {}
  PROVE  \E n \in S : \A m \in S : n <= m
<1>1. PICK n \in S : \A m \in S : <<m, n>> \notin OpToRel(<, Nat)
  BY WFMin, NatLessThanWellFounded, Zenon
<1>2. \A m \in S : ~(m < n)
  BY <1>1, Zenon DEF OpToRel
<1> QED
  BY <1>2

LEMMA Rows ==
  /\ Highest \in Nat /\ \A i \in Item : Last[i] \in 0..Highest
  /\ \A r \in Row : r[1] \in Item /\ r[2] \in 0..Highest /\ r = <<r[1], r[2]>>
  /\ \A i \in Item : <<i, 0>> \in Row
<1>1. \E n \in {Last[i] : i \in Item} : \A i \in Item : Last[i] <= n
  BY PriorityAssumption
<1>2. Highest \in {Last[i] : i \in Item} /\ \A i \in Item : Last[i] <= Highest
  BY <1>1 DEF Highest
<1>3. Highest \in Nat /\ \A i \in Item : Last[i] \in 0..Highest
  BY <1>2, PriorityAssumption
<1> HIDE DEF Highest
<1> QED
  BY <1>3 DEF Row

\* The rows above a row are of its item, and none of them is its first.
LEMMA Higher ==
  ASSUME NEW h \in Row, NEW s \in Above(h)
  PROVE  /\ s \in Row /\ s[1] = h[1] /\ s[2] > h[2] /\ s[2] # 0 /\ s # h
         /\ s[2] <= Last[s[1]] /\ s = <<h[1], s[2]>>
<1>1. h[1] \in Item /\ h[2] \in Nat /\ Last[h[1]] \in 0..Highest /\ Highest \in Nat
  BY Rows
<1>2. s[1] = h[1] /\ s[2] \in (h[2] + 1)..Last[h[1]] /\ s = <<s[1], s[2]>>
  BY DEF Above
<1>3. s[2] \in 0..Highest /\ s[2] > h[2] /\ s[2] # 0 /\ s[2] <= Last[h[1]]
  BY <1>1, <1>2
<1> QED
  BY <1>1, <1>2, <1>3 DEF Row
-----------------------------------------------------------------------------
(***************************************************************************)
(* The tables and the records of processes.                                *)
(***************************************************************************)

Entry == Item \X (Level \cup {Cancel})

CallerRecord ==
  [phase : {"IDLE", "BLOCK", "SELECT", "LOCK"}, request : Seq(Entry),
   due : SUBSET Nat, next : Nat, todo : SUBSET Row, held : SUBSET Row,
   items : SUBSET Item, stamped : SUBSET Row]

HandoffRecord ==
  [phase : {"NONE", "BEGUN", "INSERT", "RAISED"}, todo : SUBSET Row,
   now : Row \cup {None}, seen : Level \cup {None},
   written : SUBSET (Row \X Level), late : BOOLEAN]

TablesOK ==
  /\ state \in [Row -> Nonterminal \cup {"ABSENT", "SUCCEEDED", "CANCELLED"}]
  /\ priority \in [Row -> Level \cup {None}]
  /\ wanted \in [Item -> Level \cup {None}]
  /\ queued \in [Row -> Level \cup {None}]

ShapeOK ==
  /\ TablesOK
  /\ process \in [Caller -> CallerRecord]
  /\ handoff \in [Row -> HandoffRecord]

LEMMA Blank == Idle \in CallerRecord /\ NoHandoff \in HandoffRecord
<1>1. <<>> \in Seq(Entry)
  OBVIOUS
<1> QED
  BY <1>1 DEF Idle, NoHandoff, CallerRecord, HandoffRecord

\* A request that a caller may make.
Request(q) ==
  /\ q \in Seq(Entry)
  /\ \A n \in DOMAIN q : q[n][2] = Cancel => DOMAIN q = {n}
  /\ \A n, m \in DOMAIN q : q[n][1] = q[m][1] => n = m

LEMMA Entries ==
  ASSUME NEW q, Request(q)
  PROVE  /\ DOMAIN q \subseteq Nat
         /\ \A n \in DOMAIN q : /\ q[n] \in Entry /\ q[n][1] \in Item
                                /\ q[n][2] # Cancel => q[n][2] \in Level
<1>1. DOMAIN q = 1..Len(q) /\ Len(q) \in Nat /\ \A n \in 1..Len(q) : q[n] \in Entry
  BY DEF Request
<1> QED
  BY <1>1 DEF Entry

LEMMA Requested ==
  ASSUME NEW c \in Caller, NEW q \in Requests[c]
  PROVE  Request(q) /\ q # <<>>
BY PriorityAssumption DEF Request, Entry

OtherCallersKeep(c) == \A d \in Caller \ {c} : process'[d] = process[d]
OtherHandoffsKeep(h) == \A k \in Row \ {h} : handoff'[k] = handoff[k]

\* What a transaction has when it turns to the item of position n.
LEMMA EnterDoes ==
  ASSUME NEW p \in CallerRecord, NEW n \in Nat, NEW c \in Caller,
         p.request[n][1] \in Item, TablesOK,
         NEW e, e = Enter(p, n)
  PROVE  /\ e \in CallerRecord
         /\ e.request = p.request /\ e.next = n /\ e.due = p.due \ {n}
         /\ e.held = p.held /\ e.items = p.items /\ e.stamped = p.stamped
         /\ \/ p.request[n][2] = Cancel /\ e.phase = "SELECT" /\ e.todo = p.todo
            \/ /\ p.request[n][2] # Cancel /\ e.phase = "BLOCK"
               /\ e.todo = Open(p.request[n][1])
<1> DEFINE q == [p EXCEPT !.due = @ \ {n}, !.next = n]
           open == Open(p.request[n][1])
<1>1. q \in CallerRecord
  BY DEF CallerRecord
<1>2. /\ q.request = p.request /\ q.next = n /\ q.due = p.due \ {n}
      /\ q.held = p.held /\ q.items = p.items /\ q.stamped = p.stamped /\ q.todo = p.todo
  BY DEF CallerRecord
<1>3. open \in SUBSET Row
  BY DEF Open
<1>4. e = IF p.request[n][2] = Cancel THEN [q EXCEPT !.phase = "SELECT"]
          ELSE [q EXCEPT !.phase = "BLOCK", !.todo = open]
  BY DEF Enter
<1> HIDE DEF q, open
<1>5. CASE p.request[n][2] = Cancel
  <2>1. e = [q EXCEPT !.phase = "SELECT"]
    BY <1>4, <1>5
  <2> QED
    BY <1>1, <1>2, <1>5, <2>1 DEF CallerRecord
<1>6. CASE p.request[n][2] # Cancel
  <2>1. e = [q EXCEPT !.phase = "BLOCK", !.todo = open]
    BY <1>4, <1>6
  <2>2. /\ e \in CallerRecord /\ e.phase = "BLOCK" /\ e.todo = open
        /\ e.request = q.request /\ e.next = q.next /\ e.due = q.due
        /\ e.held = q.held /\ e.items = q.items /\ e.stamped = q.stamped
    BY <1>1, <1>3, <2>1 DEF CallerRecord
  <2> QED
    BY <1>2, <1>6, <2>2 DEF open
<1> QED
  BY <1>5, <1>6
-----------------------------------------------------------------------------
(***************************************************************************)
(* What each statement of a caller does to its transaction.                *)
(***************************************************************************)

CallerMoves(c) ==
  /\ UNCHANGED <<tables, handoff>>
  /\ process' \in [Caller -> CallerRecord]
  /\ OtherCallersKeep(c)

SameCall(c) ==
  /\ process'[c].request = process[c].request
  /\ process'[c].next = process[c].next
  /\ process'[c].due = process[c].due
  /\ process'[c].stamped = process[c].stamped

LEMMA Replaced ==
  ASSUME NEW c \in Caller, NEW new \in CallerRecord,
         process \in [Caller -> CallerRecord],
         process' = [process EXCEPT ![c] = new]
  PROVE  /\ process' \in [Caller -> CallerRecord] /\ process'[c] = new
         /\ OtherCallersKeep(c)
BY DEF OtherCallersKeep

\* What turning to position n leaves, from a transaction that had what.
Entered(c, q, n, due) ==
  /\ process'[c].request = q /\ process'[c].next = n /\ process'[c].due = due
  /\ \/ q[n][2] = Cancel /\ process'[c].phase = "SELECT"
     \/ q[n][2] # Cancel /\ process'[c].phase = "BLOCK" /\ process'[c].todo = Open(q[n][1])

LEMMA StartCallDoes ==
  ASSUME NEW c \in Caller, ShapeOK, StartCall(c)
  PROVE  /\ CallerMoves(c)
         /\ \E q \in Requests[c] : \E n \in DOMAIN q :
              /\ \E due \in SUBSET (DOMAIN q \ {n}) : Entered(c, q, n, due)
              /\ process'[c].held = {} /\ process'[c].items = {}
              /\ process'[c].stamped = {} /\ process'[c].todo \subseteq Open(q[n][1])
              /\ \A m \in DOMAIN q : wanted[q[m][1]] # None
<1>1. PICK q \in Requests[c] :
        LET p == [Idle EXCEPT !.request = q, !.due = Differing(q)] IN
        /\ \A m \in DOMAIN q : wanted[q[m][1]] # None
        /\ p.due # {}
        /\ process' = [process EXCEPT ![c] = Enter(p, FirstDue(p))]
  BY DEF StartCall
<1>2. Request(q) /\ q # <<>> /\ DOMAIN q \subseteq Nat
  BY Requested, Entries
<1>3. Differing(q) \subseteq DOMAIN q
  <2>1. DOMAIN q = 1..Len(q) /\ Len(q) \in Nat
    BY <1>2 DEF Request
  <2> QED
    BY <2>1 DEF Differing
<1> DEFINE due == Differing(q)
           p == [Idle EXCEPT !.request = q, !.due = due]
           n == FirstDue(p)
           e == Enter(p, n)
<1> HIDE DEF due
<1>4. due \subseteq DOMAIN q /\ due \in SUBSET Nat
  BY <1>2, <1>3 DEF due
<1>5. /\ p \in CallerRecord /\ p.request = q /\ p.due = due /\ p.held = {}
      /\ p.items = {} /\ p.stamped = {} /\ p.todo = {}
  <2>1. q \in Seq(Entry)
    BY <1>2 DEF Request
  <2> QED
    BY <2>1, <1>4, Blank DEF Idle, CallerRecord
<1>6. due # {} /\ process' = [process EXCEPT ![c] = e]
  BY <1>1 DEF due, Idle
<1> HIDE DEF p
<1>7. n \in due
  <2>1. \E k \in due : \A m \in due : k <= m
    BY <1>4, <1>6, LeastNumber
  <2> QED
    BY <1>5, <2>1 DEF FirstDue
<1> HIDE DEF n
<1>8. n \in DOMAIN q /\ n \in Nat /\ q[n][1] \in Item
  BY <1>2, <1>4, <1>7, Entries
<1>9. /\ e \in CallerRecord
      /\ e.request = q /\ e.next = n /\ e.due = due \ {n}
      /\ e.held = {} /\ e.items = {} /\ e.stamped = {}
      /\ \/ q[n][2] = Cancel /\ e.phase = "SELECT" /\ e.todo = {}
         \/ q[n][2] # Cancel /\ e.phase = "BLOCK" /\ e.todo = Open(q[n][1])
  <2>1. TablesOK /\ p.request[n][1] \in Item
    BY <1>5, <1>8 DEF ShapeOK
  <2> QED
    BY <1>5, <1>8, <2>1, EnterDoes
<1> HIDE DEF e
<1>10. process' \in [Caller -> CallerRecord] /\ process'[c] = e /\ OtherCallersKeep(c)
  BY <1>6, <1>9, Replaced DEF ShapeOK
<1>11. Entered(c, q, n, due \ {n}) /\ due \ {n} \in SUBSET (DOMAIN q \ {n})
  BY <1>4, <1>9, <1>10 DEF Entered
<1>12. process'[c].todo \subseteq Open(q[n][1])
  BY <1>9, <1>10
<1>13. CallerMoves(c)
  BY <1>10 DEF CallerMoves, StartCall
<1> QED
  BY <1>1, <1>8, <1>9, <1>10, <1>11, <1>12, <1>13

LEMMA NextItemDoes ==
  ASSUME NEW c \in Caller, ShapeOK, NextItem(c),
         Request(process[c].request), process[c].due \subseteq DOMAIN process[c].request
  PROVE  /\ CallerMoves(c)
         /\ \E n \in process[c].due : Entered(c, process[c].request, n, process[c].due \ {n})
         /\ process'[c].held = process[c].held /\ process'[c].items = process[c].items
         /\ process'[c].stamped = Stamped(c)
         /\ process'[c].todo = {} \/ process'[c].todo = Open(ItemOf(c))'
<1> DEFINE q == process[c].request
           due == process[c].due
           p == [process[c] EXCEPT !.stamped = Stamped(c)]
           n == FirstDue(process[c])
           e == Enter(p, n)
<1>1. process[c] \in CallerRecord /\ due # {} /\ process[c].todo = {}
  BY DEF ShapeOK, NextItem, AllLocked
<1>2. process' = [process EXCEPT ![c] = e]
  BY <1>1 DEF NextItem, ShapeOK
<1>3. Stamped(c) \in SUBSET Row
  BY <1>1 DEF Stamped, CallerRecord
<1>4. /\ p \in CallerRecord /\ p.request = q /\ p.due = due /\ p.todo = {}
      /\ p.held = process[c].held /\ p.items = process[c].items /\ p.stamped = Stamped(c)
  BY <1>1, <1>3 DEF CallerRecord
<1>5. n \in due /\ due \subseteq Nat
  <2>1. DOMAIN q \subseteq Nat
    BY Entries
  <2>2. \E k \in due : \A m \in due : k <= m
    BY <1>1, <2>1, LeastNumber
  <2> QED
    BY <2>1, <2>2 DEF FirstDue
<1> HIDE DEF p, n
<1>6. n \in Nat /\ q[n][1] \in Item
  BY <1>5, Entries
<1>7. /\ e \in CallerRecord
      /\ e.request = q /\ e.next = n /\ e.due = due \ {n} /\ e.stamped = Stamped(c)
      /\ e.held = process[c].held /\ e.items = process[c].items
      /\ \/ q[n][2] = Cancel /\ e.phase = "SELECT" /\ e.todo = {}
         \/ q[n][2] # Cancel /\ e.phase = "BLOCK" /\ e.todo = Open(q[n][1])
  <2>1. TablesOK /\ p.request[n][1] \in Item
    BY <1>4, <1>6 DEF ShapeOK
  <2> QED
    BY <1>4, <1>6, <2>1, EnterDoes
<1> HIDE DEF e
<1>8. process' \in [Caller -> CallerRecord] /\ process'[c] = e /\ OtherCallersKeep(c)
  BY <1>2, <1>7, Replaced DEF ShapeOK
<1>9. CallerMoves(c)
  BY <1>8 DEF CallerMoves, NextItem
<1>10. Entered(c, q, n, due \ {n})
  BY <1>7, <1>8 DEF Entered
<1>11. process'[c].todo = {} \/ process'[c].todo = Open(ItemOf(c))'
  <2>1. (\A i : Open(i)' = Open(i)) /\ ItemOf(c)' = q[n][1]
    BY <1>7, <1>8 DEF NextItem, Open, ItemOf, tables
  <2> QED
    BY <1>7, <1>8, <2>1
<1> QED
  BY <1>5, <1>7, <1>8, <1>9, <1>10, <1>11

LEMMA NextRowIs ==
  ASSUME NEW c \in Caller, process[c].todo \subseteq Row, process[c].todo # {}
  PROVE  NextRow(c) \in process[c].todo
<1> DEFINE T == process[c].todo
           N == {r[2] : r \in T}
<1>1. N \subseteq Nat /\ N # {}
  BY Rows
<1>2. PICK n \in N : \A m \in N : n <= m
  BY <1>1, LeastNumber
<1>3. \E r \in T : \A s \in T : r[2] <= s[2]
  BY <1>2
<1> QED
  BY <1>3 DEF NextRow

LEMMA LockRowDoes ==
  ASSUME NEW c \in Caller, ShapeOK, LockRow(c)
  PROVE  /\ CallerMoves(c) /\ SameCall(c) /\ ~Waits(c)
         /\ process'[c].phase = process[c].phase /\ process[c].phase \in {"BLOCK", "LOCK"}
         /\ process'[c].items = process[c].items
         /\ CallerWants(c) = {<<"row", NextRow(c)>>} /\ NextRow(c) \in process[c].todo
         /\ process'[c].todo = process[c].todo \ {NextRow(c)}
         /\ \/ /\ state[NextRow(c)] \in Nonterminal
               /\ process'[c].held = process[c].held \cup {NextRow(c)}
            \/ /\ state[NextRow(c)] \notin Nonterminal
               /\ process'[c].held = process[c].held
<1> DEFINE r == NextRow(c)
           held == IF state[r] \in Nonterminal THEN process[c].held \cup {r} ELSE process[c].held
           new == [process[c] EXCEPT !.todo = @ \ {r}, !.held = held]
<1>1. process[c] \in CallerRecord /\ process[c].todo # {} /\ process[c].phase \in {"BLOCK", "LOCK"}
  BY DEF ShapeOK, LockRow, Locking
<1>2. process[c].todo \subseteq Row
  BY <1>1 DEF CallerRecord
<1>3. r \in process[c].todo /\ r \in Row
  BY <1>1, <1>2, NextRowIs
<1>4. process' = [process EXCEPT ![c] = new]
  BY <1>1 DEF LockRow, ShapeOK
<1> HIDE DEF r
<1>5. held \in SUBSET Row
  BY <1>1, <1>3 DEF CallerRecord
<1> HIDE DEF held
<1>6. /\ new \in CallerRecord
      /\ new.phase = process[c].phase /\ new.items = process[c].items
      /\ new.request = process[c].request /\ new.next = process[c].next
      /\ new.due = process[c].due /\ new.stamped = process[c].stamped
      /\ new.todo = process[c].todo \ {r} /\ new.held = held
  BY <1>1, <1>5 DEF CallerRecord
<1> HIDE DEF new
<1>7. process' \in [Caller -> CallerRecord] /\ process'[c] = new /\ OtherCallersKeep(c)
  BY <1>4, <1>6, Replaced DEF ShapeOK
<1>8. CallerMoves(c) /\ SameCall(c)
  BY <1>6, <1>7 DEF CallerMoves, SameCall, LockRow
<1>9. CallerWants(c) = {<<"row", r>>} /\ ~Waits(c)
  BY DEF CallerWants, LockRow, r
<1> QED
  BY <1>1, <1>3, <1>6, <1>7, <1>8, <1>9 DEF held, r

LEMMA LockItemDoes ==
  ASSUME NEW c \in Caller, ShapeOK, LockItem(c), ItemOf(c) \in Item
  PROVE  /\ CallerMoves(c) /\ SameCall(c) /\ ~Waits(c)
         /\ process'[c].phase = "SELECT" /\ process[c].phase = "BLOCK"
         /\ process'[c].items = process[c].items \cup {ItemOf(c)}
         /\ CallerWants(c) = {<<"item", ItemOf(c)>>, <<"share", ItemOf(c)>>}
         /\ process[c].todo = {} /\ process'[c].todo = {}
         /\ process'[c].held = process[c].held
<1> DEFINE i == ItemOf(c)
           new == [process[c] EXCEPT !.phase = "SELECT", !.items = @ \cup {i}]
<1>1. process[c] \in CallerRecord /\ process[c].todo = {} /\ process[c].phase = "BLOCK"
  BY DEF ShapeOK, LockItem, AtItem
<1>2. process' = [process EXCEPT ![c] = new]
  BY <1>1 DEF LockItem, ShapeOK
<1> HIDE DEF i
<1>3. i \in Item
  BY DEF i
<1>4. /\ new \in CallerRecord
      /\ new.phase = "SELECT" /\ new.items = process[c].items \cup {i}
      /\ new.request = process[c].request /\ new.next = process[c].next
      /\ new.due = process[c].due /\ new.stamped = process[c].stamped
      /\ new.todo = process[c].todo /\ new.held = process[c].held
  BY <1>1, <1>3 DEF CallerRecord
<1> HIDE DEF new
<1>5. process' \in [Caller -> CallerRecord] /\ process'[c] = new /\ OtherCallersKeep(c)
  BY <1>2, <1>4, Replaced DEF ShapeOK
<1>6. CallerMoves(c) /\ SameCall(c)
  BY <1>4, <1>5 DEF CallerMoves, SameCall, LockItem
<1>7. CallerWants(c) = {<<"item", i>>, <<"share", i>>} /\ ~Waits(c)
  BY <1>1 DEF CallerWants, LockItem, i, Locking
<1> QED
  BY <1>1, <1>4, <1>5, <1>6, <1>7 DEF i

LEMMA SelectDoes ==
  ASSUME NEW c \in Caller, ShapeOK, Select(c)
  PROVE  /\ CallerMoves(c) /\ SameCall(c)
         /\ process'[c].phase = "LOCK" /\ process[c].phase = "SELECT"
         /\ process'[c].items = process[c].items /\ process'[c].held = process[c].held
         /\ process'[c].todo = Open(ItemOf(c))
<1> DEFINE open == Open(ItemOf(c))
           new == [process[c] EXCEPT !.phase = "LOCK", !.todo = open]
<1>1. process[c] \in CallerRecord /\ process[c].phase = "SELECT"
  BY DEF ShapeOK, Select
<1>2. process' = [process EXCEPT ![c] = new]
  BY <1>1 DEF Select, ShapeOK
<1>3. open \in SUBSET Row
  BY DEF Open
<1> HIDE DEF open
<1>4. /\ new \in CallerRecord
      /\ new.phase = "LOCK" /\ new.items = process[c].items
      /\ new.request = process[c].request /\ new.next = process[c].next
      /\ new.due = process[c].due /\ new.stamped = process[c].stamped
      /\ new.todo = open /\ new.held = process[c].held
  BY <1>1, <1>3 DEF CallerRecord
<1> HIDE DEF new
<1>5. process' \in [Caller -> CallerRecord] /\ process'[c] = new /\ OtherCallersKeep(c)
  BY <1>2, <1>4, Replaced DEF ShapeOK
<1>6. CallerMoves(c) /\ SameCall(c)
  BY <1>4, <1>5 DEF CallerMoves, SameCall, Select
<1> QED
  BY <1>1, <1>4, <1>5, <1>6 DEF open

LEMMA ReselectDoes ==
  ASSUME NEW c \in Caller, ShapeOK, Reselect(c)
  PROVE  /\ CallerMoves(c) /\ SameCall(c)
         /\ process'[c].phase = "SELECT" /\ process[c].phase = "LOCK"
         /\ process'[c].items = process[c].items /\ process'[c].held = process[c].held
         /\ process'[c].todo = {}
<1> DEFINE new == [process[c] EXCEPT !.phase = "SELECT"]
<1>1. process[c] \in CallerRecord /\ process[c].phase = "LOCK" /\ process[c].todo = {}
  BY DEF ShapeOK, Reselect
<1>2. process' = [process EXCEPT ![c] = new]
  BY <1>1 DEF Reselect, ShapeOK
<1>4. /\ new \in CallerRecord
      /\ new.phase = "SELECT" /\ new.items = process[c].items
      /\ new.request = process[c].request /\ new.next = process[c].next
      /\ new.due = process[c].due /\ new.stamped = process[c].stamped
      /\ new.todo = {} /\ new.held = process[c].held
  BY <1>1 DEF CallerRecord
<1> HIDE DEF new
<1>5. process' \in [Caller -> CallerRecord] /\ process'[c] = new /\ OtherCallersKeep(c)
  BY <1>2, <1>4, Replaced DEF ShapeOK
<1>6. CallerMoves(c) /\ SameCall(c)
  BY <1>4, <1>5 DEF CallerMoves, SameCall, Reselect
<1> QED
  BY <1>1, <1>4, <1>5, <1>6

LEMMA EndDoes ==
  ASSUME NEW c \in Caller, ShapeOK, process' = [process EXCEPT ![c] = Idle]
  PROVE  /\ process' \in [Caller -> CallerRecord] /\ process'[c] = Idle
         /\ OtherCallersKeep(c)
BY Blank, Replaced DEF ShapeOK
-----------------------------------------------------------------------------
(***************************************************************************)
(* What each statement of a handoff does to its transaction.               *)
(***************************************************************************)

HandoffMoves(h) ==
  /\ UNCHANGED <<tables, process>>
  /\ handoff' \in [Row -> HandoffRecord]
  /\ OtherHandoffsKeep(h)

Raised == [NoHandoff EXCEPT !.phase = "RAISED"]

LEMMA ReplacedHandoff ==
  ASSUME NEW h \in Row, NEW new \in HandoffRecord,
         handoff \in [Row -> HandoffRecord],
         handoff' = [handoff EXCEPT ![h] = new]
  PROVE  /\ handoff' \in [Row -> HandoffRecord] /\ handoff'[h] = new
         /\ OtherHandoffsKeep(h)
BY DEF OtherHandoffsKeep

LEMMA RaisedIs ==
  /\ Raised \in HandoffRecord /\ Raised.phase = "RAISED"
  /\ Raised.todo = {} /\ Raised.now = None /\ Raised.seen = None /\ Raised.written = {}
  /\ NoHandoff.phase = "NONE"
  /\ NoHandoff.todo = {} /\ NoHandoff.now = None /\ NoHandoff.seen = None /\ NoHandoff.written = {}
BY Blank DEF Raised, NoHandoff, HandoffRecord

LEMMA ReturnDoes ==
  ASSUME NEW h \in Row, ShapeOK, Return(h)
  PROVE  /\ handoff' \in [Row -> HandoffRecord] /\ handoff'[h] = NoHandoff
         /\ OtherHandoffsKeep(h)
BY Blank, ReplacedHandoff DEF ShapeOK, Return

LEMMA RaiseDoes ==
  ASSUME NEW h \in Row, ShapeOK, Raise(h)
  PROVE  /\ handoff' \in [Row -> HandoffRecord] /\ handoff'[h] = Raised
         /\ OtherHandoffsKeep(h)
BY RaisedIs, ReplacedHandoff DEF ShapeOK, Raise, Raised

LEMMA HandoffBeginDoes ==
  ASSUME NEW h \in Row, ShapeOK, HandoffBegin(h)
  PROVE  /\ HandoffMoves(h)
         /\ handoff[h].phase = "NONE" /\ state[h] = "ADMITTED"
         /\ handoff'[h].phase = "BEGUN"
         /\ handoff'[h].todo = handoff[h].todo /\ handoff'[h].now = handoff[h].now
         /\ handoff'[h].seen = handoff[h].seen /\ handoff'[h].written = handoff[h].written
<1> DEFINE new == [handoff[h] EXCEPT !.phase = "BEGUN"]
<1>1. handoff[h] \in HandoffRecord
  BY DEF ShapeOK
<1>2. handoff' = [handoff EXCEPT ![h] = new]
  BY <1>1 DEF HandoffBegin, ShapeOK
<1>3. /\ new \in HandoffRecord /\ new.phase = "BEGUN"
      /\ new.todo = handoff[h].todo /\ new.now = handoff[h].now
      /\ new.seen = handoff[h].seen /\ new.written = handoff[h].written
  BY <1>1 DEF HandoffRecord
<1> HIDE DEF new
<1>4. handoff' \in [Row -> HandoffRecord] /\ handoff'[h] = new /\ OtherHandoffsKeep(h)
  BY <1>2, <1>3, ReplacedHandoff DEF ShapeOK
<1> QED
  BY <1>3, <1>4 DEF HandoffBegin, HandoffMoves

\* The execution fails, and its completion is over.
FailsNow(h) ==
  /\ state[h] = "ADMITTED"
  /\ state' = [state EXCEPT ![h] = "FAILED"]
  /\ queued' = [queued EXCEPT ![h] = None]
  /\ UNCHANGED <<priority, wanted, process>>
  /\ handoff' \in [Row -> HandoffRecord] /\ handoff'[h] = NoHandoff
  /\ OtherHandoffsKeep(h)

LEMMA HandoffLockDoes ==
  ASSUME NEW h \in Row, ShapeOK, HandoffLock(h)
  PROVE  /\ handoff[h].phase = "BEGUN"
         /\ HandoffWants(h) = {<<"row", h>>} /\ ~Waits(h)
         /\ \/ HandoffMoves(h) /\ handoff'[h] \in {NoHandoff, Raised}
            \/ FailsNow(h)
            \/ /\ HandoffMoves(h) /\ state[h] = "ADMITTED"
               /\ handoff'[h].phase = "INSERT"
               /\ handoff'[h].todo \subseteq Above(h)
               /\ handoff'[h].now = handoff[h].now /\ handoff'[h].seen = handoff[h].seen
               /\ handoff'[h].written = handoff[h].written
<1>1. handoff[h] \in HandoffRecord /\ handoff[h].phase = "BEGUN"
  BY DEF ShapeOK, HandoffLock
<1>2. HandoffWants(h) = {<<"row", h>>} /\ ~Waits(h) /\ process' = process
  BY <1>1 DEF HandoffWants, HandoffLock
<1>3. CASE Return(h) /\ UNCHANGED tables
  BY <1>1, <1>2, <1>3, ReturnDoes DEF HandoffMoves
<1>4. CASE Raise(h) /\ UNCHANGED tables
  BY <1>1, <1>2, <1>4, RaiseDoes DEF HandoffMoves
<1>5. CASE /\ state[h] = "ADMITTED"
           /\ state' = [state EXCEPT ![h] = "FAILED"]
           /\ queued' = [queued EXCEPT ![h] = None]
           /\ Return(h) /\ UNCHANGED <<priority, wanted>>
  BY <1>1, <1>2, <1>5, ReturnDoes DEF FailsNow
<1>6. ASSUME state[h] = "ADMITTED", UNCHANGED tables, NEW succ \in SUBSET Above(h),
             handoff' = [handoff EXCEPT ![h].phase = "INSERT", ![h].todo = succ]
      PROVE  /\ HandoffMoves(h) /\ handoff'[h].phase = "INSERT"
             /\ handoff'[h].todo = succ
             /\ handoff'[h].now = handoff[h].now /\ handoff'[h].seen = handoff[h].seen
             /\ handoff'[h].written = handoff[h].written
  <2> DEFINE new == [handoff[h] EXCEPT !.phase = "INSERT", !.todo = succ]
  <2>1. handoff' = [handoff EXCEPT ![h] = new]
    BY <1>1, <1>6 DEF ShapeOK
  <2>2. succ \in SUBSET Row
    BY Higher
  <2>3. /\ new \in HandoffRecord /\ new.phase = "INSERT" /\ new.todo = succ
        /\ new.now = handoff[h].now
        /\ new.seen = handoff[h].seen /\ new.written = handoff[h].written
    BY <1>1, <2>2 DEF HandoffRecord
  <2> HIDE DEF new
  <2>4. handoff' \in [Row -> HandoffRecord] /\ handoff'[h] = new /\ OtherHandoffsKeep(h)
    BY <2>1, <2>3, ReplacedHandoff DEF ShapeOK
  <2> QED
    BY <1>2, <1>6, <2>3, <2>4 DEF HandoffMoves
<1> QED
  BY <1>1, <1>2, <1>3, <1>4, <1>5, <1>6 DEF HandoffLock

LEMMA ReadItemDoes ==
  ASSUME NEW h \in Row, ShapeOK, ReadItem(h), h[1] \in Item
  PROVE  /\ HandoffMoves(h)
         /\ handoff[h].phase = "INSERT" /\ handoff'[h].phase = "INSERT"
         /\ handoff[h].now = None
         /\ \E s \in handoff[h].todo :
              handoff'[h].now = s /\ handoff'[h].todo = handoff[h].todo \ {s}
         /\ handoff'[h].seen = wanted[h[1]] /\ handoff'[h].written = handoff[h].written
<1>1. handoff[h] \in HandoffRecord /\ handoff[h].phase = "INSERT" /\ handoff[h].now = None
  BY DEF ShapeOK, ReadItem
<1>2. PICK s \in handoff[h].todo :
        handoff' = [handoff EXCEPT ![h].todo = @ \ {s}, ![h].now = s, ![h].seen = wanted[h[1]]]
  BY DEF ReadItem
<1> DEFINE want == wanted[h[1]]
           new == [handoff[h] EXCEPT !.todo = @ \ {s}, !.now = s, !.seen = want]
<1>3. handoff' = [handoff EXCEPT ![h] = new]
  BY <1>1, <1>2 DEF ShapeOK
<1>4. want \in Level \cup {None} /\ s \in Row
  BY <1>1 DEF ShapeOK, TablesOK, HandoffRecord
<1> HIDE DEF want
<1>5. /\ new \in HandoffRecord /\ new.phase = "INSERT" /\ new.now = s
      /\ new.todo = handoff[h].todo \ {s} /\ new.seen = want
      /\ new.written = handoff[h].written
  BY <1>1, <1>4 DEF HandoffRecord
<1> HIDE DEF new
<1>6. handoff' \in [Row -> HandoffRecord] /\ handoff'[h] = new /\ OtherHandoffsKeep(h)
  BY <1>3, <1>5, ReplacedHandoff DEF ShapeOK
<1>7. HandoffMoves(h)
  BY <1>6 DEF HandoffMoves, ReadItem
<1> QED
  BY <1>1, <1>5, <1>6, <1>7 DEF want

LEMMA WriteSuccessorDoes ==
  ASSUME NEW h \in Row, ShapeOK, WriteSuccessor(h), handoff[h].seen \in Level
  PROVE  LET s == handoff[h].now IN
         /\ HandoffMoves(h) /\ ~Waits(h)
         /\ handoff[h].phase = "INSERT" /\ handoff'[h].phase = "INSERT"
         /\ s \in Row /\ handoff'[h].now = None /\ handoff'[h].todo = handoff[h].todo
         /\ \/ /\ priority[s] = handoff[h].seen
               /\ handoff'[h].written = handoff[h].written
            \/ /\ priority[s] # handoff[h].seen
               /\ handoff'[h].written = handoff[h].written \cup {<<s, handoff[h].seen>>}
               /\ HandoffWants(h) =
                    IF state[s] = "ABSENT" THEN {<<"key", s>>, <<"item", s[1]>>}
                    ELSE {<<"row", s>>}
<1> DEFINE s == handoff[h].now
           written == IF priority[s] = handoff[h].seen THEN handoff[h].written
                      ELSE handoff[h].written \cup {<<s, handoff[h].seen>>}
           new == [handoff[h] EXCEPT !.now = None, !.seen = None, !.written = written]
<1>1. /\ handoff[h] \in HandoffRecord /\ handoff[h].phase = "INSERT" /\ ~Waits(h)
      /\ s # None
  BY DEF ShapeOK, WriteSuccessor, Inserting
<1>2. s \in Row
  BY <1>1 DEF HandoffRecord
<1>3. handoff' = [handoff EXCEPT ![h] = new]
  BY <1>1 DEF ShapeOK, WriteSuccessor
<1>4. written \in SUBSET (Row \X Level)
  <2>1. handoff[h].written \in SUBSET (Row \X Level) /\ <<s, handoff[h].seen>> \in Row \X Level
    BY <1>1, <1>2 DEF HandoffRecord
  <2> QED
    BY <2>1
<1> HIDE DEF written
<1>5. /\ new \in HandoffRecord /\ new.phase = "INSERT" /\ new.now = None
      /\ new.todo = handoff[h].todo /\ new.written = written
  BY <1>1, <1>4 DEF HandoffRecord
<1> HIDE DEF new
<1>6. handoff' \in [Row -> HandoffRecord] /\ handoff'[h] = new /\ OtherHandoffsKeep(h)
  BY <1>3, <1>5, ReplacedHandoff DEF ShapeOK
<1>7. HandoffMoves(h)
  BY <1>6 DEF HandoffMoves, WriteSuccessor
<1>8. HandoffWants(h) = IF state[s] = "ABSENT" THEN {<<"key", s>>, <<"item", s[1]>>}
                        ELSE IF priority[s] = handoff[h].seen THEN {} ELSE {<<"row", s>>}
  BY <1>1 DEF HandoffWants, Inserting
<1> QED
  BY <1>1, <1>2, <1>5, <1>6, <1>7, <1>8 DEF written
-----------------------------------------------------------------------------
(***************************************************************************)
(* The invariant.                                                          *)
(***************************************************************************)

\* What exists is of a known item, and within its stages.
Known ==
  \A r \in Row : state[r] # "ABSENT" => r[2] <= Last[r[1]] /\ wanted[r[1]] # None

\* A transaction locks what is of the items of its request, one after another.
Plan(c) ==
  /\ Request(process[c].request)
  /\ process[c].due \subseteq DOMAIN process[c].request
  /\ process[c].next \notin process[c].due
  /\ process[c].stamped \subseteq process[c].held
  /\ process[c].phase = "IDLE" =>
       /\ process[c].held = {} /\ process[c].items = {} /\ process[c].todo = {}
       /\ process[c].request = <<>>
  /\ process[c].phase # "IDLE" => process[c].next \in DOMAIN process[c].request
  /\ process[c].phase = "BLOCK" => Asked(c) # Cancel
  /\ \A r \in process[c].todo : r[1] = ItemOf(c)
  /\ \A r \in process[c].held : r[1] \in process[c].items \cup {ItemOf(c)}
  /\ process[c].phase \in {"SELECT", "LOCK"} /\ Asked(c) # Cancel =>
       ItemOf(c) \in process[c].items
  /\ \A i \in process[c].items : \E n \in DOMAIN process[c].request \ process[c].due :
       process[c].request[n][1] = i /\ process[c].request[n][2] # Cancel

\* What it has locked is open still, and all there is of the items it is done with.
Grip(c) ==
  /\ \A n \in DOMAIN process[c].request : wanted[process[c].request[n][1]] # None
  /\ \A r \in process[c].held : state[r] \in Nonterminal
  /\ \A i \in process[c].items \ {ItemOf(c)} : Open(i) \subseteq process[c].held

\* A handoff that has locked its execution keeps it admitted, and writes above
\* it the priority that its item has to the end.
HandoffOK(h) ==
  /\ handoff[h].phase # "NONE" => state[h] # "ABSENT"
  /\ handoff[h].phase # "INSERT" =>
       handoff[h].todo = {} /\ handoff[h].now = None /\ handoff[h].written = {}
  /\ handoff[h].phase = "INSERT" =>
       /\ state[h] = "ADMITTED"
       /\ handoff[h].todo \subseteq Above(h)
       /\ handoff[h].now # None =>
            handoff[h].now \in Above(h) /\ handoff[h].seen = wanted[h[1]]
       /\ \A e \in handoff[h].written : e[1] \in Above(h) /\ e[2] = wanted[h[1]]

\* Locks exclude one another, save the shares of an item, which its own lock excludes.
HoldsInv ==
  \A p, q \in Process : p # q =>
    /\ \A x \in Holds(p) \cap Holds(q) : x[1] = "share"
    /\ \A i \in Item : <<"item", i>> \in Holds(p) => <<"share", i>> \notin Holds(q)

PriorityInv ==
  /\ ShapeOK
  /\ Known
  /\ \A c \in Caller : Plan(c) /\ Grip(c)
  /\ \A h \in Row : HandoffOK(h)
  /\ HoldsInv
  /\ PrioritiesAgree

-----------------------------------------------------------------------------
(***************************************************************************)
(* Locks.                                                                  *)
(***************************************************************************)

LEMMA CallerLocks ==
  ASSUME NEW c \in Caller
  PROVE  /\ c \in Process /\ Holds(c) = CallerHolds(c) /\ Wants(c) = CallerWants(c)
         /\ \A r : <<"row", r>> \in Holds(c) <=> r \in process[c].held
         /\ \A i : <<"item", i>> \in Holds(c) <=> i \in process[c].items
         /\ \A i : <<"share", i>> \notin Holds(c)
         /\ \A s : <<"key", s>> \notin Holds(c)
BY DEF Process, Holds, Wants, CallerHolds

LEMMA HandoffLocks ==
  ASSUME NEW h \in Row
  PROVE  /\ h \notin Caller /\ Holds(h) = HandoffHolds(h) /\ Wants(h) = HandoffWants(h)
         /\ handoff[h].phase # "INSERT" => Holds(h) = {}
         /\ handoff[h].phase = "INSERT" =>
              /\ \A r : <<"row", r>> \in Holds(h) <=> r = h \/ r \in Written(h) \ Added(h)
              /\ \A s : <<"key", s>> \in Holds(h) <=> s \in Added(h)
              /\ \A i : <<"share", i>> \in Holds(h) <=> i = h[1] /\ Added(h) # {}
              /\ \A i : <<"item", i>> \notin Holds(h)
BY PriorityAssumption DEF Holds, Wants, HandoffHolds

LEMMA Processes ==
  \A p \in Process : p \in Caller \/ (p \in Row /\ p \notin Caller /\ p[2] <= Last[p[1]])
BY PriorityAssumption DEF Process

\* A handoff at work is a process.
LEMMA AtWork ==
  ASSUME Known, NEW h \in Row, HandoffOK(h), handoff[h].phase # "NONE"
  PROVE  h \in Process
BY DEF Known, HandoffOK, Process

LEMMA WaitsForNobody ==
  ASSUME NEW p \in Process, ~Waits(p), NEW x \in Wants(p), NEW q \in Process, q # p
  PROVE  x \notin Holds(q)
BY DEF Waits, WaitsFor

\* Nothing goes wrong as long as one process takes what nobody else has.
LEMMA HoldsStep ==
  ASSUME HoldsInv, NEW p \in Process, NEW G,
         \A q \in Process \ {p} : Holds(q)' \subseteq Holds(q),
         Holds(p)' \subseteq Holds(p) \cup G,
         \A x \in G, q \in Process \ {p} : x \in Holds(q) => x[1] = "share",
         \A i \in Item, q \in Process \ {p} :
           /\ <<"item", i>> \in G => <<"share", i>> \notin Holds(q)
           /\ <<"share", i>> \in G => <<"item", i>> \notin Holds(q)
  PROVE  HoldsInv'
<1>1. Process' = Process
  BY DEF Process
<1> SUFFICES ASSUME NEW a \in Process, NEW b \in Process, a # b
             PROVE  /\ \A x \in Holds(a)' \cap Holds(b)' : x[1] = "share"
                    /\ \A i \in Item : <<"item", i>> \in Holds(a)' => <<"share", i>> \notin Holds(b)'
  BY <1>1, Zenon DEF HoldsInv
<1>2. /\ \A x \in Holds(a) \cap Holds(b) : x[1] = "share"
      /\ \A i \in Item : <<"item", i>> \in Holds(a) => <<"share", i>> \notin Holds(b)
  BY DEF HoldsInv
<1>3. CASE a = p
  <2>1. Holds(b)' \subseteq Holds(b) /\ Holds(a)' \subseteq Holds(a) \cup G /\ b \in Process \ {p}
    BY <1>3
  <2> QED
    BY <1>2, <1>3, <2>1
<1>4. CASE b = p
  <2>1. Holds(a)' \subseteq Holds(a) /\ Holds(b)' \subseteq Holds(b) \cup G /\ a \in Process \ {p}
    BY <1>4
  <2> QED
    BY <1>2, <1>4, <2>1
<1>5. CASE a # p /\ b # p
  <2>1. Holds(a)' \subseteq Holds(a) /\ Holds(b)' \subseteq Holds(b)
    BY <1>5
  <2> QED
    BY <1>2, <2>1
<1> QED
  BY <1>3, <1>4, <1>5

\* What the lock of a row means for others.
LEMMA Apart ==
  ASSUME PriorityInv
  PROVE  /\ \A c, d \in Caller : c # d =>
              /\ process[c].held \cap process[d].held = {}
              /\ process[c].items \cap process[d].items = {}
         /\ \A c \in Caller, h \in Row : handoff[h].phase = "INSERT" =>
              /\ h \notin process[c].held
              /\ (Written(h) \ Added(h)) \cap process[c].held = {}
              /\ Added(h) # {} => h[1] \notin process[c].items
         /\ \A h, k \in Row : h # k /\ handoff[h].phase = "INSERT" /\ handoff[k].phase = "INSERT" =>
              /\ k \notin Written(h) \ Added(h)
              /\ Added(h) \cap Added(k) = {}
<1>1. ASSUME NEW c \in Caller, NEW d \in Caller, c # d
      PROVE  /\ process[c].held \cap process[d].held = {}
             /\ process[c].items \cap process[d].items = {}
  <2>1. \A x \in Holds(c) \cap Holds(d) : x[1] = "share"
    BY <1>1, CallerLocks DEF PriorityInv, HoldsInv
  <2>2. \A r : ~(<<"row", r>> \in Holds(c) /\ <<"row", r>> \in Holds(d))
    BY <2>1
  <2>3. \A r : ~(<<"item", r>> \in Holds(c) /\ <<"item", r>> \in Holds(d))
    BY <2>1
  <2> QED
    BY <2>2, <2>3, CallerLocks
<1>2. ASSUME NEW c \in Caller, NEW h \in Row, handoff[h].phase = "INSERT"
      PROVE  /\ h \notin process[c].held
             /\ (Written(h) \ Added(h)) \cap process[c].held = {}
             /\ Added(h) # {} => h[1] \notin process[c].items
  <2>1. c \in Process /\ h \in Process /\ c # h
    BY <1>2, CallerLocks, HandoffLocks, AtWork DEF PriorityInv
  <2>2. /\ \A x \in Holds(c) \cap Holds(h) : x[1] = "share"
        /\ \A i \in Item : <<"item", i>> \in Holds(c) => <<"share", i>> \notin Holds(h)
    BY <2>1 DEF PriorityInv, HoldsInv
  <2>3. \A r : ~(<<"row", r>> \in Holds(c) /\ <<"row", r>> \in Holds(h))
    BY <2>2
  <2>4. h[1] \in Item
    BY Rows
  <2> QED
    BY <1>2, <2>2, <2>3, <2>4, CallerLocks, HandoffLocks
<1>3. ASSUME NEW h \in Row, NEW k \in Row, h # k,
             handoff[h].phase = "INSERT", handoff[k].phase = "INSERT"
      PROVE  k \notin Written(h) \ Added(h) /\ Added(h) \cap Added(k) = {}
  <2>1. h \in Process /\ k \in Process
    BY <1>3, AtWork DEF PriorityInv
  <2>2. \A x \in Holds(h) \cap Holds(k) : x[1] = "share"
    BY <1>3, <2>1 DEF PriorityInv, HoldsInv
  <2>3. \A r : ~(<<"row", r>> \in Holds(h) /\ <<"row", r>> \in Holds(k))
    BY <2>2
  <2>4. \A r : ~(<<"key", r>> \in Holds(h) /\ <<"key", r>> \in Holds(k))
    BY <2>2
  <2> QED
    BY <1>3, <2>3, <2>4, HandoffLocks
<1> QED
  BY <1>1, <1>2, <1>3, Zenon
-----------------------------------------------------------------------------
(***************************************************************************)
(* What a step of another process leaves as it is.                         *)
(***************************************************************************)

\* Executions do not vanish, and new ones are of known items.
Gentle ==
  /\ \A r \in Row : state[r] # "ABSENT" => state'[r] # "ABSENT"
  /\ \A i \in Item : wanted[i] # None => wanted'[i] # None
  /\ \A r \in Row : state'[r] # "ABSENT" =>
       state[r] # "ABSENT" \/ (r[2] <= Last[r[1]] /\ wanted'[r[1]] # None)

UntouchedCaller(c) ==
  /\ process'[c] = process[c]
  /\ \A r \in process[c].held : state'[r] \in Nonterminal
  /\ \A i \in process[c].items : Open(i)' \subseteq Open(i)

UntouchedHandoff(h) ==
  /\ handoff'[h].phase = handoff[h].phase /\ handoff'[h].todo = handoff[h].todo
  /\ handoff'[h].now = handoff[h].now /\ handoff'[h].seen = handoff[h].seen
  /\ handoff'[h].written = handoff[h].written
  /\ handoff[h].phase = "INSERT" =>
       /\ state'[h] = "ADMITTED" /\ wanted'[h[1]] = wanted[h[1]]
       /\ \A s \in Written(h) : state'[s] = "ABSENT" <=> state[s] = "ABSENT"

LEMMA GentleStep ==
  ASSUME Known, Gentle PROVE Known'
<1> SUFFICES ASSUME NEW r \in Row, state'[r] # "ABSENT"
             PROVE  r[2] <= Last[r[1]] /\ wanted'[r[1]] # None
  BY DEF Known
<1>1. r[1] \in Item
  BY Rows
<1> QED
  BY <1>1 DEF Gentle, Known

LEMMA CallerKept ==
  ASSUME NEW c \in Caller, ShapeOK, Plan(c), Grip(c), Gentle, UntouchedCaller(c)
  PROVE  Plan(c)' /\ Grip(c)' /\ Holds(c)' = Holds(c)
<1> DEFINE q == process[c].request
<1>1. process'[c] = process[c] /\ ItemOf(c)' = ItemOf(c) /\ Asked(c)' = Asked(c)
  BY DEF UntouchedCaller, ItemOf, Asked
<1>2. Plan(c)'
  BY <1>1 DEF Plan, Request
<1>3. Grip(c)'
  <2>1. \A n \in DOMAIN q : q[n][1] \in Item
    BY Entries DEF Plan
  <2>2. \A n \in DOMAIN q : wanted'[q[n][1]] # None
    BY <2>1 DEF Grip, Gentle
  <2>3. \A r \in process[c].held : state'[r] \in Nonterminal
    BY DEF UntouchedCaller
  <2>4. \A i \in process[c].items \ {ItemOf(c)} : Open(i)' \subseteq process[c].held
    BY DEF UntouchedCaller, Grip
  <2> QED
    BY <1>1, <2>2, <2>3, <2>4 DEF Grip, Nonterminal
<1>4. Holds(c)' = Holds(c)
  BY <1>1 DEF Holds, CallerHolds
<1> QED
  BY <1>2, <1>3, <1>4

LEMMA HandoffKept ==
  ASSUME NEW h \in Row, HandoffOK(h), Gentle, UntouchedHandoff(h)
  PROVE  HandoffOK(h)' /\ Holds(h)' = Holds(h)
<1>1. HandoffOK(h)'
  BY DEF HandoffOK, Gentle, UntouchedHandoff, Above
<1>2. Holds(h)' = Holds(h)
  <2>1. CASE handoff[h].phase # "INSERT"
    BY <2>1, HandoffLocks DEF UntouchedHandoff, Holds, HandoffHolds
  <2>2. CASE handoff[h].phase = "INSERT"
    <3>1. Written(h)' = Written(h)
      BY DEF Written, UntouchedHandoff
    <3>2. Added(h)' = Added(h)
      BY <2>2, <3>1 DEF Added, UntouchedHandoff
    <3> QED
      BY <2>2, <3>1, <3>2, HandoffLocks DEF UntouchedHandoff, Holds, HandoffHolds
  <2> QED
    BY <2>1, <2>2
<1> QED
  BY <1>1, <1>2

LEMMA CallerBystander ==
  ASSUME NEW c \in Caller, PriorityInv, process'[c] = process[c], UNCHANGED state
  PROVE  UntouchedCaller(c)
BY DEF UntouchedCaller, Open, Nonterminal, PriorityInv, Grip

LEMMA HandoffBystander ==
  ASSUME NEW h \in Row, PriorityInv, handoff'[h] = handoff[h], UNCHANGED <<state, wanted>>
  PROVE  UntouchedHandoff(h)
BY DEF UntouchedHandoff, PriorityInv, HandoffOK

LEMMA StillGentle ==
  ASSUME PriorityInv, UNCHANGED <<state, wanted>>
  PROVE  Gentle
BY DEF Gentle

\* A step of a caller that leaves the tables and takes G.
LEMMA CallerStep ==
  ASSUME PriorityInv, NEW c \in Caller, CallerMoves(c), Plan(c)', Grip(c)', NEW G,
         Holds(c)' \subseteq Holds(c) \cup G,
         \A x \in G, p \in Process \ {c} : x \in Holds(p) => x[1] = "share",
         \A i \in Item, p \in Process \ {c} :
           /\ <<"item", i>> \in G => <<"share", i>> \notin Holds(p)
           /\ <<"share", i>> \in G => <<"item", i>> \notin Holds(p)
  PROVE  PriorityInv'
<1>1. UNCHANGED <<state, priority, wanted, queued, handoff>>
  BY DEF CallerMoves, tables
<1>2. Gentle
  BY <1>1, StillGentle
<1>3. ShapeOK'
  BY <1>1 DEF ShapeOK, PriorityInv, CallerMoves, TablesOK, Nonterminal
<1>4. \A d \in Caller \ {c} : Plan(d)' /\ Grip(d)' /\ Holds(d)' = Holds(d)
  BY <1>1, <1>2, CallerBystander, CallerKept DEF CallerMoves, OtherCallersKeep, PriorityInv
<1>5. \A h \in Row : HandoffOK(h)' /\ Holds(h)' = Holds(h)
  BY <1>1, <1>2, HandoffBystander, HandoffKept DEF PriorityInv
<1>6. HoldsInv'
  <2>1. \A p \in Process \ {c} : Holds(p)' \subseteq Holds(p)
    BY <1>4, <1>5, Processes
  <2> QED
    BY <2>1, HoldsStep, CallerLocks DEF PriorityInv
<1>7. PrioritiesAgree'
  BY <1>1 DEF PriorityInv, PrioritiesAgree, Nonterminal
<1>8. Known'
  BY <1>2, GentleStep DEF PriorityInv
<1> QED
  BY <1>3, <1>4, <1>5, <1>6, <1>7, <1>8 DEF PriorityInv

LEMMA CallerRests ==
  ASSUME PriorityInv, NEW c \in Caller, CallerMoves(c), Plan(c)', Grip(c)',
         Holds(c)' \subseteq Holds(c)
  PROVE  PriorityInv'
<1> DEFINE G == {}
<1>1. /\ Holds(c)' \subseteq Holds(c) \cup G
      /\ \A x \in G, p \in Process \ {c} : x \in Holds(p) => x[1] = "share"
      /\ \A i \in Item, p \in Process \ {c} :
           /\ <<"item", i>> \in G => <<"share", i>> \notin Holds(p)
           /\ <<"share", i>> \in G => <<"item", i>> \notin Holds(p)
  OBVIOUS
<1> HIDE DEF G
<1> QED
  BY <1>1, CallerStep

\* A step of a handoff that leaves the tables and takes G.
LEMMA HandoffStep ==
  ASSUME PriorityInv, NEW h \in Row, h \in Process, HandoffMoves(h), HandoffOK(h)', NEW G,
         Holds(h)' \subseteq Holds(h) \cup G,
         \A x \in G, p \in Process \ {h} : x \in Holds(p) => x[1] = "share",
         \A i \in Item, p \in Process \ {h} :
           /\ <<"item", i>> \in G => <<"share", i>> \notin Holds(p)
           /\ <<"share", i>> \in G => <<"item", i>> \notin Holds(p)
  PROVE  PriorityInv'
<1>1. UNCHANGED <<state, priority, wanted, queued, process>>
  BY DEF HandoffMoves, tables
<1>2. Gentle
  BY <1>1, StillGentle
<1>3. ShapeOK'
  BY <1>1 DEF ShapeOK, PriorityInv, HandoffMoves, TablesOK, Nonterminal
<1>4. \A d \in Caller : Plan(d)' /\ Grip(d)' /\ Holds(d)' = Holds(d)
  BY <1>1, <1>2, CallerBystander, CallerKept DEF PriorityInv
<1>5. \A k \in Row \ {h} : HandoffOK(k)' /\ Holds(k)' = Holds(k)
  BY <1>1, <1>2, HandoffBystander, HandoffKept DEF PriorityInv, HandoffMoves, OtherHandoffsKeep
<1>6. HoldsInv'
  <2>1. \A p \in Process \ {h} : Holds(p)' \subseteq Holds(p)
    BY <1>4, <1>5, Processes
  <2> QED
    BY <2>1, HoldsStep DEF PriorityInv
<1>7. PrioritiesAgree'
  BY <1>1 DEF PriorityInv, PrioritiesAgree, Nonterminal
<1>8. Known'
  BY <1>2, GentleStep DEF PriorityInv
<1> QED
  BY <1>3, <1>4, <1>5, <1>6, <1>7, <1>8 DEF PriorityInv

LEMMA HandoffRests ==
  ASSUME PriorityInv, NEW h \in Row, h \in Process, HandoffMoves(h), HandoffOK(h)',
         Holds(h)' \subseteq Holds(h)
  PROVE  PriorityInv'
<1> DEFINE G == {}
<1>1. /\ Holds(h)' \subseteq Holds(h) \cup G
      /\ \A x \in G, p \in Process \ {h} : x \in Holds(p) => x[1] = "share"
      /\ \A i \in Item, p \in Process \ {h} :
           /\ <<"item", i>> \in G => <<"share", i>> \notin Holds(p)
           /\ <<"share", i>> \in G => <<"item", i>> \notin Holds(p)
  OBVIOUS
<1> HIDE DEF G
<1> QED
  BY <1>1, HandoffStep

-----------------------------------------------------------------------------
(***************************************************************************)
(* The statements of a caller before its commit.                           *)
(***************************************************************************)

\* A request that cancels has nothing else in it.
LEMMA CancelAlone ==
  ASSUME NEW c \in Caller, Plan(c), process[c].phase # "IDLE", Asked(c) = Cancel
  PROVE  process[c].due = {} /\ process[c].items = {}
<1> DEFINE q == process[c].request
           n == process[c].next
<1>1. n \in DOMAIN q /\ DOMAIN q = {n}
  BY DEF Plan, Request, Asked
<1>2. process[c].due = {}
  BY <1>1 DEF Plan
<1>3. process[c].items = {}
  BY <1>1 DEF Plan, Asked
<1> QED
  BY <1>2, <1>3

LEMMA InItem ==
  ASSUME NEW c \in Caller, Plan(c), process[c].phase # "IDLE"
  PROVE  ItemOf(c) \in Item /\ (Asked(c) # Cancel => Asked(c) \in Level)
BY Entries DEF Plan, ItemOf, Asked

LEMMA StartCallKeeps ==
  ASSUME PriorityInv, NEW c \in Caller, StartCall(c)
  PROVE  PriorityInv'
<1>1. ShapeOK
  BY DEF PriorityInv
<1>2. CallerMoves(c)
  BY <1>1, StartCallDoes
<1> DEFINE Starts(q, n) ==
             /\ \E due \in SUBSET (DOMAIN q \ {n}) : Entered(c, q, n, due)
             /\ process'[c].held = {} /\ process'[c].items = {}
             /\ process'[c].stamped = {} /\ process'[c].todo \subseteq Open(q[n][1])
             /\ \A m \in DOMAIN q : wanted[q[m][1]] # None
<1>10. \E q \in Requests[c] : \E n \in DOMAIN q : Starts(q, n)
  BY <1>1, StartCallDoes
<1>11. PICK q \in Requests[c] : \E n \in DOMAIN q : Starts(q, n)
  BY <1>10
<1>12. PICK n \in DOMAIN q : Starts(q, n)
  BY <1>11
<1>3. PICK due \in SUBSET (DOMAIN q \ {n}) :
        /\ Entered(c, q, n, due)
        /\ process'[c].held = {} /\ process'[c].items = {}
        /\ process'[c].stamped = {} /\ process'[c].todo \subseteq Open(q[n][1])
        /\ \A m \in DOMAIN q : wanted[q[m][1]] # None
  BY <1>12
<1>4. Request(q)
  BY Requested
<1>5. ItemOf(c)' = q[n][1] /\ Asked(c)' = q[n][2]
  BY <1>3 DEF Entered, ItemOf, Asked
<1>6. Plan(c)'
  <2>1. \A r \in process'[c].todo : r[1] = q[n][1]
    BY <1>3 DEF Open
  <2>2. Request(process'[c].request) /\ process'[c].due = due /\ process'[c].next = n
    BY <1>3, <1>4 DEF Entered
  <2>3. \/ process'[c].phase = "SELECT" /\ q[n][2] = Cancel
        \/ process'[c].phase = "BLOCK" /\ q[n][2] # Cancel
    BY <1>3 DEF Entered
  <2>4. process'[c].request = q
    BY <1>3 DEF Entered
  <2> QED
    BY <1>3, <1>5, <2>1, <2>2, <2>3, <2>4 DEF Plan, Request
<1>7. Grip(c)'
  BY <1>2, <1>3 DEF Grip, Entered, CallerMoves, tables
<1>8. Holds(c)' = {}
  BY <1>3 DEF Holds, CallerHolds
<1> QED
  BY <1>2, <1>6, <1>7, <1>8, CallerRests

LEMMA LockRowKeeps ==
  ASSUME PriorityInv, NEW c \in Caller, LockRow(c)
  PROVE  PriorityInv'
<1> DEFINE r == NextRow(c)
           G == {<<"row", r>>}
<1>1. ShapeOK /\ Plan(c) /\ Grip(c)
  BY DEF PriorityInv
<1>2. /\ CallerMoves(c) /\ SameCall(c) /\ ~Waits(c)
      /\ process'[c].phase = process[c].phase /\ process[c].phase \in {"BLOCK", "LOCK"}
      /\ process'[c].items = process[c].items
      /\ CallerWants(c) = {<<"row", r>>} /\ r \in process[c].todo
      /\ process'[c].todo = process[c].todo \ {r}
      /\ \/ state[r] \in Nonterminal /\ process'[c].held = process[c].held \cup {r}
         \/ state[r] \notin Nonterminal /\ process'[c].held = process[c].held
  BY <1>1, LockRowDoes
<1> HIDE DEF r
<1>3. ItemOf(c)' = ItemOf(c) /\ Asked(c)' = Asked(c) /\ r[1] = ItemOf(c)
  BY <1>1, <1>2 DEF SameCall, ItemOf, Asked, Plan
<1>4. Plan(c)'
  <2>1. process'[c].held \subseteq process[c].held \cup {r} /\ process[c].held \subseteq process'[c].held
    BY <1>2
  <2> QED
    BY <1>1, <1>2, <1>3, <2>1 DEF Plan, Request, SameCall
<1>5. Grip(c)'
  <2>1. UNCHANGED <<state, wanted>>
    BY <1>2 DEF CallerMoves, tables
  <2>2. \A i : Open(i)' = Open(i)
    BY <2>1 DEF Open, Nonterminal
  <2> QED
    BY <1>1, <1>2, <1>3, <2>1, <2>2 DEF Grip, SameCall, Nonterminal
<1>6. Holds(c)' \subseteq Holds(c) \cup G
  BY <1>2 DEF Holds, CallerHolds
<1>7. \A p \in Process \ {c} : <<"row", r>> \notin Holds(p)
  BY <1>2, CallerLocks, WaitsForNobody
<1> QED
  BY <1>2, <1>4, <1>5, <1>6, <1>7, CallerStep

LEMMA LockItemKeeps ==
  ASSUME PriorityInv, NEW c \in Caller, LockItem(c)
  PROVE  PriorityInv'
<1> DEFINE i == ItemOf(c)
           G == {<<"item", i>>}
<1>1. ShapeOK /\ Plan(c) /\ Grip(c) /\ process[c].phase = "BLOCK"
  BY DEF PriorityInv, LockItem, AtItem
<1>2. ItemOf(c) \in Item /\ Asked(c) # Cancel
  BY <1>1, InItem DEF Plan
<1>3. /\ CallerMoves(c) /\ SameCall(c) /\ ~Waits(c)
      /\ process'[c].phase = "SELECT"
      /\ process'[c].items = process[c].items \cup {i}
      /\ CallerWants(c) = {<<"item", i>>, <<"share", i>>}
      /\ process[c].todo = {} /\ process'[c].todo = {}
      /\ process'[c].held = process[c].held
  BY <1>1, <1>2, LockItemDoes
<1>4. /\ ItemOf(c)' = i /\ Asked(c)' = Asked(c)
      /\ i = process[c].request[process[c].next][1]
      /\ Asked(c) = process[c].request[process[c].next][2]
  BY <1>3 DEF SameCall, ItemOf, Asked
<1> HIDE DEF i
<1>5. Plan(c)'
  <2>1. \E n \in DOMAIN process[c].request \ process[c].due :
          process[c].request[n][1] = i /\ process[c].request[n][2] # Cancel
    BY <1>1, <1>2, <1>4 DEF Plan
  <2> QED
    BY <1>1, <1>3, <1>4, <2>1 DEF Plan, Request, SameCall, i
<1>6. Grip(c)'
  <2>1. UNCHANGED <<state, wanted>>
    BY <1>3 DEF CallerMoves, tables
  <2>2. \A j : Open(j)' = Open(j)
    BY <2>1 DEF Open, Nonterminal
  <2> QED
    BY <1>1, <1>3, <1>4, <2>1, <2>2 DEF Grip, SameCall, Nonterminal, i
<1>7. Holds(c)' \subseteq Holds(c) \cup G
  BY <1>3 DEF Holds, CallerHolds
<1>8. \A p \in Process \ {c} : <<"item", i>> \notin Holds(p) /\ <<"share", i>> \notin Holds(p)
  BY <1>3, CallerLocks, WaitsForNobody
<1>9. \A x \in G, p \in Process \ {c} : x \in Holds(p) => x[1] = "share"
  BY <1>8
<1>10. \A j \in Item, p \in Process \ {c} :
         /\ <<"item", j>> \in G => <<"share", j>> \notin Holds(p)
         /\ <<"share", j>> \in G => <<"item", j>> \notin Holds(p)
  BY <1>8
<1> HIDE DEF G
<1> QED
  BY <1>3, <1>5, <1>6, <1>7, <1>9, <1>10, CallerStep

LEMMA SelectKeeps ==
  ASSUME PriorityInv, NEW c \in Caller, Select(c) \/ Reselect(c)
  PROVE  PriorityInv'
<1>1. ShapeOK /\ Plan(c) /\ Grip(c)
  BY DEF PriorityInv
<1>2. /\ CallerMoves(c) /\ SameCall(c)
      /\ process'[c].phase \in {"SELECT", "LOCK"} /\ process[c].phase \in {"SELECT", "LOCK"}
      /\ process'[c].items = process[c].items /\ process'[c].held = process[c].held
      /\ process'[c].todo = {} \/ process'[c].todo = Open(ItemOf(c))
  BY <1>1, SelectDoes, ReselectDoes
<1>3. ItemOf(c)' = ItemOf(c) /\ Asked(c)' = Asked(c)
  BY <1>2 DEF SameCall, ItemOf, Asked
<1>4. Plan(c)'
  <2>1. \A r \in process'[c].todo : r[1] = ItemOf(c)
    BY <1>2 DEF Open
  <2> QED
    BY <1>1, <1>2, <1>3, <2>1 DEF Plan, Request, SameCall
<1>5. Grip(c)'
  <2>1. UNCHANGED <<state, wanted>>
    BY <1>2 DEF CallerMoves, tables
  <2>2. \A i : Open(i)' = Open(i)
    BY <2>1 DEF Open, Nonterminal
  <2> QED
    BY <1>1, <1>2, <1>3, <2>1, <2>2 DEF Grip, SameCall, Nonterminal
<1>6. Holds(c)' \subseteq Holds(c)
  BY <1>2 DEF Holds, CallerHolds
<1> QED
  BY <1>2, <1>4, <1>5, <1>6, CallerRests

LEMMA NextItemKeeps ==
  ASSUME PriorityInv, NEW c \in Caller, NextItem(c)
  PROVE  PriorityInv'
<1> DEFINE q == process[c].request
           due == process[c].due
<1>1. /\ ShapeOK /\ Plan(c) /\ Grip(c) /\ process[c].phase = "LOCK"
      /\ due # {} /\ Open(ItemOf(c)) \subseteq process[c].held
  BY DEF PriorityInv, NextItem, AllLocked
<1>2. Request(q) /\ due \subseteq DOMAIN q
  BY <1>1 DEF Plan
<1>3. PICK n \in due : Entered(c, q, n, due \ {n})
  BY <1>1, <1>2, NextItemDoes
<1>4. /\ CallerMoves(c)
      /\ process'[c].held = process[c].held /\ process'[c].items = process[c].items
      /\ process'[c].stamped = Stamped(c)
      /\ process'[c].todo = {} \/ process'[c].todo = Open(ItemOf(c))'
  BY <1>1, <1>2, NextItemDoes
<1>5. ItemOf(c) \in process[c].items
  BY <1>1, CancelAlone DEF Plan
<1>6. ItemOf(c)' = q[n][1] /\ Asked(c)' = q[n][2]
  BY <1>3 DEF Entered, ItemOf, Asked
<1>7. Plan(c)'
  <2>1. \A r \in process'[c].todo : r[1] = ItemOf(c)'
    BY <1>4 DEF Open
  <2>2. Stamped(c) \subseteq process[c].held
    BY <1>1 DEF Stamped, Plan
  <2>3. /\ process'[c].request = q /\ process'[c].next = n /\ process'[c].due = due \ {n}
        /\ \/ process'[c].phase = "SELECT" /\ q[n][2] = Cancel
           \/ process'[c].phase = "BLOCK" /\ q[n][2] # Cancel
    BY <1>3 DEF Entered
  <2>4. \A r \in process[c].held : r[1] \in process[c].items
    BY <1>1, <1>5 DEF Plan
  <2>5. \A i \in process[c].items : \E m \in DOMAIN q \ (due \ {n}) : q[m][1] = i /\ q[m][2] # Cancel
    BY <1>1 DEF Plan
  <2> QED
    BY <1>2, <1>4, <1>6, <2>1, <2>2, <2>3, <2>4, <2>5 DEF Plan, Request
<1>8. Grip(c)'
  <2>1. UNCHANGED <<state, wanted>>
    BY <1>4 DEF CallerMoves, tables
  <2>2. \A i : Open(i)' = Open(i)
    BY <2>1 DEF Open, Nonterminal
  <2>3. process'[c].request = q
    BY <1>3 DEF Entered
  <2> QED
    BY <1>1, <1>4, <2>1, <2>2, <2>3 DEF Grip, Nonterminal
<1>9. Holds(c)' \subseteq Holds(c)
  BY <1>4 DEF Holds, CallerHolds
<1> QED
  BY <1>4, <1>7, <1>8, <1>9, CallerRests

\* A transaction that ends leaves nothing behind.
LEMMA Ended ==
  ASSUME NEW c \in Caller, process'[c] = Idle
  PROVE  Plan(c)' /\ Grip(c)' /\ Holds(c)' = {}
<1>1. <<>> \in Seq(Entry) /\ DOMAIN <<>> = {}
  OBVIOUS
<1>2. Plan(c)'
  BY <1>1 DEF Plan, Idle, Request
<1>3. Grip(c)'
  BY <1>1 DEF Grip, Idle
<1>4. Holds(c)' = {}
  BY DEF Holds, CallerHolds, Idle
<1> QED
  BY <1>2, <1>3, <1>4

LEMMA CallerAbortKeeps ==
  ASSUME PriorityInv, NEW c \in Caller, process' = [process EXCEPT ![c] = Idle],
         UNCHANGED <<tables, handoff>>
  PROVE  PriorityInv'
<1>1. process'[c] = Idle /\ CallerMoves(c)
  BY EndDoes DEF PriorityInv, CallerMoves
<1> QED
  BY <1>1, Ended, CallerRests
-----------------------------------------------------------------------------
(***************************************************************************)
(* The statements of a handoff before its commit.                          *)
(***************************************************************************)

LEMMA HandoffEnded ==
  ASSUME NEW h \in Row, handoff'[h] \in {NoHandoff, Raised},
         handoff'[h] = NoHandoff \/ state'[h] # "ABSENT"
  PROVE  HandoffOK(h)' /\ Holds(h)' = {}
<1>1. HandoffOK(h)'
  BY RaisedIs DEF HandoffOK
<1>2. Holds(h)' = {}
  BY RaisedIs, PriorityAssumption DEF Holds, HandoffHolds
<1> QED
  BY <1>1, <1>2

LEMMA HandoffEndKeeps ==
  ASSUME PriorityInv, NEW h \in Row, handoff[h].phase # "NONE", HandoffMoves(h),
         handoff'[h] \in {NoHandoff, Raised}
  PROVE  PriorityInv'
<1>1. h \in Process
  BY AtWork DEF PriorityInv
<1>2. state'[h] # "ABSENT"
  BY DEF PriorityInv, HandoffOK, HandoffMoves, tables
<1> QED
  BY <1>1, <1>2, HandoffEnded, HandoffRests

LEMMA RaiseKeeps ==
  ASSUME PriorityInv, NEW h \in Row, handoff[h].phase # "NONE", Raise(h),
         UNCHANGED <<tables, process>>
  PROVE  PriorityInv'
<1>1. HandoffMoves(h) /\ handoff'[h] = Raised
  BY RaiseDoes DEF HandoffMoves, PriorityInv
<1> QED
  BY <1>1, HandoffEndKeeps

LEMMA HandoffBeginKeeps ==
  ASSUME PriorityInv, NEW h \in Row, HandoffBegin(h)
  PROVE  PriorityInv'
<1>1. /\ HandoffMoves(h)
      /\ handoff[h].phase = "NONE" /\ state[h] = "ADMITTED"
      /\ handoff'[h].phase = "BEGUN"
      /\ handoff'[h].todo = handoff[h].todo /\ handoff'[h].now = handoff[h].now
      /\ handoff'[h].seen = handoff[h].seen /\ handoff'[h].written = handoff[h].written
  BY HandoffBeginDoes DEF PriorityInv
<1>2. h \in Process
  BY <1>1 DEF PriorityInv, Known, Process
<1>3. HandoffOK(h)'
  BY <1>1 DEF PriorityInv, HandoffOK, HandoffMoves, tables
<1>4. Holds(h)' = {}
  BY <1>1, PriorityAssumption DEF Holds, HandoffHolds
<1> QED
  BY <1>1, <1>2, <1>3, <1>4, HandoffRests

\* The execution has been locked, and what it hands on to is to be written.
LEMMA InsertBegins ==
  ASSUME PriorityInv, NEW h \in Row, handoff[h].phase = "BEGUN", HandoffMoves(h),
         HandoffWants(h) = {<<"row", h>>}, ~Waits(h), state[h] = "ADMITTED",
         handoff'[h].phase = "INSERT", handoff'[h].todo \subseteq Above(h),
         handoff'[h].now = handoff[h].now, handoff'[h].seen = handoff[h].seen,
         handoff'[h].written = handoff[h].written
  PROVE  PriorityInv'
<1> DEFINE G == {<<"row", h>>}
<1>1. h \in Process /\ HandoffOK(h)
  BY AtWork DEF PriorityInv
<1>2. handoff[h].now = None /\ handoff[h].written = {}
  BY <1>1 DEF HandoffOK
<1>3. HandoffOK(h)'
  BY <1>2 DEF HandoffOK, HandoffMoves, tables, Above
<1>4. Holds(h)' = {<<"row", h>>}
  <2>1. Written(h)' = {} /\ Added(h)' = {}
    BY <1>2 DEF Written, Added
  <2>2. h \notin Caller
    BY HandoffLocks
  <2> QED
    BY <2>1, <2>2 DEF Holds, HandoffHolds
<1>5. \A p \in Process \ {h} : <<"row", h>> \notin Holds(p)
  BY <1>1, HandoffLocks, WaitsForNobody
<1>6. /\ Holds(h)' \subseteq Holds(h) \cup G
      /\ \A x \in G, p \in Process \ {h} : x \in Holds(p) => x[1] = "share"
      /\ \A i \in Item, p \in Process \ {h} :
           /\ <<"item", i>> \in G => <<"share", i>> \notin Holds(p)
           /\ <<"share", i>> \in G => <<"item", i>> \notin Holds(p)
  BY <1>4, <1>5
<1> HIDE DEF G
<1> QED
  BY <1>1, <1>3, <1>6, HandoffStep

LEMMA HoldsOn ==
  ASSUME NEW h \in Row, handoff[h].phase = "INSERT", handoff'[h].phase = "INSERT",
         handoff'[h].written = handoff[h].written, UNCHANGED state
  PROVE  Holds(h)' = Holds(h)
<1>1. Written(h)' = Written(h)
  BY DEF Written
<1>2. Added(h)' = Added(h)
  BY <1>1 DEF Added
<1> QED
  <2>1. Holds(h) = HandoffHolds(h) /\ Holds(h)' = HandoffHolds(h)'
    BY HandoffLocks DEF Holds
  <2> QED
    BY <1>1, <1>2, <2>1 DEF HandoffHolds

LEMMA ReadItemKeeps ==
  ASSUME PriorityInv, NEW h \in Row, ReadItem(h)
  PROVE  PriorityInv'
<1>1. h[1] \in Item
  BY Rows
<1>2. /\ HandoffMoves(h)
      /\ handoff[h].phase = "INSERT" /\ handoff'[h].phase = "INSERT"
      /\ handoff'[h].seen = wanted[h[1]] /\ handoff'[h].written = handoff[h].written
  BY <1>1, ReadItemDoes DEF PriorityInv
<1>3. PICK s \in handoff[h].todo :
        handoff'[h].now = s /\ handoff'[h].todo = handoff[h].todo \ {s}
  BY <1>1, ReadItemDoes DEF PriorityInv
<1>4. h \in Process
  BY <1>2, AtWork DEF PriorityInv
<1>5. UNCHANGED <<state, wanted>>
  BY <1>2 DEF HandoffMoves, tables
<1>6. HandoffOK(h)'
  BY <1>2, <1>3, <1>5 DEF HandoffOK, PriorityInv, Above
<1>7. Holds(h)' = Holds(h)
  BY <1>2, <1>5, HoldsOn
<1> QED
  BY <1>2, <1>4, <1>6, <1>7, HandoffRests

\* A row that was there is locked, a row that was not is a new key.
LEMMA Writes ==
  ASSUME NEW h \in Row, NEW s \in Row, handoff[h].phase = "INSERT",
         handoff'[h].phase = "INSERT", NEW e, e[1] = s,
         handoff'[h].written = handoff[h].written \cup {e}, UNCHANGED state
  PROVE  Holds(h)' \subseteq Holds(h) \cup
           IF state[s] = "ABSENT" THEN {<<"key", s>>, <<"share", h[1]>>} ELSE {<<"row", s>>}
<1>1. Written(h)' = Written(h) \cup {s}
  BY DEF Written
<1>2. Added(h)' = Added(h) \cup (IF state[s] = "ABSENT" THEN {s} ELSE {})
  BY <1>1 DEF Added
<1>3. Holds(h) = HandoffHolds(h) /\ Holds(h)' = HandoffHolds(h)'
  BY HandoffLocks DEF Holds
<1>4. CASE state[s] = "ABSENT"
  <2>1. Added(h)' = Added(h) \cup {s} /\ Written(h)' \ Added(h)' \subseteq Written(h) \ Added(h)
    BY <1>1, <1>2, <1>4
  <2> QED
    BY <1>3, <1>4, <2>1 DEF HandoffHolds
<1>5. CASE state[s] # "ABSENT"
  <2>1. Added(h)' = Added(h) /\ Written(h)' \ Added(h)' \subseteq (Written(h) \ Added(h)) \cup {s}
    BY <1>1, <1>2, <1>5
  <2> QED
    BY <1>3, <1>5, <2>1 DEF HandoffHolds
<1> QED
  BY <1>4, <1>5

LEMMA WriteSuccessorKeeps ==
  ASSUME PriorityInv, NEW h \in Row, WriteSuccessor(h)
  PROVE  PriorityInv'
<1> DEFINE s == handoff[h].now
<1>1. handoff[h].phase = "INSERT" /\ s # None /\ HandoffOK(h)
  BY DEF WriteSuccessor, Inserting, PriorityInv
<1>2. s \in Above(h) /\ handoff[h].seen = wanted[h[1]] /\ state[h] = "ADMITTED"
  BY <1>1 DEF HandoffOK
<1>3. s[1] = h[1] /\ h[1] \in Item
  BY <1>2, Higher, Rows
<1>4. handoff[h].seen \in Level
  BY <1>2, <1>3 DEF PriorityInv, Known, ShapeOK, TablesOK
<1>5. /\ HandoffMoves(h) /\ ~Waits(h)
      /\ handoff'[h].phase = "INSERT" /\ s \in Row /\ handoff'[h].now = None
      /\ handoff'[h].todo = handoff[h].todo
      /\ \/ handoff'[h].written = handoff[h].written
         \/ /\ handoff'[h].written = handoff[h].written \cup {<<s, handoff[h].seen>>}
            /\ HandoffWants(h) = IF state[s] = "ABSENT" THEN {<<"key", s>>, <<"item", s[1]>>}
                                 ELSE {<<"row", s>>}
  BY <1>4, WriteSuccessorDoes DEF PriorityInv
<1> HIDE DEF s
<1>6. h \in Process
  BY <1>1, AtWork DEF PriorityInv
<1>7. UNCHANGED <<state, wanted>>
  BY <1>5 DEF HandoffMoves, tables
<1>8. HandoffOK(h)'
  <2>1. \A e \in handoff'[h].written : e[1] \in Above(h) /\ e[2] = wanted[h[1]]
    BY <1>1, <1>2, <1>5 DEF HandoffOK
  <2> QED
    BY <1>1, <1>5, <1>7, <2>1 DEF HandoffOK, Above
<1>9. CASE handoff'[h].written = handoff[h].written
  <2>1. Holds(h)' = Holds(h)
    BY <1>1, <1>5, <1>7, <1>9, HoldsOn
  <2> QED
    BY <1>5, <1>6, <1>8, <2>1, HandoffRests
<1>10. CASE /\ handoff'[h].written = handoff[h].written \cup {<<s, handoff[h].seen>>}
            /\ HandoffWants(h) = IF state[s] = "ABSENT" THEN {<<"key", s>>, <<"item", s[1]>>}
                                 ELSE {<<"row", s>>}
  <2> DEFINE G == IF state[s] = "ABSENT" THEN {<<"key", s>>, <<"share", h[1]>>}
                  ELSE {<<"row", s>>}
  <2>1. Holds(h)' \subseteq Holds(h) \cup G
    <3> DEFINE e == <<s, handoff[h].seen>>
    <3>1. e[1] = s /\ handoff'[h].written = handoff[h].written \cup {e}
      BY <1>10
    <3> HIDE DEF e
    <3> QED
      BY <1>1, <1>5, <1>7, <3>1, Writes
  <2>2. CASE state[s] = "ABSENT"
    <3>1. \A p \in Process \ {h} : <<"key", s>> \notin Holds(p) /\ <<"item", h[1]>> \notin Holds(p)
      BY <1>3, <1>5, <1>6, <1>10, <2>2, HandoffLocks, WaitsForNobody
    <3>2. /\ \A x \in G, p \in Process \ {h} : x \in Holds(p) => x[1] = "share"
          /\ \A i \in Item, p \in Process \ {h} :
               /\ <<"item", i>> \in G => <<"share", i>> \notin Holds(p)
               /\ <<"share", i>> \in G => <<"item", i>> \notin Holds(p)
      BY <2>2, <3>1
    <3> HIDE DEF G
    <3> QED
      BY <1>5, <1>6, <1>8, <2>1, <3>2, HandoffStep
  <2>3. CASE state[s] # "ABSENT"
    <3>1. \A p \in Process \ {h} : <<"row", s>> \notin Holds(p)
      BY <1>5, <1>6, <1>10, <2>3, HandoffLocks, WaitsForNobody
    <3>2. /\ \A x \in G, p \in Process \ {h} : x \in Holds(p) => x[1] = "share"
          /\ \A i \in Item, p \in Process \ {h} :
               /\ <<"item", i>> \in G => <<"share", i>> \notin Holds(p)
               /\ <<"share", i>> \in G => <<"item", i>> \notin Holds(p)
      BY <2>3, <3>1
    <3> HIDE DEF G
    <3> QED
      BY <1>5, <1>6, <1>8, <2>1, <3>2, HandoffStep
  <2> QED
    BY <2>2, <2>3
<1> QED
  BY <1>5, <1>9, <1>10
-----------------------------------------------------------------------------
(***************************************************************************)
(* Steps that change the tables. They take no lock that stays.             *)
(***************************************************************************)

LEMMA TableStep ==
  ASSUME PriorityInv, ShapeOK', Gentle, PrioritiesAgree',
         \A c \in Caller : UntouchedCaller(c) \/ process'[c] = Idle,
         \A h \in Row : UntouchedHandoff(h) \/ handoff'[h] = NoHandoff
  PROVE  PriorityInv'
<1>1. \A c \in Caller : Plan(c)' /\ Grip(c)' /\ Holds(c)' \subseteq Holds(c)
  BY CallerKept, Ended DEF PriorityInv
<1>2. \A h \in Row : HandoffOK(h)' /\ Holds(h)' \subseteq Holds(h)
  BY HandoffKept, HandoffEnded DEF PriorityInv
<1>3. Known'
  BY GentleStep DEF PriorityInv
<1>4. HoldsInv'
  <2>1. Process' = Process
    BY DEF Process
  <2>2. \A p \in Process : Holds(p)' \subseteq Holds(p)
    BY <1>1, <1>2, Processes
  <2> SUFFICES ASSUME NEW p \in Process, NEW q \in Process, p # q
               PROVE  /\ \A x \in Holds(p)' \cap Holds(q)' : x[1] = "share"
                      /\ \A i \in Item : <<"item", i>> \in Holds(p)' => <<"share", i>> \notin Holds(q)'
    BY <2>1, Zenon DEF HoldsInv
  <2>3. /\ \A x \in Holds(p) \cap Holds(q) : x[1] = "share"
        /\ \A i \in Item : <<"item", i>> \in Holds(p) => <<"share", i>> \notin Holds(q)
    BY DEF PriorityInv, HoldsInv
  <2> QED
    BY <2>2, <2>3
<1> QED
  BY <1>1, <1>2, <1>3, <1>4 DEF PriorityInv

\* A row that nobody holds is in the hands of no transaction.
LEMMA FreeRow ==
  ASSUME PriorityInv, NEW r \in Row, RowFree(r)
  PROVE  /\ \A c \in Caller : r \notin process[c].held
         /\ \A h \in Row : handoff[h].phase = "INSERT" => h # r
<1>1. ASSUME NEW c \in Caller PROVE r \notin process[c].held
  BY CallerLocks DEF RowFree
<1>2. ASSUME NEW h \in Row, handoff[h].phase = "INSERT" PROVE h # r
  <2>1. h \in Process
    BY <1>2, AtWork DEF PriorityInv
  <2> QED
    BY <1>2, <2>1, HandoffLocks DEF RowFree
<1> QED
  BY <1>1, <1>2

\* An open row that nobody holds changes its state.
LEMMA RowMoves ==
  ASSUME PriorityInv, NEW r \in Row, RowFree(r), state[r] \in Nonterminal,
         NEW v \in {"READY", "ADMITTED", "FAILED", "CANCELLED"},
         state' = [state EXCEPT ![r] = v], UNCHANGED <<wanted, process>>,
         \A h \in Row : handoff'[h] = handoff[h] \/ handoff'[h] = NoHandoff
  PROVE  /\ Gentle
         /\ \A c \in Caller : UntouchedCaller(c)
         /\ \A h \in Row : UntouchedHandoff(h) \/ handoff'[h] = NoHandoff
         /\ state' \in [Row -> Nonterminal \cup {"ABSENT", "SUCCEEDED", "CANCELLED"}]
<1>1. state \in [Row -> Nonterminal \cup {"ABSENT", "SUCCEEDED", "CANCELLED"}]
  BY DEF PriorityInv, ShapeOK, TablesOK
<1>2. \A s \in Row : state'[s] = IF s = r THEN v ELSE state[s]
  BY <1>1
<1>3. Gentle
  BY <1>2 DEF Gentle, Nonterminal
<1>4. ASSUME NEW c \in Caller PROVE UntouchedCaller(c)
  <2>1. \A s \in process[c].held : s \in Row /\ s # r
    BY FreeRow DEF PriorityInv, ShapeOK, CallerRecord
  <2>2. \A s \in process[c].held : state'[s] \in Nonterminal
    BY <1>2, <2>1 DEF PriorityInv, Grip
  <2>3. \A i : Open(i)' \subseteq Open(i)
    BY <1>2 DEF Open, Nonterminal
  <2> QED
    BY <2>2, <2>3 DEF UntouchedCaller
<1>5. ASSUME NEW h \in Row, handoff'[h] = handoff[h] PROVE UntouchedHandoff(h)
  <2>1. CASE handoff[h].phase # "INSERT"
    BY <1>5, <2>1 DEF UntouchedHandoff
  <2>2. CASE handoff[h].phase = "INSERT"
    <3>1. h # r /\ state[h] = "ADMITTED"
      BY <2>2, FreeRow DEF PriorityInv, HandoffOK
    <3>2. \A s \in Written(h) : s \in Row
      BY DEF PriorityInv, ShapeOK, HandoffRecord, Written
    <3>3. \A s \in Written(h) : state'[s] = "ABSENT" <=> state[s] = "ABSENT"
      BY <1>2, <3>2 DEF Nonterminal
    <3> QED
      BY <1>2, <1>5, <3>1, <3>3 DEF UntouchedHandoff
  <2> QED
    BY <2>1, <2>2
<1> QED
  BY <1>1, <1>3, <1>4, <1>5 DEF Nonterminal

LEMMA AdmitKeeps ==
  ASSUME PriorityInv, NEW r \in Row, Admit(r)
  PROVE  PriorityInv'
<1>1. /\ state[r] = "READY" /\ RowFree(r)
      /\ state' = [state EXCEPT ![r] = "ADMITTED"]
      /\ queued' = [queued EXCEPT ![r] = priority[r]]
      /\ UNCHANGED <<priority, wanted, process, handoff>>
  BY DEF Admit
<1>2. /\ Gentle /\ \A c \in Caller : UntouchedCaller(c)
      /\ \A h \in Row : UntouchedHandoff(h) \/ handoff'[h] = NoHandoff
      /\ state' \in [Row -> Nonterminal \cup {"ABSENT", "SUCCEEDED", "CANCELLED"}]
  BY <1>1, RowMoves DEF Nonterminal
<1>3. ShapeOK'
  BY <1>1, <1>2 DEF PriorityInv, ShapeOK, TablesOK, Nonterminal
<1>4. PrioritiesAgree'
  BY <1>1 DEF PriorityInv, ShapeOK, TablesOK, PrioritiesAgree, Nonterminal
<1> QED
  BY <1>2, <1>3, <1>4, TableStep

LEMMA RetryKeeps ==
  ASSUME PriorityInv, NEW r \in Row, Retry(r)
  PROVE  PriorityInv'
<1>1. /\ state[r] = "FAILED" /\ RowFree(r)
      /\ state' = [state EXCEPT ![r] = "READY"]
      /\ UNCHANGED <<priority, wanted, queued, process, handoff>>
  BY DEF Retry
<1>2. /\ Gentle /\ \A c \in Caller : UntouchedCaller(c)
      /\ \A h \in Row : UntouchedHandoff(h) \/ handoff'[h] = NoHandoff
      /\ state' \in [Row -> Nonterminal \cup {"ABSENT", "SUCCEEDED", "CANCELLED"}]
  BY <1>1, RowMoves DEF Nonterminal
<1>3. ShapeOK'
  BY <1>1, <1>2 DEF PriorityInv, ShapeOK, TablesOK, Nonterminal
<1>4. PrioritiesAgree'
  BY <1>1 DEF PriorityInv, ShapeOK, TablesOK, PrioritiesAgree, Nonterminal
<1> QED
  BY <1>2, <1>3, <1>4, TableStep

\* An admitted row that nobody holds fails, or is found cancelled.
LEMMA AbandonKeeps ==
  ASSUME PriorityInv, NEW r \in Row, RowFree(r), state[r] = "ADMITTED",
         NEW v \in {"FAILED", "CANCELLED"}, state' = [state EXCEPT ![r] = v],
         queued' = [queued EXCEPT ![r] = None], UNCHANGED <<priority, wanted, process>>,
         handoff' \in [Row -> HandoffRecord], handoff'[r] = NoHandoff, OtherHandoffsKeep(r)
  PROVE  PriorityInv'
<1>1. \A h \in Row : handoff'[h] = handoff[h] \/ handoff'[h] = NoHandoff
  BY DEF OtherHandoffsKeep
<1>2. /\ Gentle /\ \A c \in Caller : UntouchedCaller(c)
      /\ \A h \in Row : UntouchedHandoff(h) \/ handoff'[h] = NoHandoff
      /\ state' \in [Row -> Nonterminal \cup {"ABSENT", "SUCCEEDED", "CANCELLED"}]
  BY <1>1, RowMoves DEF Nonterminal
<1>3. ShapeOK'
  BY <1>2 DEF PriorityInv, ShapeOK, TablesOK, Nonterminal
<1>4. PrioritiesAgree'
  BY DEF PriorityInv, ShapeOK, TablesOK, PrioritiesAgree, Nonterminal
<1> QED
  BY <1>2, <1>3, <1>4, TableStep

LEMMA SweepProjectKeeps ==
  ASSUME PriorityInv, NEW r \in Row, SweepProject(r)
  PROVE  PriorityInv'
<1>1. handoff' \in [Row -> HandoffRecord] /\ handoff'[r] = NoHandoff /\ OtherHandoffsKeep(r)
  BY ReturnDoes DEF SweepProject, PriorityInv
<1> QED
  BY <1>1, AbandonKeeps DEF SweepProject

LEMMA HandoffLockKeeps ==
  ASSUME PriorityInv, NEW h \in Row, HandoffLock(h)
  PROVE  PriorityInv'
<1>1. ShapeOK
  BY DEF PriorityInv
<1>2. handoff[h].phase = "BEGUN" /\ HandoffWants(h) = {<<"row", h>>} /\ ~Waits(h)
  BY <1>1, HandoffLockDoes
<1>3. CASE HandoffMoves(h) /\ handoff'[h] \in {NoHandoff, Raised}
  BY <1>2, <1>3, HandoffEndKeeps
<1>4. CASE FailsNow(h)
  <2>1. h \in Process
    BY <1>2, AtWork DEF PriorityInv
  <2>2. Holds(h) = {}
    BY <1>2, HandoffLocks
  <2>3. RowFree(h)
    BY <1>2, <2>1, <2>2, HandoffLocks, WaitsForNobody DEF RowFree
  <2> QED
    BY <1>4, <2>3, AbandonKeeps DEF FailsNow
<1>5. CASE /\ HandoffMoves(h) /\ state[h] = "ADMITTED"
           /\ handoff'[h].phase = "INSERT"
           /\ handoff'[h].todo \subseteq Above(h)
           /\ handoff'[h].now = handoff[h].now /\ handoff'[h].seen = handoff[h].seen
           /\ handoff'[h].written = handoff[h].written
  BY <1>2, <1>5, InsertBegins
<1> QED
  BY <1>1, <1>3, <1>4, <1>5, HandoffLockDoes

LEMMA SubmitKeeps ==
  ASSUME PriorityInv, NEW i \in Item, NEW p \in Level, Submit(i, p)
  PROVE  PriorityInv'
<1> DEFINE f == <<i, 0>>
<1>1. /\ wanted[i] = None
      /\ state' = [state EXCEPT ![f] = "READY"]
      /\ wanted' = [wanted EXCEPT ![i] = p]
      /\ priority' = [priority EXCEPT ![f] = p]
      /\ UNCHANGED <<queued, process, handoff>>
  BY DEF Submit
<1>2. f \in Row /\ f[1] = i /\ f[2] = 0 /\ Last[i] \in Nat /\ p # None
  BY Rows, PriorityAssumption
<1> HIDE DEF f
<1>3. ShapeOK /\ Known
  BY DEF PriorityInv
<1>4. \A r \in Row : r[1] = i => state[r] = "ABSENT"
  BY <1>1, <1>3 DEF Known
<1>5. \A r \in Row : state'[r] = IF r = f THEN "READY" ELSE state[r]
  BY <1>1, <1>3 DEF ShapeOK, TablesOK
<1>6. \A j \in Item : wanted'[j] = IF j = i THEN p ELSE wanted[j]
  BY <1>1, <1>3 DEF ShapeOK, TablesOK
<1>7. \A r \in Row : r[1] \in Item
  BY Rows
<1>8. Gentle
  BY <1>2, <1>5, <1>6, <1>7 DEF Gentle
<1>9. ASSUME NEW c \in Caller PROVE UntouchedCaller(c)
  <2>1. \A n \in DOMAIN process[c].request : process[c].request[n][1] # i
    BY <1>1 DEF PriorityInv, Grip
  <2>2. i \notin process[c].items
    BY <2>1 DEF PriorityInv, Plan
  <2>3. \A r \in process[c].held : r \in Row /\ state[r] \in Nonterminal
    BY DEF PriorityInv, ShapeOK, CallerRecord, Grip
  <2>4. \A r \in process[c].held : state'[r] \in Nonterminal
    BY <1>5, <2>3 DEF Nonterminal
  <2>5. \A j \in process[c].items : Open(j)' \subseteq Open(j)
    BY <1>2, <1>5, <2>2 DEF Open, Nonterminal
  <2> QED
    BY <1>1, <2>4, <2>5 DEF UntouchedCaller
<1>10. ASSUME NEW h \in Row PROVE UntouchedHandoff(h)
  <2>1. CASE handoff[h].phase # "INSERT"
    BY <1>1, <2>1 DEF UntouchedHandoff
  <2>2. CASE handoff[h].phase = "INSERT"
    <3>1. state[h] = "ADMITTED" /\ h[1] # i
      BY <1>4, <2>2 DEF PriorityInv, HandoffOK
    <3>2. \A s \in Written(h) : s \in Row /\ s[2] # 0
      BY <2>2, Higher DEF PriorityInv, HandoffOK, Written
    <3>3. \A s \in Written(h) : state'[s] = state[s]
      BY <1>2, <1>5, <3>2
    <3>4. state'[h] = "ADMITTED" /\ wanted'[h[1]] = wanted[h[1]]
      BY <1>4, <1>5, <1>6, <1>7, <3>1, <1>2
    <3> QED
      BY <1>1, <3>3, <3>4 DEF UntouchedHandoff
  <2> QED
    BY <2>1, <2>2
<1>11. ShapeOK'
  BY <1>1, <1>2, <1>3 DEF ShapeOK, TablesOK, Nonterminal
<1>12. PrioritiesAgree'
  <2> SUFFICES ASSUME NEW r \in Row
               PROVE  /\ state'[r] \in Nonterminal => priority'[r] = wanted'[r[1]]
                      /\ state'[r] = "ADMITTED" => queued'[r] = wanted'[r[1]]
    BY DEF PrioritiesAgree, Nonterminal
  <2>1. priority'[r] = IF r = f THEN p ELSE priority[r]
    BY <1>1, <1>3 DEF ShapeOK, TablesOK
  <2>2. CASE r[1] # i
    BY <1>1, <1>2, <1>5, <1>6, <1>7, <2>1, <2>2 DEF PriorityInv, PrioritiesAgree
  <2>3. CASE r[1] = i
    BY <1>2, <1>4, <1>5, <1>6, <1>7, <2>1, <2>3 DEF Nonterminal
  <2> QED
    BY <2>2, <2>3
<1> QED
  BY <1>8, <1>9, <1>10, <1>11, <1>12, TableStep
\* A transaction about to commit holds all that is open of each of its items.
LEMMA HoldsAll ==
  ASSUME PriorityInv, NEW c \in Caller, AllLocked(c)
  PROVE  /\ \A i \in process[c].items \cup {ItemOf(c)} : Open(i) \subseteq process[c].held
         /\ \A r \in process[c].held : r[1] \in process[c].items \cup {ItemOf(c)}
         /\ \A h \in Row : handoff[h].phase = "INSERT" =>
              h[1] \notin process[c].items \cup {ItemOf(c)}
<1>1. \A i \in process[c].items \cup {ItemOf(c)} : Open(i) \subseteq process[c].held
  BY DEF PriorityInv, Grip, AllLocked
<1>2. ASSUME NEW h \in Row, handoff[h].phase = "INSERT"
      PROVE  h[1] \notin process[c].items \cup {ItemOf(c)}
  <2>1. state[h] = "ADMITTED" /\ h \notin process[c].held
    BY <1>2, Apart DEF PriorityInv, HandoffOK
  <2>2. h \in Open(h[1])
    BY <2>1 DEF Open, Nonterminal
  <2> QED
    BY <1>1, <2>1, <2>2
<1> QED
  BY <1>1, <1>2 DEF PriorityInv, Plan

LEMMA GivenLevel ==
  ASSUME NEW c \in Caller, Plan(c), NEW i \in process[c].items
  PROVE  Given(c, i) \in Level
<1> DEFINE q == process[c].request
<1>1. PICK n \in DOMAIN q : q[n][1] = i /\ q[n][2] # Cancel
  BY DEF Plan
<1>2. \A m \in DOMAIN q : q[m][1] = i => m = n
  BY <1>1 DEF Plan, Request
<1>3. (CHOOSE m \in DOMAIN q : q[m][1] = i) = n
  BY <1>1, <1>2
<1>4. Given(c, i) = q[n][2]
  BY <1>3 DEF Given
<1> QED
  BY <1>1, <1>4, Entries DEF Plan

LEMMA MadeLate ==
  ASSUME NEW old \in HandoffRecord
  PROVE  LET new == [old EXCEPT !.late = TRUE] IN
         /\ new \in HandoffRecord
         /\ new.phase = old.phase /\ new.todo = old.todo /\ new.now = old.now
         /\ new.seen = old.seen /\ new.written = old.written
<1> DEFINE yes == TRUE
           new == [old EXCEPT !.late = yes]
<1>1. yes \in BOOLEAN
  OBVIOUS
<1> HIDE DEF yes
<1>2. /\ new \in HandoffRecord
      /\ new.phase = old.phase /\ new.todo = old.todo /\ new.now = old.now
      /\ new.seen = old.seen /\ new.written = old.written
  BY <1>1 DEF HandoffRecord
<1>3. new = [old EXCEPT !.late = TRUE]
  BY DEF yes
<1> HIDE DEF new
<1> QED
  BY <1>2, <1>3, Zenon

LEMMA CommitChangeKeeps ==
  ASSUME PriorityInv, NEW c \in Caller, CommitChange(c)
  PROVE  PriorityInv'
<1> DEFINE held == process[c].held
           items == process[c].items
<1>1. /\ AllLocked(c) /\ Asked(c) # Cancel /\ process[c].phase = "LOCK"
      /\ wanted' = [i \in Item |-> IF i \in items THEN Given(c, i) ELSE wanted[i]]
      /\ priority' = [r \in Row |-> IF r \in held THEN Given(c, r[1]) ELSE priority[r]]
      /\ queued' = [r \in Row |->
           IF r \in held /\ state[r] = "ADMITTED" THEN Given(c, r[1]) ELSE queued[r]]
      /\ handoff' = [r \in Row |-> IF r \in Stamped(c) THEN [handoff[r] EXCEPT !.late = TRUE]
                                   ELSE handoff[r]]
      /\ process' = [process EXCEPT ![c] = Idle]
      /\ UNCHANGED state
  BY DEF CommitChange, AllLocked
<1>2. ShapeOK /\ Plan(c) /\ Grip(c)
  BY DEF PriorityInv
<1>3. /\ ItemOf(c) \in items
      /\ \A i \in items : Open(i) \subseteq held
      /\ \A r \in held : r[1] \in items
      /\ \A h \in Row : handoff[h].phase = "INSERT" => h[1] \notin items
  BY <1>1, <1>2, HoldsAll DEF Plan
<1>4. \A i \in items : Given(c, i) \in Level
  BY <1>2, GivenLevel
<1>5. process' \in [Caller -> CallerRecord] /\ process'[c] = Idle /\ OtherCallersKeep(c)
  BY <1>1, <1>2, EndDoes
<1>6. \A r \in Row : r[1] \in Item
  BY Rows
<1>7. /\ \A i \in Item : wanted'[i] = IF i \in items THEN Given(c, i) ELSE wanted[i]
      /\ \A r \in Row : priority'[r] = IF r \in held THEN Given(c, r[1]) ELSE priority[r]
      /\ \A r \in Row : queued'[r] = IF r \in held /\ state[r] = "ADMITTED"
                                     THEN Given(c, r[1]) ELSE queued[r]
  BY <1>1
<1>8. Gentle
  BY <1>1, <1>4, <1>7, PriorityAssumption DEF Gentle
<1>9. \A d \in Caller : UntouchedCaller(d) \/ process'[d] = Idle
  BY <1>1, <1>5, CallerBystander DEF OtherCallersKeep
<1>10. \A r \in Row : /\ handoff[r] \in HandoffRecord
                      /\ handoff'[r] = IF r \in Stamped(c) THEN [handoff[r] EXCEPT !.late = TRUE]
                                       ELSE handoff[r]
  BY <1>1, <1>2 DEF ShapeOK
<1>11. ASSUME NEW h \in Row PROVE UntouchedHandoff(h) /\ handoff'[h] \in HandoffRecord
  <2>1. /\ handoff'[h] \in HandoffRecord
        /\ handoff'[h].phase = handoff[h].phase /\ handoff'[h].todo = handoff[h].todo
        /\ handoff'[h].now = handoff[h].now /\ handoff'[h].seen = handoff[h].seen
        /\ handoff'[h].written = handoff[h].written
    <3>1. LET new == [handoff[h] EXCEPT !.late = TRUE] IN
          /\ new \in HandoffRecord
          /\ new.phase = handoff[h].phase /\ new.todo = handoff[h].todo
          /\ new.now = handoff[h].now /\ new.seen = handoff[h].seen
          /\ new.written = handoff[h].written
      BY <1>10, MadeLate
    <3>2. CASE h \in Stamped(c)
      <4>1. handoff'[h] = [handoff[h] EXCEPT !.late = TRUE]
        BY <1>10, <3>2
      <4> QED
        BY <3>1, <4>1
    <3>3. CASE h \notin Stamped(c)
      <4>1. handoff'[h] = handoff[h]
        BY <1>10, <3>3
      <4> QED
        BY <1>10, <4>1
    <3> QED
      BY <3>2, <3>3
  <2>2. ASSUME handoff[h].phase = "INSERT"
        PROVE  state'[h] = "ADMITTED" /\ wanted'[h[1]] = wanted[h[1]]
    BY <1>1, <1>3, <1>6, <1>7, <2>2 DEF PriorityInv, HandoffOK
  <2> QED
    BY <1>1, <2>1, <2>2 DEF UntouchedHandoff
<1>12. ShapeOK'
  <2>1. wanted' \in [Item -> Level \cup {None}]
    BY <1>1, <1>2, <1>4 DEF ShapeOK, TablesOK
  <2>2. priority' \in [Row -> Level \cup {None}] /\ queued' \in [Row -> Level \cup {None}]
    BY <1>1, <1>2, <1>3, <1>4 DEF ShapeOK, TablesOK
  <2>3. handoff' \in [Row -> HandoffRecord]
    BY <1>1, <1>11
  <2> QED
    BY <1>1, <1>2, <1>5, <2>1, <2>2, <2>3 DEF ShapeOK, TablesOK, Nonterminal
<1>13. PrioritiesAgree'
  <2> SUFFICES ASSUME NEW r \in Row
               PROVE  /\ state[r] \in Nonterminal => priority'[r] = wanted'[r[1]]
                      /\ state[r] = "ADMITTED" => queued'[r] = wanted'[r[1]]
    BY <1>1 DEF PrioritiesAgree, Nonterminal
  <2>1. CASE r \in held
    BY <1>3, <1>6, <1>7, <2>1
  <2>2. CASE r \notin held
    <3>1. state[r] \in Nonterminal => r[1] \notin items
      BY <1>3, <2>2 DEF Open
    <3> QED
      BY <1>6, <1>7, <2>2, <3>1 DEF PriorityInv, PrioritiesAgree, Nonterminal
  <2> QED
    BY <2>1, <2>2
<1> QED
  BY <1>8, <1>9, <1>11, <1>12, <1>13, TableStep

\* A cancellation takes no items, so what it holds is what is open of its item.
LEMMA CancelHolds ==
  ASSUME PriorityInv, NEW c \in Caller, CommitCancel(c)
  PROVE  /\ process[c].held = Open(ItemOf(c)) /\ ItemOf(c) \in Item
         /\ \A h \in Row : handoff[h].phase = "INSERT" => h[1] # ItemOf(c)
<1>1. AllLocked(c) /\ Asked(c) = Cancel /\ process[c].phase = "LOCK" /\ Plan(c) /\ Grip(c)
  BY DEF PriorityInv, CommitCancel, AllLocked
<1>2. process[c].items = {} /\ ItemOf(c) \in Item
  BY <1>1, CancelAlone, InItem
<1>3. /\ Open(ItemOf(c)) \subseteq process[c].held
      /\ \A r \in process[c].held : r[1] = ItemOf(c)
      /\ \A h \in Row : handoff[h].phase = "INSERT" => h[1] # ItemOf(c)
  BY <1>1, <1>2, HoldsAll
<1>4. \A r \in process[c].held : r \in Row /\ state[r] \in Nonterminal
  BY <1>1 DEF PriorityInv, ShapeOK, CallerRecord, Grip
<1> QED
  BY <1>2, <1>3, <1>4 DEF Open

LEMMA CommitCancelKeeps ==
  ASSUME PriorityInv, NEW c \in Caller, CommitCancel(c)
  PROVE  PriorityInv'
<1> DEFINE held == process[c].held
<1>1. /\ state' = [r \in Row |-> IF r \in held THEN "CANCELLED" ELSE state[r]]
      /\ queued' = [r \in Row |-> IF r \in held THEN None ELSE queued[r]]
      /\ process' = [process EXCEPT ![c] = Idle]
      /\ UNCHANGED <<priority, wanted, handoff>>
  BY DEF CommitCancel
<1>2. ShapeOK /\ \A r \in held : state[r] \in Nonterminal
  BY DEF PriorityInv, Grip
<1>3. process' \in [Caller -> CallerRecord] /\ process'[c] = Idle /\ OtherCallersKeep(c)
  BY <1>1, <1>2, EndDoes
<1>4. \A r \in Row : /\ state'[r] = IF r \in held THEN "CANCELLED" ELSE state[r]
                     /\ queued'[r] = IF r \in held THEN None ELSE queued[r]
  BY <1>1
<1>5. Gentle
  BY <1>1, <1>2, <1>4 DEF Gentle, Nonterminal
<1>6. ASSUME NEW d \in Caller PROVE UntouchedCaller(d) \/ process'[d] = Idle
  <2>1. CASE d = c
    BY <1>3, <2>1
  <2>2. CASE d # c
    <3>1. process'[d] = process[d] /\ process[d].held \cap held = {}
      BY <1>3, <2>2, Apart DEF OtherCallersKeep
    <3>2. \A r \in process[d].held : r \in Row /\ state[r] \in Nonterminal
      BY DEF PriorityInv, ShapeOK, CallerRecord, Grip
    <3>3. \A r \in process[d].held : state'[r] \in Nonterminal
      BY <1>4, <3>1, <3>2 DEF Nonterminal
    <3>4. \A i : Open(i)' \subseteq Open(i)
      BY <1>2, <1>4 DEF Open, Nonterminal
    <3> QED
      BY <3>1, <3>3, <3>4 DEF UntouchedCaller
  <2> QED
    BY <2>1, <2>2
<1>7. ASSUME NEW h \in Row PROVE UntouchedHandoff(h)
  <2>1. CASE handoff[h].phase # "INSERT"
    BY <1>1, <2>1 DEF UntouchedHandoff
  <2>2. CASE handoff[h].phase = "INSERT"
    <3>1. h \notin held /\ state[h] = "ADMITTED"
      BY <2>2, Apart DEF PriorityInv, HandoffOK
    <3>2. \A s \in Written(h) : s \in Row
      BY DEF PriorityInv, ShapeOK, HandoffRecord, Written
    <3>3. \A s \in Written(h) : state'[s] = "ABSENT" <=> state[s] = "ABSENT"
      BY <1>2, <1>4, <3>2 DEF Nonterminal
    <3> QED
      BY <1>1, <1>4, <3>1, <3>3 DEF UntouchedHandoff
  <2> QED
    BY <2>1, <2>2
<1>8. ShapeOK'
  BY <1>1, <1>2, <1>3 DEF ShapeOK, TablesOK, Nonterminal
<1>9. PrioritiesAgree'
  BY <1>1, <1>4 DEF PriorityInv, PrioritiesAgree, Nonterminal
<1> QED
  BY <1>5, <1>6, <1>7, <1>8, <1>9, TableStep

\* What a handoff commits: a success, and the successors it has written with
\* the priority of their item.
LEMMA CommitHandoffDoes ==
  ASSUME PriorityInv, NEW h \in Row, CommitHandoff(h)
  PROVE  /\ handoff[h].phase = "INSERT" /\ state[h] = "ADMITTED"
         /\ Added(h) \subseteq Above(h) /\ Written(h) \subseteq Above(h)
         /\ \A r \in Row :
              /\ state'[r] = IF r = h THEN "SUCCEEDED"
                             ELSE IF r \in Added(h) THEN "READY" ELSE state[r]
              /\ priority'[r] = IF r \in Written(h) THEN wanted[h[1]] ELSE priority[r]
              /\ queued'[r] = IF r = h THEN None ELSE queued[r]
         /\ wanted[h[1]] \in Level /\ UNCHANGED <<wanted, process>>
         /\ handoff' \in [Row -> HandoffRecord] /\ handoff'[h] = NoHandoff
         /\ OtherHandoffsKeep(h)
<1>1. HandoffOK(h) /\ ShapeOK /\ Known /\ handoff[h].phase = "INSERT"
  BY DEF PriorityInv, CommitHandoff
<1>2. /\ state[h] = "ADMITTED"
      /\ \A e \in handoff[h].written : e[1] \in Above(h) /\ e[2] = wanted[h[1]]
  BY <1>1 DEF HandoffOK
<1>3. Written(h) \subseteq Above(h) /\ Added(h) \subseteq Above(h)
  BY <1>2 DEF Written, Added
<1>4. ASSUME NEW r \in Written(h)
      PROVE  (CHOOSE e \in handoff[h].written : e[1] = r)[2] = wanted[h[1]]
  <2>1. \E e \in handoff[h].written : e[1] = r
    BY DEF Written
  <2>2. (CHOOSE e \in handoff[h].written : e[1] = r) \in handoff[h].written
    BY <2>1
  <2> QED
    BY <1>2, <2>2
<1>5. \A r \in Row : /\ state'[r] = IF r = h THEN "SUCCEEDED"
                                    ELSE IF r \in Added(h) THEN "READY" ELSE state[r]
                     /\ queued'[r] = IF r = h THEN None ELSE queued[r]
  BY <1>1 DEF CommitHandoff, ShapeOK, TablesOK
<1>6. \A r \in Row : priority'[r] = IF r \in Written(h) THEN wanted[h[1]] ELSE priority[r]
  <2>1. priority' = [r \in Row |->
          IF r \in Written(h) THEN (CHOOSE e \in handoff[h].written : e[1] = r)[2]
          ELSE priority[r]]
    BY DEF CommitHandoff
  <2> QED
    BY <1>4, <2>1
<1>7. h[1] \in Item
  BY Rows
<1>8. wanted[h[1]] \in Level
  BY <1>1, <1>2, <1>7 DEF Known, ShapeOK, TablesOK
<1>9. handoff' \in [Row -> HandoffRecord] /\ handoff'[h] = NoHandoff /\ OtherHandoffsKeep(h)
  BY <1>1, ReturnDoes DEF CommitHandoff
<1> QED
  BY <1>1, <1>2, <1>3, <1>5, <1>6, <1>8, <1>9 DEF CommitHandoff

LEMMA CommitHandoffKeeps ==
  ASSUME PriorityInv, NEW h \in Row, CommitHandoff(h)
  PROVE  PriorityInv'
<1>1. /\ handoff[h].phase = "INSERT" /\ state[h] = "ADMITTED"
      /\ Added(h) \subseteq Above(h) /\ Written(h) \subseteq Above(h)
      /\ \A r \in Row :
           /\ state'[r] = IF r = h THEN "SUCCEEDED"
                          ELSE IF r \in Added(h) THEN "READY" ELSE state[r]
           /\ priority'[r] = IF r \in Written(h) THEN wanted[h[1]] ELSE priority[r]
           /\ queued'[r] = IF r = h THEN None ELSE queued[r]
      /\ wanted[h[1]] \in Level /\ UNCHANGED <<wanted, process>>
      /\ handoff' \in [Row -> HandoffRecord] /\ handoff'[h] = NoHandoff
      /\ OtherHandoffsKeep(h)
  BY CommitHandoffDoes
<1>2. \A s \in Above(h) : s \in Row /\ s[1] = h[1] /\ s # h /\ s[2] <= Last[s[1]]
  BY Higher
<1>3. \A s \in Added(h) : state[s] = "ABSENT"
  BY DEF Added
<1>4. Gentle
  BY <1>1, <1>2, <1>3, PriorityAssumption DEF Gentle
<1>5. ASSUME NEW c \in Caller PROVE UntouchedCaller(c)
  <2>1. h \notin process[c].held /\ (Added(h) # {} => h[1] \notin process[c].items)
    BY <1>1, Apart
  <2>2. \A r \in process[c].held : r \in Row /\ state[r] \in Nonterminal
    BY DEF PriorityInv, ShapeOK, CallerRecord, Grip
  <2>3. \A r \in process[c].held : state'[r] \in Nonterminal
    BY <1>1, <1>3, <2>1, <2>2 DEF Nonterminal
  <2>4. \A i \in process[c].items : Open(i)' \subseteq Open(i)
    BY <1>1, <1>2, <2>1 DEF Open, Nonterminal
  <2> QED
    BY <1>1, <2>3, <2>4 DEF UntouchedCaller
<1>6. ASSUME NEW k \in Row PROVE UntouchedHandoff(k) \/ handoff'[k] = NoHandoff
  <2>1. CASE k = h
    BY <1>1, <2>1
  <2>2. CASE k # h /\ handoff[k].phase # "INSERT"
    BY <1>1, <2>2 DEF UntouchedHandoff, OtherHandoffsKeep
  <2>3. CASE k # h /\ handoff[k].phase = "INSERT"
    <3>1. handoff'[k] = handoff[k] /\ state[k] = "ADMITTED" /\ Added(h) \cap Added(k) = {}
      BY <1>1, <2>3, Apart DEF OtherHandoffsKeep, PriorityInv, HandoffOK
    <3>2. state'[k] = "ADMITTED"
      BY <1>1, <1>3, <2>3, <3>1
    <3>3. \A s \in Written(k) : s \in Row /\ (s \in Added(k) <=> state[s] = "ABSENT")
      BY DEF PriorityInv, ShapeOK, HandoffRecord, Written, Added
    <3>4. \A s \in Written(k) : state'[s] = "ABSENT" <=> state[s] = "ABSENT"
      BY <1>1, <1>3, <3>1, <3>3
    <3> QED
      BY <1>1, <3>1, <3>2, <3>4 DEF UntouchedHandoff
  <2> QED
    BY <2>1, <2>2, <2>3
<1>7. ShapeOK'
  <2>1. ShapeOK
    BY DEF PriorityInv
  <2>2. state' \in [Row -> Nonterminal \cup {"ABSENT", "SUCCEEDED", "CANCELLED"}]
    <3>1. state' = [r \in Row |-> state'[r]]
      BY DEF CommitHandoff
    <3> QED
      BY <1>1, <2>1, <3>1 DEF ShapeOK, TablesOK, Nonterminal
  <2>3. priority' \in [Row -> Level \cup {None}]
    <3>1. priority' = [r \in Row |-> priority'[r]]
      BY DEF CommitHandoff
    <3> QED
      BY <1>1, <2>1, <3>1 DEF ShapeOK, TablesOK
  <2>4. queued' \in [Row -> Level \cup {None}]
    BY <2>1 DEF CommitHandoff, ShapeOK, TablesOK
  <2> QED
    BY <1>1, <2>1, <2>2, <2>3, <2>4 DEF ShapeOK, TablesOK, Nonterminal
<1>8. PrioritiesAgree'
  <2> SUFFICES ASSUME NEW r \in Row
               PROVE  /\ state'[r] \in Nonterminal => priority'[r] = wanted[r[1]]
                      /\ state'[r] = "ADMITTED" => queued'[r] = wanted[r[1]]
    BY <1>1 DEF PrioritiesAgree, Nonterminal
  <2>1. Added(h) \subseteq Written(h)
    BY DEF Added
  <2>2. CASE r = h
    BY <1>1, <2>2 DEF Nonterminal
  <2>3. CASE r # h /\ r \in Written(h)
    <3>1. r[1] = h[1] /\ priority'[r] = wanted[h[1]] /\ queued'[r] = queued[r]
      BY <1>1, <1>2, <2>3
    <3>2. state'[r] = "ADMITTED" => state[r] = "ADMITTED"
      BY <1>1, <2>3
    <3> QED
      BY <3>1, <3>2 DEF PriorityInv, PrioritiesAgree
  <2>4. CASE r # h /\ r \notin Written(h)
    BY <1>1, <2>1, <2>4 DEF PriorityInv, PrioritiesAgree
  <2> QED
    BY <2>2, <2>3, <2>4
<1> QED
  BY <1>4, <1>5, <1>6, <1>7, <1>8, TableStep
-----------------------------------------------------------------------------
(***************************************************************************)
(* The invariant of the specification.                                     *)
(***************************************************************************)

LEMMA PriorityInvInit == Init => PriorityInv
<1> SUFFICES ASSUME Init PROVE PriorityInv
  OBVIOUS
<1>1. /\ \A r \in Row : /\ state[r] = "ABSENT" /\ priority[r] = None /\ queued[r] = None
                        /\ handoff[r] = NoHandoff
      /\ \A i \in Item : wanted[i] = None
      /\ \A c \in Caller : process[c] = Idle
  BY DEF Init
<1>2. ShapeOK
  BY Blank DEF Init, ShapeOK, TablesOK
<1>3. Known /\ PrioritiesAgree
  BY <1>1 DEF Known, PrioritiesAgree, Nonterminal
<1>4. ASSUME NEW c \in Caller PROVE Plan(c) /\ Grip(c)
  <2>1. <<>> \in Seq(Entry) /\ DOMAIN <<>> = {}
    OBVIOUS
  <2>2. Plan(c)
    <3>1. /\ process[c].phase = "IDLE" /\ process[c].request = <<>>
          /\ process[c].due = {} /\ process[c].todo = {} /\ process[c].held = {}
          /\ process[c].items = {} /\ process[c].stamped = {}
      BY <1>1 DEF Idle
    <3> QED
      BY <2>1, <3>1 DEF Plan, Request
  <2>3. Grip(c)
    BY <1>1, <2>1 DEF Grip, Idle
  <2> QED
    BY <2>2, <2>3
<1>5. \A h \in Row : HandoffOK(h)
  BY <1>1, RaisedIs DEF HandoffOK
<1>6. \A p \in Process : Holds(p) = {}
  <2>1. \A c \in Caller : Holds(c) = {}
    BY <1>1 DEF Holds, CallerHolds, Idle
  <2>2. \A h \in Row : Holds(h) = {}
    BY <1>1, RaisedIs, HandoffLocks
  <2> QED
    BY <2>1, <2>2, Processes
<1>7. HoldsInv
  BY <1>6 DEF HoldsInv
<1> QED
  BY <1>2, <1>3, <1>4, <1>5, <1>7 DEF PriorityInv

LEMMA DeadlockAbortKeeps ==
  ASSUME PriorityInv, NEW p \in Process, DeadlockAbort(p)
  PROVE  PriorityInv'
<1>1. Wants(p) # {} /\ UNCHANGED tables
  BY DEF DeadlockAbort, InCircle, Waits
<1>2. CASE p \in Caller
  <2>1. process' = [process EXCEPT ![p] = Idle] /\ UNCHANGED handoff
    BY <1>2 DEF DeadlockAbort
  <2> QED
    BY <1>1, <1>2, <2>1, CallerAbortKeeps
<1>3. CASE p \in Row /\ p \notin Caller
  <2>1. Raise(p) /\ UNCHANGED process
    BY <1>3 DEF DeadlockAbort
  <2>2. handoff[p].phase # "NONE"
    BY <1>1, <1>3, HandoffLocks DEF HandoffWants, Inserting
  <2> QED
    BY <1>1, <1>3, <2>1, <2>2, RaiseKeeps
<1> QED
  BY <1>2, <1>3, Processes

LEMMA StutterKeeps == PriorityInv /\ UNCHANGED vars => PriorityInv'
<1> SUFFICES ASSUME PriorityInv, UNCHANGED vars PROVE PriorityInv'
  OBVIOUS
<1>1. UNCHANGED <<state, priority, wanted, queued, process, handoff>>
  BY DEF vars
<1>2. ShapeOK' /\ Gentle /\ PrioritiesAgree'
  BY <1>1, StillGentle DEF PriorityInv, ShapeOK, TablesOK, PrioritiesAgree, Nonterminal
<1>3. \A c \in Caller : UntouchedCaller(c)
  BY <1>1, CallerBystander
<1>4. \A h \in Row : UntouchedHandoff(h)
  BY <1>1, HandoffBystander
<1> QED
  BY <1>2, <1>3, <1>4, TableStep

LEMMA PriorityInvStep == PriorityInv /\ [Next]_vars => PriorityInv'
<1> SUFFICES ASSUME PriorityInv, [Next]_vars PROVE PriorityInv'
  OBVIOUS
<1>1. ASSUME NEW i \in Item, NEW p \in Level, Submit(i, p) PROVE PriorityInv'
  BY <1>1, SubmitKeeps
<1>2. ASSUME NEW c \in Caller, StartCall(c) PROVE PriorityInv'
  BY <1>2, StartCallKeeps
<1>3. ASSUME NEW c \in Caller, Advance(c) PROVE PriorityInv'
  BY <1>3, LockRowKeeps, LockItemKeeps, SelectKeeps, NextItemKeeps, CommitChangeKeeps,
     CommitCancelKeeps DEF Advance
<1>4. ASSUME NEW h \in Row, HandoffBegin(h) PROVE PriorityInv'
  BY <1>4, HandoffBeginKeeps
<1>5. ASSUME NEW h \in Row, Handoff(h) PROVE PriorityInv'
  <2>1. CASE Conflict(h)
    BY <2>1, RaiseKeeps DEF Conflict, Inserting
  <2> QED
    BY <1>5, <2>1, HandoffLockKeeps, ReadItemKeeps, WriteSuccessorKeeps, CommitHandoffKeeps
       DEF Handoff
<1>6. ASSUME NEW r \in Row, Admit(r) \/ SweepProject(r) \/ Retry(r) PROVE PriorityInv'
  BY <1>6, AdmitKeeps, SweepProjectKeeps, RetryKeeps
<1>7. ASSUME NEW p \in Process, DeadlockAbort(p) PROVE PriorityInv'
  BY <1>7, DeadlockAbortKeeps
<1>8. CASE UNCHANGED vars
  BY <1>8, StutterKeeps
<1> QED
  BY <1>1, <1>2, <1>3, <1>4, <1>5, <1>6, <1>7, <1>8 DEF Next

LEMMA PrioritiesCorrect == Spec => []PriorityInv
BY PriorityInvInit, PriorityInvStep, PTL DEF Spec

-----------------------------------------------------------------------------
(***************************************************************************)
(* The theorems.                                                           *)
(***************************************************************************)

\* Every step keeps the types, and no two transactions ever hold a lock that
\* excludes the other, for any items, stages, callers and requests.
THEOREM TypeCorrect == Spec => []TypeOK
<1>1. PriorityInv => TypeOK
  <2> SUFFICES ASSUME PriorityInv PROVE TypeOK
    OBVIOUS
  <2>1. ShapeOK
    BY DEF PriorityInv
  <2>2. ASSUME NEW c \in Caller
        PROVE  /\ process[c].phase \in {"IDLE", "BLOCK", "SELECT", "LOCK"}
               /\ process[c].request \in Seq(Item \X (Level \cup {Cancel}))
               /\ process[c].due \subseteq Nat /\ process[c].next \in Nat
               /\ process[c].todo \subseteq Row /\ process[c].held \subseteq Row
               /\ process[c].items \subseteq Item
               /\ process[c].stamped \subseteq process[c].held
    BY <2>1 DEF PriorityInv, Plan, ShapeOK, CallerRecord, Entry
  <2>3. ASSUME NEW p \in Process,
               NEW q \in Process \ {p}
        PROVE  (Holds(p) \ ({"share"} \X Item)) \cap Holds(q) = {}
    <3>1. \A x \in Holds(p) \cap Holds(q) : x[1] = "share"
      BY DEF PriorityInv, HoldsInv
    <3>2. ASSUME NEW x \in Holds(p), x[1] = "share" PROVE x \in {"share"} \X Item
      <4>1. p \in Row
        <5>1. CASE p \in Caller
          BY <3>2, <5>1, CallerLocks DEF CallerHolds
        <5> QED
          BY <5>1, Processes
      <4>2. p[1] \in Item
        BY <4>1, Rows
      <4> QED
        BY <3>2, <4>1, <4>2, HandoffLocks DEF HandoffHolds
    <3> QED
      BY <3>1, <3>2
  <2>4. \A p \in Process :
          LET own == Holds(p) \ ({"share"} \X Item) IN
          own # {} => \A q \in Process \ {p} : own \cap Holds(q) = {}
    BY <2>3
  <2> QED
    BY <2>1, <2>2, <2>4 DEF TypeOK, ShapeOK, TablesOK, HandoffRecord
<1> QED
  BY <1>1, PrioritiesCorrect, PTL

\* Whatever is committed has the priority of its item, in the ledger and in
\* the queue, for any number of changes, handoffs and items at once.
THEOREM PrioritiesStayTogether == Spec => []PrioritiesAgree
<1>1. PriorityInv => PrioritiesAgree
  BY DEF PriorityInv
<1> QED
  BY <1>1, PrioritiesCorrect, PTL

\* A cancellation that commits leaves nothing of its item open, and no handoff
\* that could still add to it.
THEOREM CancellationsComplete == Spec => CancellationsTakeAll
<1>1. ASSUME PriorityInv, [Next]_vars, NEW c \in Caller, CommitCancel(c),
             NEW r \in Row, r[1] = ItemOf(c)
      PROVE  state'[r] \notin Nonterminal /\ handoff'[r].phase # "INSERT"
  <2>1. /\ process[c].held = Open(ItemOf(c))
        /\ \A h \in Row : handoff[h].phase = "INSERT" => h[1] # ItemOf(c)
    BY <1>1, CancelHolds
  <2>2. /\ state'[r] = IF r \in process[c].held THEN "CANCELLED" ELSE state[r]
        /\ UNCHANGED handoff
    BY <1>1 DEF CommitCancel
  <2> QED
    BY <1>1, <2>1, <2>2 DEF Open, Nonterminal
<1>2. PriorityInv /\ [Next]_vars =>
        [\A c \in Caller : CommitCancel(c) =>
           \A r \in Row : r[1] = ItemOf(c) =>
             state'[r] \notin Nonterminal /\ handoff'[r].phase # "INSERT"]_vars
  BY <1>1
<1> QED
  BY <1>2, PrioritiesCorrect, PTL DEF Spec, CancellationsTakeAll
-----------------------------------------------------------------------------
LEMMA SameWords ==
  /\ Lifecycle!Row = Row /\ Lifecycle!Nonterminal = Nonterminal
  /\ Lifecycle!Index = 0..Highest
  /\ \A r : Lifecycle!Above(r) = (r[2] + 1)..Highest
BY DEF Lifecycle!Row, Lifecycle!Index, Row, Lifecycle!Nonterminal, Nonterminal,
       Lifecycle!Above

LEMMA FactsAre ==
  /\ \A r \in Row : Facts[r].barrier = FALSE
  /\ \A r \in Row : Facts[r] = [barrier |-> FALSE, input |-> IF state[r] = "ABSENT"
                                                             THEN None ELSE Cancel]
BY DEF Facts

LEMMA FactsStay ==
  ASSUME \A r \in Row : state'[r] = "ABSENT" <=> state[r] = "ABSENT"
  PROVE  Facts' = Facts
BY DEF Facts

\* Lock by lock, with several statements, deadlocks and aborts: still no step
\* of the tables is one that the lifecycle does not have.
THEOREM ChangesImplementLifecycle == Spec => ImplementsLifecycle
<1>1. Init => Lifecycle!Init
  BY SameWords DEF Init, Lifecycle!Init, Facts, Lifecycle!NoFacts
<1>2. ASSUME PriorityInv, [Next]_vars
      PROVE  Lifecycle!Next \/ UNCHANGED <<state, Facts>>
  <2> DEFINE F == [barrier |-> FALSE, input |-> Cancel]
  <2>1. state \in [Row -> Nonterminal \cup {"ABSENT", "SUCCEEDED", "CANCELLED"}]
    BY <1>2 DEF PriorityInv, ShapeOK, TablesOK
  <2>2. F \in Lifecycle!Fact
    BY DEF Lifecycle!Fact
  <2>3. ASSUME UNCHANGED state PROVE UNCHANGED <<state, Facts>>
    BY <2>3 DEF Facts
  <2>4. ASSUME NEW i \in Item, NEW p \in Level, Submit(i, p) PROVE Lifecycle!Next
    <3>1. <<i, 0>> \in Row /\ wanted[i] = None /\ state' = [state EXCEPT ![<<i, 0>>] = "READY"]
      BY <2>4, Rows DEF Submit
    <3>2. \A r \in Row : r[1] = i => state[r] = "ABSENT"
      BY <1>2, <3>1 DEF PriorityInv, Known
    <3>3. \A r \in Lifecycle!RowsOf(i) : state[r] = "ABSENT"
      BY <3>2, SameWords DEF Lifecycle!RowsOf, Row
    <3>4. Facts' = [Facts EXCEPT ![<<i, 0>>] = F]
      BY <2>1, <3>1 DEF Facts
    <3>5. Lifecycle!Submit(i, F)
      BY <3>1, <3>3, <3>4 DEF Lifecycle!Submit
    <3> QED
      BY <2>2, <3>5 DEF Lifecycle!Next
  <2>5. ASSUME NEW r \in Row, Admit(r) PROVE Lifecycle!Next
    <3>1. state[r] = "READY" /\ state' = [state EXCEPT ![r] = "ADMITTED"]
      BY <2>5 DEF Admit
    <3>2. Facts' = Facts
      BY <2>1, <3>1, FactsStay
    <3>3. ~Lifecycle!Blocked(r)
      BY FactsAre DEF Lifecycle!Blocked
    <3>4. {r} \in SUBSET Lifecycle!Admissible
      BY <3>1, <3>3, SameWords DEF Lifecycle!Admissible
    <3>5. Lifecycle!Admit({r})
      BY <2>1, <3>1, <3>2, SameWords DEF Lifecycle!Admit
    <3> QED
      BY <3>4, <3>5, Zenon DEF Lifecycle!Next
  <2>6. ASSUME NEW r \in Row, Retry(r) PROVE Lifecycle!Next
    <3>1. state[r] = "FAILED" /\ state' = [state EXCEPT ![r] = "READY"]
      BY <2>6 DEF Retry
    <3>2. Facts' = Facts
      BY <2>1, <3>1, FactsStay
    <3>3. Lifecycle!Retry(r)
      BY <3>1, <3>2 DEF Lifecycle!Retry
    <3> QED
      BY <3>3, SameWords DEF Lifecycle!Next
  <2>7. ASSUME NEW r \in Row, state[r] = "ADMITTED", NEW v \in {"FAILED", "CANCELLED"},
               state' = [state EXCEPT ![r] = v]
        PROVE  Lifecycle!Next
    <3>1. Facts' = Facts
      BY <2>1, <2>7, FactsStay
    <3>2. Lifecycle!Abandon(r)
      BY <2>7, <3>1 DEF Lifecycle!Abandon
    <3> QED
      BY <3>2, SameWords DEF Lifecycle!Next
  <2>8. ASSUME NEW h \in Row, CommitHandoff(h) PROVE Lifecycle!Next
    <3> DEFINE ks == {s[2] : s \in Added(h)}
               succ == [k \in ks |-> F]
    <3>1. /\ state[h] = "ADMITTED" /\ Added(h) \subseteq Above(h)
          /\ state' = [r \in Row |-> IF r = h THEN "SUCCEEDED"
                                     ELSE IF r \in Added(h) THEN "READY" ELSE state[r]]
      BY <1>2, <2>8, CommitHandoffDoes DEF CommitHandoff
    <3>2. \A s \in Added(h) : /\ s \in Row /\ s = <<h[1], s[2]>> /\ s[1] = h[1] /\ s # h
                              /\ s[2] > h[2] /\ state[s] = "ABSENT"
      BY <3>1, Higher DEF Added
    <3>3. ks \in SUBSET Lifecycle!Above(h)
      <4>1. \A s \in Added(h) : s[2] \in 0..Highest /\ h[2] \in Nat
        BY <3>2, Rows
      <4> QED
        BY <3>2, <4>1, SameWords, Rows
    <3>4. Lifecycle!Fresh(h, succ) = Added(h)
      BY <3>2 DEF Lifecycle!Fresh
    <3>5. Lifecycle!Compatible(h, succ)
      BY <3>2 DEF Lifecycle!Compatible
    <3>6. Facts' = [s \in Row |-> IF s \in Added(h) THEN succ[s[2]] ELSE Facts[s]]
      <4>1. ASSUME NEW s \in Row
            PROVE  Facts'[s] = IF s \in Added(h) THEN succ[s[2]] ELSE Facts[s]
        <5>1. Facts'[s] = [barrier |-> FALSE, input |-> IF state'[s] = "ABSENT" THEN None
                                                        ELSE Cancel]
          BY DEF Facts
        <5>2. CASE s \in Added(h)
          <6>1. state'[s] = "READY" /\ succ[s[2]] = F
            BY <3>1, <3>2, <5>2
          <6> QED
            BY <5>1, <5>2, <6>1
        <5>3. CASE s \notin Added(h)
          <6>1. state'[s] = "ABSENT" <=> state[s] = "ABSENT"
            BY <3>1, <5>3
          <6> QED
            BY <5>1, <5>3, <6>1, FactsAre
        <5> QED
          BY <5>2, <5>3
      <4>2. Facts' = [s \in Row |-> Facts'[s]]
        BY DEF Facts
      <4> QED
        BY <4>1, <4>2
    <3>7. succ \in [ks -> Lifecycle!Fact]
      BY <2>2
    <3> HIDE DEF ks, succ
    <3>8. Lifecycle!Succeed(h, succ)
      BY <3>1, <3>4, <3>5, <3>6, SameWords DEF Lifecycle!Succeed
    <3>9. \E x \in SUBSET Lifecycle!Above(h) : \E y \in [x -> Lifecycle!Fact] : Lifecycle!Succeed(h, y)
      BY <3>3, <3>7, <3>8
    <3> QED
      BY <3>9, SameWords, Zenon DEF Lifecycle!Next
  <2>9. ASSUME NEW c \in Caller, CommitCancel(c) PROVE Lifecycle!Next
    <3> DEFINE i == ItemOf(c)
    <3>1. process[c].held = Open(i) /\ i \in Item
      BY <1>2, <2>9, CancelHolds
    <3>2. state' = [r \in Row |-> IF r \in process[c].held THEN "CANCELLED" ELSE state[r]]
      BY <2>9 DEF CommitCancel
    <3> HIDE DEF i
    <3>3. \A r \in Row : r \in process[c].held <=> r[1] = i /\ state[r] \in Nonterminal
      BY <3>1 DEF Open
    <3>4. state' = [r \in Row |-> IF r[1] = i /\ state[r] \in Nonterminal
                                  THEN "CANCELLED" ELSE state[r]]
      BY <3>2, <3>3
    <3>5. Facts' = Facts
      BY <3>4, FactsStay DEF Nonterminal
    <3>6. Lifecycle!CancelItem(i)
      BY <3>4, <3>5, SameWords DEF Lifecycle!CancelItem
    <3> QED
      BY <3>1, <3>6 DEF Lifecycle!Next
  <2>10. ASSUME NEW h \in Row, HandoffLock(h) PROVE Lifecycle!Next \/ UNCHANGED state
    <3>1. ShapeOK
      BY <1>2 DEF PriorityInv
    <3>2. CASE FailsNow(h)
      BY <2>7, <3>2 DEF FailsNow
    <3>3. CASE HandoffMoves(h)
      BY <3>3 DEF HandoffMoves, tables
    <3> QED
      BY <2>10, <3>1, <3>2, <3>3, HandoffLockDoes
  <2>11. ASSUME NEW r \in Row, SweepProject(r) PROVE Lifecycle!Next
    BY <2>7, <2>11 DEF SweepProject
  <2>12. ASSUME NEW c \in Caller, Advance(c) PROVE Lifecycle!Next \/ UNCHANGED state
    BY <2>9, <2>12 DEF Advance, LockRow, LockItem, Select, Reselect, NextItem, CommitChange, tables
  <2>13. ASSUME NEW h \in Row, Handoff(h) PROVE Lifecycle!Next \/ UNCHANGED state
    BY <2>8, <2>10, <2>13 DEF Handoff, ReadItem, WriteSuccessor, Conflict, tables
  <2>14. CASE UNCHANGED vars
    BY <2>3, <2>14 DEF vars
  <2>15. ASSUME NEW c \in Caller, StartCall(c) PROVE UNCHANGED state
    BY <2>15 DEF StartCall, tables
  <2>16. ASSUME NEW h \in Row, HandoffBegin(h) PROVE UNCHANGED state
    BY <2>16 DEF HandoffBegin, tables
  <2>17. ASSUME NEW p \in Process, DeadlockAbort(p) PROVE UNCHANGED state
    BY <2>17 DEF DeadlockAbort, tables
  <2>18. ASSUME Next PROVE Lifecycle!Next \/ UNCHANGED state
    BY <2>4, <2>5, <2>6, <2>11, <2>12, <2>13, <2>15, <2>16, <2>17, <2>18, Zenon DEF Next
  <2> QED
    BY <1>2, <2>3, <2>14, <2>18, Zenon
<1> QED
  BY <1>1, <1>2, PrioritiesCorrect, PTL DEF Spec, ImplementsLifecycle, Lifecycle!Spec
=============================================================================
