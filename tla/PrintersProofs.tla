--------------------------- MODULE PrintersProofs ---------------------------
(***************************************************************************)
(* Proofs about Printers for any set of users, any number of printers and  *)
(* any job length: the inductive invariant, that every printed line is the *)
(* whole job of one user, also when users are killed, and that the two     *)
(* programs implement PrintService.  At the end the same over any number   *)
(* of starts, interrupts and restarts (PrintersBoot).                      *)
(***************************************************************************)
EXTENDS PrintersBoot, TLAPS

\* main() of printers.c leaves every printer free and every buffer unused.
LEMMA InitialInvariant == Init => IInv
<1> SUFFICES ASSUME Init PROVE IInv
  OBVIOUS
<1> USE UsersAssumption, NumbersAssumption DEF Init
<1>1. TypeOK
  BY DEF TypeOK, Printers, Chars
<1>2. OneOwner /\ JobIntact
  BY DEF OneOwner, JobIntact, Busy, Holds, WORKING, WAITING
<1>3. PaperIntact /\ LineIntact
  BY DEF PaperIntact, LineIntact
<1>4. QED  BY <1>1, <1>2, <1>3 DEF IInv

\* Every step of a user or a printer, and a kill, preserves the invariant.
LEMMA InvariantStep == IInv /\ [Next]_vars => IInv'
<1> SUFFICES ASSUME IInv, [Next]_vars PROVE IInv'
  OBVIOUS
<1> USE UsersAssumption, NumbersAssumption
<1> USE DEF UserMove, PrinterMove, shared, users, printers, WORKING, WAITING
<1>0. TypeOK /\ OneOwner /\ JobIntact /\ PaperIntact /\ LineIntact
  BY DEF IInv
<1>1. ASSUME NEW u \in Users, ScanFree(u)
      PROVE  IInv'
  <2> USE <1>1
  <2>1. TypeOK'
    BY <1>0 DEF TypeOK, Printers, Chars, ScanFree
  <2>2. OneOwner'
    BY <1>0 DEF TypeOK, OneOwner, PaperIntact, Busy, Holds, ScanFree
  <2>3. JobIntact'
    BY <1>0 DEF TypeOK, OneOwner, JobIntact, PaperIntact, Busy, Holds, Chars, ScanFree
  <2>4. PaperIntact'
    BY <1>0 DEF TypeOK, OneOwner, PaperIntact, Busy, Holds, ScanFree
  <2>5. LineIntact'
    BY <1>0 DEF TypeOK, LineIntact, ScanFree
  <2>6. QED  BY <2>1, <2>2, <2>3, <2>4, <2>5 DEF IInv
<1>2. ASSUME NEW u \in Users, ScanBusy(u)
      PROVE  IInv'
  <2> USE <1>2
  <2>1. TypeOK'
    <3>1. at[u] + 1 \in Printers
      <4>1. at[u] \in Printers /\ at[u] < N
        BY <1>0 DEF TypeOK, ScanBusy
      <4>2. QED  BY <4>1 DEF Printers
    <3>2. QED  BY <1>0, <3>1 DEF TypeOK, ScanBusy
  <2>2. OneOwner'
    <3>1. sem' = sem /\ \A p \in Printers : Busy(p)' = Busy(p)
      BY DEF ScanBusy, Busy
    <3>2. \A v \in Users, p \in Printers : Holds(v, p)' <=> Holds(v, p)
      BY <1>0 DEF TypeOK, ScanBusy, Holds
    <3>3. QED  BY <1>0, <3>1, <3>2 DEF OneOwner
  <2>3. JobIntact'
    <3>1. /\ buffer' = buffer /\ size' = size /\ pos' = pos
          /\ \A p \in Printers : Busy(p)' = Busy(p)
      BY DEF ScanBusy, Busy
    <3>2. \A v \in Users, p \in Printers : Holds(v, p)' => Holds(v, p) /\ upc'[v] = upc[v]
      BY <1>0 DEF TypeOK, ScanBusy, Holds
    <3>3. QED  BY <1>0, <3>1, <3>2 DEF JobIntact
  <2>4. PaperIntact'
    BY <1>0 DEF TypeOK, OneOwner, PaperIntact, Busy, Holds, ScanBusy
  <2>5. LineIntact'
    BY <1>0 DEF TypeOK, LineIntact, ScanBusy
  <2>6. QED  BY <2>1, <2>2, <2>3, <2>4, <2>5 DEF IInv
<1>3. ASSUME NEW u \in Users, ScanRandom(u)
      PROVE  IInv'
  <2> USE <1>3
  <2>1. TypeOK'
    <3>1. at' \in [Users -> Printers]
      BY <1>0 DEF TypeOK, ScanRandom
    <3>2. QED  BY <1>0, <3>1 DEF TypeOK, ScanRandom
  <2>2. OneOwner'
    <3>1. sem' = sem /\ \A p \in Printers : Busy(p)' = Busy(p)
      BY DEF ScanRandom, Busy
    <3>2. \A v \in Users, p \in Printers : Holds(v, p)' <=> Holds(v, p)
      BY <1>0 DEF TypeOK, ScanRandom, Holds
    <3>3. QED  BY <1>0, <3>1, <3>2 DEF OneOwner
  <2>3. JobIntact'
    <3>1. /\ buffer' = buffer /\ size' = size /\ pos' = pos
          /\ \A p \in Printers : Busy(p)' = Busy(p)
      BY DEF ScanRandom, Busy
    <3>2. \A v \in Users, p \in Printers : Holds(v, p)' => Holds(v, p) /\ upc'[v] = upc[v]
      BY <1>0 DEF TypeOK, ScanRandom, Holds
    <3>3. QED  BY <1>0, <3>1, <3>2 DEF JobIntact
  <2>4. PaperIntact'
    BY <1>0 DEF TypeOK, OneOwner, PaperIntact, Busy, Holds, ScanRandom
  <2>5. LineIntact'
    BY <1>0 DEF TypeOK, LineIntact, ScanRandom
  <2>6. QED  BY <2>1, <2>2, <2>3, <2>4, <2>5 DEF IInv
<1>4. ASSUME NEW u \in Users, Acquire(u)
      PROVE  IInv'
  <2> USE <1>4
  <2>1. TypeOK'
    <3>1. sem[at[u]] - 1 \in {0, 1} /\ at[u] \in Printers /\ 1 \in 1..(JobLen + 1)
      BY <1>0 DEF TypeOK, Acquire, Available
    <3>2. QED  BY <1>0, <3>1 DEF TypeOK, Acquire
  <2>2. OneOwner'
    BY <1>0 DEF TypeOK, OneOwner, PaperIntact, Busy, Holds, Acquire, Available
  <2>3. JobIntact'
    BY <1>0 DEF TypeOK, OneOwner, JobIntact, PaperIntact, Busy, Holds, Chars, Acquire, Available
  <2>4. PaperIntact'
    BY <1>0 DEF TypeOK, OneOwner, PaperIntact, Busy, Holds, Acquire, Available
  <2>5. LineIntact'
    BY <1>0 DEF TypeOK, LineIntact, Acquire, Available
  <2>6. QED  BY <2>1, <2>2, <2>3, <2>4, <2>5 DEF IInv
<1>5. ASSUME NEW u \in Users, CopyChar(u)
      PROVE  IInv'
  <2> USE <1>5
  <2>1. TypeOK'
    <3>1. at[u] \in Printers /\ pos[u] \in Chars /\ pos[u] + 1 \in 1..(JobLen + 1)
      BY <1>0 DEF TypeOK, JobIntact, Holds, CopyChar, Chars
    <3>2. QED  BY <1>0, <3>1 DEF TypeOK, CopyChar
  <2>2. OneOwner'
    BY <1>0 DEF TypeOK, OneOwner, PaperIntact, Busy, Holds, CopyChar
  <2>3. JobIntact'
    <3>0. at[u] \in Printers /\ pos[u] \in Chars /\ Holds(u, at[u]) /\ upc[u] = "copy"
      BY <1>0 DEF TypeOK, JobIntact, Holds, CopyChar
    <3>1. ~Busy(at[u]) /\ \A v \in Users : Holds(v, at[u]) => v = u
      BY <1>0, <3>0 DEF OneOwner
    <3>2. \A p \in Printers : p # at[u] => buffer'[p] = buffer[p]
      BY <1>0, <3>0 DEF TypeOK, CopyChar
    <3>3. \A k \in Chars : buffer'[at[u]][k] = IF k = pos[u] THEN u ELSE buffer[at[u]][k]
      BY <1>0, <3>0 DEF TypeOK, CopyChar
    <3>4. pos'[u] = pos[u] + 1 /\ \A v \in Users : v # u => pos'[v] = pos[v] /\ upc'[v] = upc[v]
      BY <1>0 DEF TypeOK, CopyChar
    <3>5. upc'[u] = IF pos[u] = JobLen THEN "size" ELSE "copy"
      BY <1>0 DEF TypeOK, CopyChar
    <3>6. size' = size /\ at' = at /\ \A p \in Printers : Busy(p)' = Busy(p)
      BY DEF CopyChar, Busy
    <3>7. ASSUME NEW p \in Printers, NEW v \in Users, Holds(v, p)'
          PROVE  /\ \A k \in Chars : k < pos'[v] => buffer'[p][k] = v
                 /\ upc'[v] \in {"size", "work"} => pos'[v] = JobLen + 1
                 /\ upc'[v] = "copy" => pos'[v] \in Chars
                 /\ upc'[v] = "work" => size'[p] = JobLen
      <4>1. CASE v = u
        <5>1. p = at[u]  BY <3>6, <3>7, <4>1 DEF Holds
        <5>2. \A k \in Chars : k < pos[u] => buffer[p][k] = u
          BY <1>0, <3>0, <5>1 DEF JobIntact
        <5>3. QED  BY <3>0, <3>3, <3>4, <3>5, <4>1, <5>1, <5>2 DEF Chars
      <4>2. CASE v # u
        <5>1. Holds(v, p) /\ p # at[u]
          BY <3>1, <3>4, <3>6, <3>7, <4>2 DEF Holds
        <5>2. QED  BY <1>0, <3>2, <3>4, <3>6, <4>2, <5>1 DEF JobIntact
      <4>3. QED  BY <4>1, <4>2
    <3>8. ASSUME NEW p \in Printers, Busy(p)'
          PROVE  size'[p] = JobLen /\ \E v \in Users : \A k \in Chars : buffer'[p][k] = v
      BY <1>0, <3>1, <3>2, <3>6, <3>8 DEF JobIntact
    <3>9. QED  BY <3>7, <3>8 DEF JobIntact
  <2>4. PaperIntact'
    BY <1>0 DEF TypeOK, OneOwner, PaperIntact, Busy, Holds, CopyChar
  <2>5. LineIntact'
    BY <1>0 DEF TypeOK, LineIntact, CopyChar
  <2>6. QED  BY <2>1, <2>2, <2>3, <2>4, <2>5 DEF IInv
<1>6. ASSUME NEW u \in Users, SetSize(u)
      PROVE  IInv'
  <2> USE <1>6
  <2>1. TypeOK'
    <3>1. at[u] \in Printers /\ JobLen \in 0..JobLen
      BY <1>0 DEF TypeOK
    <3>2. QED  BY <1>0, <3>1 DEF TypeOK, SetSize
  <2>2. OneOwner'
    BY <1>0 DEF TypeOK, OneOwner, PaperIntact, Busy, Holds, SetSize
  <2>3. JobIntact'
    BY <1>0 DEF TypeOK, OneOwner, JobIntact, PaperIntact, Busy, Holds, Chars, SetSize
  <2>4. PaperIntact'
    BY <1>0 DEF TypeOK, OneOwner, PaperIntact, Busy, Holds, SetSize
  <2>5. LineIntact'
    BY <1>0 DEF TypeOK, LineIntact, SetSize
  <2>6. QED  BY <2>1, <2>2, <2>3, <2>4, <2>5 DEF IInv
<1>7. ASSUME NEW u \in Users, SetWorking(u)
      PROVE  IInv'
  <2> USE <1>7
  <2>1. TypeOK'
    <3>1. at[u] \in Printers /\ 1 \in Printers
      BY <1>0 DEF TypeOK, Printers
    <3>2. QED  BY <1>0, <3>1 DEF TypeOK, SetWorking
  <2>2. OneOwner'
    BY <1>0 DEF TypeOK, OneOwner, PaperIntact, Busy, Holds, SetWorking
  <2>3. JobIntact'
    BY <1>0 DEF TypeOK, OneOwner, JobIntact, PaperIntact, Busy, Holds, Chars, SetWorking
  <2>4. PaperIntact'
    BY <1>0 DEF TypeOK, OneOwner, PaperIntact, Busy, Holds, SetWorking
  <2>5. LineIntact'
    BY <1>0 DEF TypeOK, LineIntact, SetWorking
  <2>6. QED  BY <2>1, <2>2, <2>3, <2>4, <2>5 DEF IInv
<1>8. ASSUME NEW u \in Users, Kill(u)
      PROVE  IInv'
  <2> USE <1>8
  <2>1. TypeOK'
    BY <1>0 DEF TypeOK, Printers, Chars, Kill
  <2>2. OneOwner'
    BY <1>0 DEF TypeOK, OneOwner, PaperIntact, Busy, Holds, Kill
  <2>3. JobIntact'
    BY <1>0 DEF TypeOK, OneOwner, JobIntact, PaperIntact, Busy, Holds, Chars, Kill
  <2>4. PaperIntact'
    BY <1>0 DEF TypeOK, OneOwner, PaperIntact, Busy, Holds, Kill
  <2>5. LineIntact'
    BY <1>0 DEF TypeOK, LineIntact, Kill
  <2>6. QED  BY <2>1, <2>2, <2>3, <2>4, <2>5 DEF IInv
<1>9. ASSUME NEW p \in Printers, StartLine(p)
      PROVE  IInv'
  <2> USE <1>9
  <2>1. TypeOK'
    <3>1. 1 \in 1..(JobLen + 1)
      BY <1>0 DEF TypeOK
    <3>2. QED  BY <1>0, <3>1 DEF TypeOK, StartLine
  <2>2. OneOwner'
    BY <1>0 DEF TypeOK, OneOwner, PaperIntact, Busy, Holds, StartLine, Ready
  <2>3. JobIntact'
    BY <1>0 DEF TypeOK, OneOwner, JobIntact, PaperIntact, Busy, Holds, Chars, StartLine, Ready
  <2>4. PaperIntact'
    BY <1>0 DEF TypeOK, OneOwner, PaperIntact, Busy, Holds, StartLine, Ready
  <2>5. LineIntact'
    BY <1>0 DEF TypeOK, LineIntact, StartLine, Ready
  <2>6. QED  BY <2>1, <2>2, <2>3, <2>4, <2>5 DEF IInv
<1>10. ASSUME NEW p \in Printers, PrintChar(p)
      PROVE  IInv'
  <2> USE <1>10
  <2>1. TypeOK'
    <3>1. /\ head[p] \in Chars /\ head[p] + 1 \in 1..(JobLen + 1)
          /\ Append(paper[p], buffer[p][head[p]]) \in Seq(Users \cup {Nobody})
      BY <1>0 DEF TypeOK, Chars, PrintChar
    <3>2. QED  BY <1>0, <3>1 DEF TypeOK, PrintChar
  <2>2. OneOwner'
    BY <1>0 DEF TypeOK, OneOwner, PaperIntact, Busy, Holds, PrintChar
  <2>3. JobIntact'
    <3>1. /\ UNCHANGED <<buffer, size, users>>
          /\ \A q \in Printers : Busy(q)' => Busy(q)
      BY <1>0 DEF TypeOK, PrintChar, Busy
    <3>2. \A v \in Users, q \in Printers : Holds(v, q)' => Holds(v, q)
      BY <3>1 DEF Holds
    <3>3. QED  BY <1>0, <3>1, <3>2 DEF JobIntact
  <2>4. PaperIntact'
    BY <1>0 DEF TypeOK, OneOwner, PaperIntact, Busy, Holds, PrintChar
  <2>5. LineIntact'
    BY <1>0 DEF TypeOK, LineIntact, PrintChar
  <2>6. QED  BY <2>1, <2>2, <2>3, <2>4, <2>5 DEF IInv
<1>11. ASSUME NEW p \in Printers, EndLine(p)
      PROVE  IInv'
  <2> USE <1>11
  <2>1. TypeOK'
    <3>1. <<>> \in Seq(Users \cup {Nobody}) /\ paper[p] \in Seq(Users \cup {Nobody})
      BY <1>0 DEF TypeOK
    <3>2. QED  BY <1>0, <3>1 DEF TypeOK, EndLine
  <2>2. OneOwner'
    BY <1>0 DEF TypeOK, OneOwner, PaperIntact, Busy, Holds, EndLine
  <2>3. JobIntact'
    BY <1>0 DEF TypeOK, OneOwner, JobIntact, PaperIntact, Busy, Holds, Chars, EndLine
  <2>4. PaperIntact'
    BY <1>0 DEF TypeOK, OneOwner, PaperIntact, Busy, Holds, EndLine
  <2>5. LineIntact'
    <3>1. size[p] = JobLen /\ ppc[p] = "print"
      BY <1>0 DEF JobIntact, Busy, EndLine
    <3>2. head[p] = JobLen + 1
      BY <1>0, <3>1 DEF TypeOK, EndLine
    <3>3. paper[p] = [k \in Chars |-> buffer[p][k]]
      BY <1>0, <3>1, <3>2 DEF PaperIntact, Chars
    <3>4. PICK v \in Users : \A k \in Chars : buffer[p][k] = v
      BY <1>0, <3>1 DEF JobIntact, Busy
    <3>5. paper[p] = [k \in Chars |-> v]
      BY <3>3, <3>4
    <3>6. QED  BY <1>0, <3>5 DEF TypeOK, LineIntact, EndLine
  <2>6. QED  BY <2>1, <2>2, <2>3, <2>4, <2>5 DEF IInv
<1>12. ASSUME NEW p \in Printers, SetWaiting(p)
      PROVE  IInv'
  <2> USE <1>12
  <2>1. TypeOK'
    BY <1>0 DEF TypeOK, Printers, Chars, SetWaiting, IdleState
  <2>2. OneOwner'
    BY <1>0 DEF TypeOK, OneOwner, PaperIntact, Busy, Holds, SetWaiting, IdleState
  <2>3. JobIntact'
    BY <1>0 DEF TypeOK, OneOwner, JobIntact, PaperIntact, Busy, Holds, Chars, SetWaiting, IdleState
  <2>4. PaperIntact'
    BY <1>0 DEF TypeOK, OneOwner, PaperIntact, Busy, Holds, SetWaiting, IdleState
  <2>5. LineIntact'
    BY <1>0 DEF TypeOK, LineIntact, SetWaiting, IdleState
  <2>6. QED  BY <2>1, <2>2, <2>3, <2>4, <2>5 DEF IInv
<1>13. ASSUME NEW p \in Printers, Post(p)
      PROVE  IInv'
  <2> USE <1>13
  <2>1. TypeOK'
    <3>1. sem[p] + 1 \in {0, 1}
      <4>1. Busy(p) /\ sem[p] \in {0, 1}
        BY <1>0 DEF TypeOK, Busy, Post
      <4>2. sem[p] = 0
        BY <1>0, <4>1 DEF OneOwner
      <4>3. QED  BY <4>2
    <3>2. QED  BY <1>0, <3>1 DEF TypeOK, Post
  <2>2. OneOwner'
    BY <1>0 DEF TypeOK, OneOwner, PaperIntact, Busy, Holds, Post
  <2>3. JobIntact'
    BY <1>0 DEF TypeOK, OneOwner, JobIntact, PaperIntact, Busy, Holds, Chars, Post
  <2>4. PaperIntact'
    BY <1>0 DEF TypeOK, OneOwner, PaperIntact, Busy, Holds, Post
  <2>5. LineIntact'
    BY <1>0 DEF TypeOK, LineIntact, Post
  <2>6. QED  BY <2>1, <2>2, <2>3, <2>4, <2>5 DEF IInv
<1>14. CASE UNCHANGED vars
  BY <1>0, <1>14 DEF vars, shared, users, printers, IInv, TypeOK, OneOwner, JobIntact, PaperIntact,
     LineIntact, Busy, Holds
<1>15. QED
  BY <1>1, <1>2, <1>3, <1>4, <1>5, <1>6, <1>7, <1>8, <1>9, <1>10, <1>11, <1>12, <1>13, <1>14
     DEF Next, User, Printer

\* The inductive invariant: the semaphore, the state and the positions of the
\* processes agree about every printer's owner, in every interleaving
\* (users.c:65-82, printers.c:47-64).
THEOREM Invariance == Spec => []IInv
BY InitialInvariant, InvariantStep, PTL DEF Spec

\* Every variable keeps its type; no semaphore exceeds 1 (printers.c:59).
THEOREM TypeCorrect == Spec => []TypeOK
<1>1. IInv => TypeOK  BY DEF IInv
<1>2. QED  BY <1>1, Invariance, PTL

\* No printer is ever free and busy, or owned by two users (users.c:70-79).
THEOREM AtMostOneOwner == Spec => []OneOwner
<1>1. IInv => OneOwner  BY DEF IInv
<1>2. QED  BY <1>1, Invariance, PTL

\* Every line ever flushed is the whole job of one user (printers.c:50-55).
THEOREM LinesIntact == Spec => []LineIntact
<1>1. IInv => LineIntact  BY DEF IInv
<1>2. QED  BY <1>1, Invariance, PTL

-----------------------------------------------------------------------------
(* The programs implement the print service *)

\* The status and the owner of a printer, case by case.
StatusCases == \A p \in Printers :
    /\ sem[p] = 1 => Status[p] = "free" /\ Owner[p] = Nobody
    /\ \A u \in Users : Holds(u, p) => Status[p] = "held" /\ Owner[p] = u
    /\ Busy(p) => /\ Status[p] = IF ppc[p] \in {"idle", "post"} THEN "printed" ELSE "queued"
                  /\ Owner[p] = buffer[p][1]

LEMMA StatusKnown == IInv => StatusCases
<1> SUFFICES ASSUME IInv, NEW p \in Printers
             PROVE  /\ sem[p] = 1 => Status[p] = "free" /\ Owner[p] = Nobody
                    /\ \A u \in Users : Holds(u, p) => Status[p] = "held" /\ Owner[p] = u
                    /\ Busy(p) =>
                         /\ Status[p] = IF ppc[p] \in {"idle", "post"} THEN "printed" ELSE "queued"
                         /\ Owner[p] = buffer[p][1]
  BY DEF StatusCases
<1>0. TypeOK /\ OneOwner  BY DEF IInv
<1>1. ASSUME sem[p] = 1
      PROVE  Status[p] = "free" /\ Owner[p] = Nobody
  <2>1. ppc[p] = "poll"
    BY <1>0, <1>1 DEF OneOwner, Busy
  <2>2. Status[p] = "free"
    BY <1>1, <2>1 DEF Status
  <2>3. QED  BY <2>2 DEF Owner
<1>2. ASSUME NEW u \in Users, Holds(u, p)
      PROVE  Status[p] = "held" /\ Owner[p] = u
  <2>1. sem[p] # 1 /\ ~Busy(p) /\ \A v \in Users : Holds(v, p) => v = u
    BY <1>0, <1>2 DEF OneOwner
  <2>2. Status[p] = "held"
    BY <2>1 DEF Status, Busy
  <2>3. (CHOOSE v \in Users : Holds(v, p)) = u
    BY <1>2, <2>1
  <2>4. QED  BY <2>2, <2>3 DEF Owner
<1>3. ASSUME Busy(p)
      PROVE  /\ Status[p] = IF ppc[p] \in {"idle", "post"} THEN "printed" ELSE "queued"
             /\ Owner[p] = buffer[p][1]
  <2>1. sem[p] = 0
    BY <1>0, <1>3 DEF OneOwner, TypeOK
  <2>2. Status[p] = IF ppc[p] \in {"idle", "post"} THEN "printed" ELSE "queued"
    <3>1. CASE ppc[p] \in {"idle", "post"}
      BY <2>1, <3>1 DEF Status
    <3>2. CASE ppc[p] \notin {"idle", "post"}
      <4>1. ppc[p] \in {"poll", "print"} /\ state[p] = WORKING
        BY <1>0, <1>3, <3>2 DEF TypeOK, Busy, IInv, PaperIntact
      <4>2. QED  BY <2>1, <3>2, <4>1 DEF Status
    <3>3. QED  BY <3>1, <3>2
  <2>3. QED  BY <2>2 DEF Owner
<1>4. QED  BY <1>1, <1>2, <1>3

\* So it is after a step, too.
LEMMA StatusKnownNext == IInv' => StatusCases'
BY StatusKnown, PTL

\* What leaves the status and the owner of printer p as they are.
Undisturbed(p) ==
    /\ sem'[p] = sem[p]
    /\ \A u \in Users : Holds(u, p)' <=> Holds(u, p)
    /\ ppc'[p] \in {"idle", "post"} <=> ppc[p] \in {"idle", "post"}
    /\ Busy(p) => buffer'[p] = buffer[p]

LEMMA StatusKept ==
    ASSUME IInv, IInv', NEW p \in Printers, Undisturbed(p)
    PROVE  Status'[p] = Status[p] /\ Owner'[p] = Owner[p]
<1>1. StatusCases /\ StatusCases'
  BY StatusKnown, StatusKnownNext
<1>2. OneOwner /\ OneOwner' /\ sem[p] \in {0, 1}
  BY DEF IInv, TypeOK
<1>3. CASE sem[p] = 1
  BY <1>1, <1>3 DEF StatusCases, Undisturbed
<1>4. ASSUME NEW u \in Users, Holds(u, p)
      PROVE  Status'[p] = Status[p] /\ Owner'[p] = Owner[p]
  BY <1>1, <1>4 DEF StatusCases, Undisturbed
<1>5. CASE sem[p] = 0 /\ \A u \in Users : ~Holds(u, p)
  <2>1. Busy(p) /\ Busy(p)'
    BY <1>2, <1>5 DEF OneOwner, Undisturbed
  <2>2. QED  BY <1>1, <2>1 DEF StatusCases, Undisturbed
<1>6. QED  BY <1>2, <1>3, <1>4, <1>5

LEMMA ServiceStutter ==
    ASSUME IInv, IInv', \A p \in Printers : Undisturbed(p), output' = output
    PROVE  UNCHANGED Service!vars
<1>1. \A p \in Printers : Status'[p] = Status[p] /\ Owner'[p] = Owner[p]
  BY StatusKept
<1>2. Status' = Status /\ Owner' = Owner
  BY <1>1 DEF Status, Owner
<1>3. QED  BY <1>2 DEF Service!vars

\* A step of the service concerns one printer.
LEMMA ServiceMove ==
    ASSUME IInv, IInv', NEW p \in Printers,
           \A q \in Printers \ {p} : Undisturbed(q)
    PROVE  /\ Status' = [Status EXCEPT ![p] = Status'[p]]
           /\ Owner' = [Owner EXCEPT ![p] = Owner'[p]]
           /\ Owner'[p] = Owner[p] => Owner' = Owner
<1>1. \A q \in Printers : q # p => Status'[q] = Status[q] /\ Owner'[q] = Owner[q]
  BY StatusKept
<1> DEFINE status == [Status EXCEPT ![p] = Status'[p]]
           owner == [Owner EXCEPT ![p] = Owner'[p]]
<1>2. /\ Status = [q \in Printers |-> Status[q]] /\ Owner = [q \in Printers |-> Owner[q]]
      /\ Status' = [q \in Printers |-> Status'[q]] /\ Owner' = [q \in Printers |-> Owner'[q]]
  BY DEF Status, Owner
<1>3. \A q \in Printers : status[q] = Status'[q] /\ owner[q] = Owner'[q]
  BY <1>1, <1>2
<1> HIDE DEF status, owner
<1>4. Status' = status /\ Owner' = owner
  <2>1. status = [q \in Printers |-> status[q]] /\ owner = [q \in Printers |-> owner[q]]
    BY <1>2 DEF status, owner
  <2>2. QED  BY <1>2, <1>3, <2>1
<1>5. Owner'[p] = Owner[p] => Owner' = Owner
  BY <1>1, <1>2
<1>6. QED  BY <1>4, <1>5 DEF status, owner

LEMMA ServiceInit == Init => Service!Init
<1> SUFFICES ASSUME Init PROVE Service!Init
  OBVIOUS
<1>1. StatusCases /\ \A p \in Printers : sem[p] = 1
  BY InitialInvariant, StatusKnown DEF Init
<1>2. Status = [p \in Printers |-> "free"] /\ Owner = [p \in Printers |-> Nobody]
  BY <1>1 DEF StatusCases, Status, Owner
<1>3. QED  BY <1>2 DEF Init, Service!Init, Service!Nobody, Nobody

\* sem_wait takes a free printer for the user.
LEMMA ServiceTake ==
    ASSUME IInv, IInv', NEW u \in Users, Acquire(u), NEW p \in Printers, p = at[u]
    PROVE  Service!Take(u, p)
<1> USE DEF UserMove, users, printers
<1>0. TypeOK /\ StatusCases /\ StatusCases'
  BY StatusKnown, StatusKnownNext DEF IInv, TypeOK
<1>1. sem[p] = 1 /\ Holds(u, p)'
  BY <1>0 DEF TypeOK, Acquire, Available, Holds
<1>2. \A q \in Printers \ {p} : Undisturbed(q)
  BY <1>0 DEF TypeOK, Acquire, Undisturbed, Holds
<1>3. Status[p] = "free" /\ Status'[p] = "held" /\ Owner'[p] = u
  BY <1>0, <1>1 DEF StatusCases
<1>4. output' = output
  BY DEF Acquire
<1>5. QED  BY <1>0, <1>2, <1>3, <1>4, ServiceMove DEF Service!Take, Service!Advance

\* The store of WORKING submits the job, which is the user's.
LEMMA ServiceSubmit ==
    ASSUME IInv, IInv', NEW u \in Users, SetWorking(u), NEW p \in Printers, p = at[u]
    PROVE  Service!Submit(p)
<1> USE DEF UserMove, users, printers
<1>0. TypeOK /\ StatusCases /\ StatusCases'
  BY StatusKnown, StatusKnownNext DEF IInv, TypeOK
<1>1. Holds(u, p) /\ ppc[p] = "poll"
  BY <1>0 DEF SetWorking, Holds, IInv, OneOwner, Busy
<1>2. buffer[p][1] = u
  BY <1>0, <1>1, NumbersAssumption DEF SetWorking, IInv, JobIntact, Chars
<1>3. Busy(p)' /\ ppc'[p] = "poll" /\ buffer' = buffer /\ output' = output
  BY <1>0, <1>1 DEF TypeOK, SetWorking, Busy
<1>4. \A q \in Printers \ {p} : Undisturbed(q)
  BY <1>0 DEF TypeOK, SetWorking, Undisturbed, Holds
<1>5. Status[p] = "held" /\ Status'[p] = "queued" /\ Owner[p] = u /\ Owner'[p] = u
  BY <1>0, <1>1, <1>2, <1>3 DEF StatusCases
<1>6. Owner' = Owner
  BY <1>4, <1>5, ServiceMove
<1>7. QED  BY <1>0, <1>3, <1>4, <1>5, <1>6, ServiceMove DEF Service!Submit, Service!Advance

\* The flushed line is the whole job of the printer's owner.
LEMMA ServicePrintLine ==
    ASSUME IInv, IInv', NEW p \in Printers, EndLine(p)
    PROVE  Service!PrintLine(p)
<1> USE DEF PrinterMove, shared, users
<1>0. TypeOK /\ StatusCases /\ StatusCases'
  BY StatusKnown, StatusKnownNext DEF IInv
<1>1. /\ Busy(p) /\ Busy(p)' /\ ppc[p] = "print" /\ ppc'[p] = "idle" /\ buffer' = buffer
  BY <1>0 DEF TypeOK, EndLine, Busy
<1>2. paper[p] = [k \in Chars |-> buffer[p][1]]
  <2>1. size[p] = JobLen /\ \E u \in Users : \A k \in Chars : buffer[p][k] = u
    BY <1>1 DEF IInv, JobIntact
  <2>2. head[p] = JobLen + 1
    BY <1>0, <2>1, NumbersAssumption DEF TypeOK, EndLine
  <2>3. paper[p] = [k \in Chars |-> buffer[p][k]]
    <3>1. head[p] - 1 = JobLen
      BY <2>2, NumbersAssumption
    <3>2. QED  BY <1>1, <3>1 DEF IInv, PaperIntact, Chars
  <2>4. \A k \in Chars : buffer[p][k] = buffer[p][1]
    BY <2>1, NumbersAssumption DEF Chars
  <2>5. QED  BY <2>3, <2>4
<1>3. \A q \in Printers \ {p} : Undisturbed(q)
  BY <1>0 DEF TypeOK, EndLine, Undisturbed, Holds
<1>4. /\ Status[p] = "queued" /\ Status'[p] = "printed"
      /\ Owner[p] = buffer[p][1] /\ Owner'[p] = Owner[p]
  BY <1>0, <1>1 DEF StatusCases
<1>5. Owner' = Owner
  BY <1>3, <1>4, ServiceMove
<1>6. output' = [output EXCEPT ![p] = Service!WholeLine(Owner[p])]
  BY <1>2, <1>4 DEF EndLine, Service!WholeLine, Chars
<1>7. QED  BY <1>3, <1>4, <1>5, <1>6, ServiceMove DEF Service!PrintLine, Service!Advance

\* sem_post frees the printer.
LEMMA ServiceRelease ==
    ASSUME IInv, IInv', NEW p \in Printers, Post(p)
    PROVE  Service!Release(p)
<1> USE DEF PrinterMove, users
<1>0. TypeOK /\ TypeOK' /\ StatusCases /\ StatusCases'
  BY StatusKnown, StatusKnownNext DEF IInv
<1>1. Busy(p) /\ ppc[p] = "post" /\ output' = output
  BY DEF Post, Busy
<1>2. sem'[p] = 1
  <2>1. sem[p] \in {0, 1} /\ sem'[p] \in {0, 1}
    BY <1>0 DEF TypeOK
  <2>2. sem'[p] = sem[p] + 1
    BY <1>0 DEF TypeOK, Post
  <2>3. QED  BY <2>1, <2>2
<1>3. \A q \in Printers \ {p} : Undisturbed(q)
  BY <1>0 DEF TypeOK, Post, Undisturbed, Holds
<1>4. Status[p] = "printed" /\ Status'[p] = "free" /\ Owner'[p] = Nobody
  BY <1>0, <1>1, <1>2 DEF StatusCases
<1>5. QED  BY <1>1, <1>3, <1>4, ServiceMove
              DEF Service!Release, Service!Advance, Service!Nobody, Nobody

\* Every other step of a user or a printer.
QuietStep ==
    \/ \E u \in Users : \/ ScanFree(u) \/ ScanBusy(u) \/ ScanRandom(u) \/ CopyChar(u)
                        \/ SetSize(u) \/ Kill(u)
    \/ \E p \in Printers : StartLine(p) \/ PrintChar(p) \/ SetWaiting(p)
    \/ UNCHANGED vars

LEMMA ServiceQuiet ==
    ASSUME IInv, IInv', QuietStep
    PROVE  UNCHANGED Service!vars
<1> USE DEF UserMove, PrinterMove, shared, users, printers
<1>0. TypeOK /\ OneOwner /\ PaperIntact
  BY DEF IInv
<1>1. ASSUME NEW u \in Users, ScanFree(u) \/ ScanBusy(u) \/ ScanRandom(u) \/ SetSize(u) \/ Kill(u)
      PROVE  UNCHANGED Service!vars
  <2>1. UNCHANGED <<sem, ppc, buffer, output>>
    BY <1>1 DEF ScanFree, ScanBusy, ScanRandom, SetSize, Kill
  <2>2. \A v \in Users, q \in Printers : Holds(v, q)' <=> Holds(v, q)
    BY <1>0, <1>1 DEF TypeOK, ScanFree, ScanBusy, ScanRandom, SetSize, Kill, Holds
  <2>3. QED  BY <2>1, <2>2, ServiceStutter DEF Undisturbed
<1>2. ASSUME NEW u \in Users, CopyChar(u)
      PROVE  UNCHANGED Service!vars
  <2>1. UNCHANGED <<sem, ppc, output>>
    BY <1>2 DEF CopyChar
  <2>2. \A v \in Users, q \in Printers : Holds(v, q)' <=> Holds(v, q)
    BY <1>0, <1>2 DEF TypeOK, CopyChar, Holds
  <2>3. ~Busy(at[u]) /\ at[u] \in Printers
    BY <1>0, <1>2 DEF TypeOK, OneOwner, CopyChar, Holds
  <2>4. \A q \in Printers : Busy(q) => buffer'[q] = buffer[q]
    BY <1>0, <1>2, <2>3 DEF TypeOK, CopyChar
  <2>5. QED  BY <2>1, <2>2, <2>4, ServiceStutter DEF Undisturbed
<1>3. ASSUME NEW p \in Printers, StartLine(p) \/ PrintChar(p) \/ SetWaiting(p)
      PROVE  UNCHANGED Service!vars
  <2>1. UNCHANGED <<sem, buffer, upc, at, output>>
    BY <1>3 DEF StartLine, PrintChar, SetWaiting
  <2>2. \A q \in Printers : ppc'[q] \in {"idle", "post"} <=> ppc[q] \in {"idle", "post"}
    BY <1>0, <1>3 DEF TypeOK, StartLine, PrintChar, SetWaiting
  <2>3. QED  BY <2>1, <2>2, ServiceStutter DEF Undisturbed, Holds
<1>4. CASE UNCHANGED vars
  BY <1>4, ServiceStutter DEF vars, Undisturbed, Holds
<1>5. QED  BY <1>1, <1>2, <1>3, <1>4 DEF QuietStep

\* Any number of users and printers together are the print service, also when
\* users are killed (users.c:65-82, printers.c:47-64): a printer goes to one
\* user, and the line it prints is that user's job, once and whole.
THEOREM Refinement == Spec => ImplementsService
<1>1. IInv /\ IInv' /\ [Next]_vars => [Service!Next]_(Service!vars)
  <2> SUFFICES ASSUME IInv, IInv', [Next]_vars
               PROVE  Service!Next \/ UNCHANGED Service!vars
    OBVIOUS
  <2>0. \A u \in Users : at[u] \in Printers
    BY DEF IInv, TypeOK
  <2>1. CASE \E u \in Users : Acquire(u)
    BY <2>0, <2>1, ServiceTake DEF Service!Next
  <2>2. CASE \E u \in Users : SetWorking(u)
    BY <2>0, <2>2, ServiceSubmit DEF Service!Next
  <2>3. CASE \E p \in Printers : EndLine(p)
    BY <2>3, ServicePrintLine DEF Service!Next
  <2>4. CASE \E p \in Printers : Post(p)
    BY <2>4, ServiceRelease DEF Service!Next
  <2>5. CASE QuietStep
    BY <2>5, ServiceQuiet
  <2>6. QED
    BY <2>1, <2>2, <2>3, <2>4, <2>5 DEF Next, User, Printer, QuietStep
<1>2. QED
  BY <1>1, ServiceInit, Invariance, PTL DEF Spec, ImplementsService, Service!Spec

-----------------------------------------------------------------------------
(* Starts and restarts: the inductive invariant of PrintersBoot *)

\* What main() of printers.c has made of printer p in this run: memset has
\* cleared it, sem_init has been called but the state is not stored yet, or it
\* is initialised and not forked.
Cleared(p) ==
    \/ boot = "clear" /\ p < next
    \/ boot = "number"
    \/ boot = "sem" /\ p >= next
    \/ boot = "state" /\ p > next
HalfMade(p) == boot = "state" /\ p = next
Prepared(p) ==
    \/ boot \in {"sem", "state"} /\ p < next
    \/ boot = "fork" /\ p >= next

\* Printer p has a job: a process that has left its loop, or an initialised
\* segment that says so.
Engaged(p) == state[p] = WORKING \/ (p \in running /\ ppc[p] # "poll")

\* Printer p is free, at one user or engaged, and its buffer is as far as its
\* user is, or whole.
Owned(p) ==
    /\ sem[p] \in {0, 1}
    /\ sem[p] = 1 => ~Engaged(p) /\ \A u \in Users : ~AtWork(u, p)
    /\ Engaged(p) => /\ \A u \in Users : ~AtWork(u, p)
                     /\ size[p] = JobLen
                     /\ \E u \in Users : \A k \in Chars : buffer[p][k] = u
    /\ sem[p] = 0 => Engaged(p) \/ \E u \in Users : Holds(u, p)
    /\ \A u, v \in Users : AtWork(u, p) /\ AtWork(v, p) => u = v
    /\ \A u \in Users : AtWork(u, p) =>
         /\ \A k \in Chars : k < pos[u] => buffer[p][k] = u
         /\ upc[u] \in {"size", "work"} => pos[u] = JobLen + 1
         /\ upc[u] = "copy" => pos[u] \in Chars
         /\ upc[u] = "work" => size[p] = JobLen

\* The process of printer p has printed what is in the buffer.
Printing(p) ==
    /\ ppc[p] \in {"print", "idle"} => state[p] = WORKING
    /\ ppc[p] = "post" => state[p] = WAITING
    /\ ppc[p] = "print" => paper[p] = [k \in 1..(head[p] - 1) |-> buffer[p][k]]
    /\ ppc[p] # "print" => paper[p] = <<>>

Sound(p) ==
    /\ Cleared(p) => sem[p] = 0 /\ \A u \in Users : ~AtWork(u, p)
    /\ HalfMade(p) => sem[p] = 1 /\ \A u \in Users : ~AtWork(u, p)
    /\ Prepared(p) \/ p \in running => Owned(p)
    /\ p \in running => Printing(p)

\* Printers run behind the loop that forks them.
ForkedInOrder == \A p \in running : boot = "wait" \/ (boot = "fork" /\ p < next)

BootTypes ==
    /\ sem \in [Printers -> Nat]
    /\ state \in [Printers -> {WORKING, WAITING}]
    /\ buffer \in [Printers -> [Chars -> Users \cup {Nobody}]]
    /\ size \in [Printers -> 0..JobLen]
    /\ upc \in [Users -> {"scan", "wait", "copy", "size", "work"}]
    /\ at \in [Users -> Printers]
    /\ pos \in [Users -> Nat]
    /\ ppc \in [Printers -> {"poll", "print", "idle", "post"}]
    /\ head \in [Printers -> 1..(JobLen + 1)]
    /\ paper \in [Printers -> Seq(Users \cup {Nobody})]
    /\ output \in [Printers -> Seq(Users \cup {Nobody})]
    /\ boot \in {"off", "truncate", "clear", "number", "sem", "state", "fork", "wait"}
    /\ next \in 1..(N + 1)
    /\ boot \in {"sem", "state", "fork"} => next \in Printers
    /\ segment \in {"none", "empty", "sized", "unlinked"}
    /\ number \in {0, N}
    /\ running \in SUBSET Printers
    /\ opened \in SUBSET Users
    /\ dividing \in SUBSET opened
    /\ overtaken \in BOOLEAN

BootIInv ==
    /\ BootTypes /\ ForkedInOrder
    /\ ~overtaken => LineIntact /\ \A p \in Printers : Sound(p)


-----------------------------------------------------------------------------
(* Starts and restarts: what leaves a printer sound *)

LEMMA SoundKept ==
    ASSUME NEW p \in Printers, Sound(p),
           Cleared(p)' => Cleared(p), HalfMade(p)' => HalfMade(p),
           Prepared(p)' \/ p \in running' =>
             (Prepared(p) \/ p \in running) /\ (Engaged(p)' <=> Engaged(p)),
           p \in running' =>
             p \in running /\ ppc'[p] = ppc[p] /\ head'[p] = head[p] /\ paper'[p] = paper[p],
           sem'[p] = sem[p], state'[p] = state[p], buffer'[p] = buffer[p], size'[p] = size[p],
           \A u \in Users : AtWork(u, p)' => AtWork(u, p) /\ upc'[u] = upc[u] /\ pos'[u] = pos[u],
           \A u \in Users : Holds(u, p) => Holds(u, p)'
    PROVE  Sound(p)'
<1>1. Cleared(p)' => sem'[p] = 0 /\ \A u \in Users : ~AtWork(u, p)'
  BY DEF Sound
<1>2. HalfMade(p)' => sem'[p] = 1 /\ \A u \in Users : ~AtWork(u, p)'
  BY DEF Sound
<1>3. Prepared(p)' \/ p \in running' => Owned(p)'
  BY DEF Sound, Owned, Chars
<1>4. p \in running' => Printing(p)'
  BY DEF Sound, Printing
<1> QED  BY <1>1, <1>2, <1>3, <1>4 DEF Sound

\* A step that no printer notices.
LEMMA AllSoundKept ==
    ASSUME \A p \in Printers : Sound(p),
           UNCHANGED <<shared, printers>>,
           \A p \in Printers :
             /\ Cleared(p)' => Cleared(p)
             /\ HalfMade(p)' => HalfMade(p)
             /\ Prepared(p)' => Prepared(p) /\ (p \in running <=> p \in running')
             /\ p \in running' => p \in running
             /\ \A u \in Users : /\ AtWork(u, p)' => AtWork(u, p) /\ upc'[u] = upc[u] /\ pos'[u] = pos[u]
                                 /\ Holds(u, p) => Holds(u, p)'
    PROVE  \A p \in Printers : Sound(p)'
<1> SUFFICES ASSUME NEW p \in Printers PROVE Sound(p)'
  OBVIOUS
<1>1. UNCHANGED <<sem, state, buffer, size, ppc, head, paper>>
  BY DEF shared, printers
<1>2. Prepared(p)' \/ p \in running' =>
        (Prepared(p) \/ p \in running) /\ (Engaged(p)' <=> Engaged(p))
  BY <1>1 DEF Engaged
<1> QED  BY <1>1, <1>2, SoundKept

-----------------------------------------------------------------------------
(* Steps of main() in printers.c *)

\* Its steps that store nothing in the row of a printer, Ctrl-C, and the death
\* of a printer.
LEMMA QuietMain ==
    ASSUME BootIInv,
           Open \/ Truncate \/ ClearNumber \/ StoreNumber \/ Remove \/ Interrupt
             \/ \E p \in Printers : KillPrinter(p)
    PROVE  BootIInv'
<1> USE NumbersAssumption
<1>1. BootTypes /\ ForkedInOrder
  BY DEF BootIInv
<1>2. UNCHANGED <<shared, printers, users, dead, opened, dividing, overtaken>>
  BY DEF Open, Truncate, ClearNumber, StoreNumber, Remove, Interrupt, KillPrinter, BootMove, Kept
<1>3. UNCHANGED <<sem, state, buffer, size, upc, at, pos, ppc, head, paper, output>>
  BY <1>2 DEF shared, printers, users
<1>4. BootTypes'
  <2>1. /\ boot' \in {"off", "truncate", "clear", "number", "sem", "state", "fork", "wait"}
        /\ next' \in 1..(N + 1) /\ (boot' \in {"sem", "state", "fork"} => next' \in Printers)
    <3>1. CASE Open \/ Remove \/ Interrupt
      BY <1>1, <3>1 DEF BootTypes, Open, Remove, Interrupt, BootMove
    <3>2. CASE Truncate \/ ClearNumber \/ StoreNumber
      BY <1>1, <3>2 DEF BootTypes, Truncate, ClearNumber, StoreNumber, BootMove, Printers
    <3>3. CASE \E p \in Printers : KillPrinter(p)
      BY <1>1, <3>3 DEF BootTypes, KillPrinter, bootVars
    <3> QED  BY <3>1, <3>2, <3>3
  <2>2. /\ segment' \in {"none", "empty", "sized", "unlinked"}
        /\ number' \in {0, N} /\ running' \in SUBSET Printers
    BY <1>1 DEF BootTypes, Open, Truncate, ClearNumber, StoreNumber, Remove, Interrupt,
                KillPrinter, Kept, bootVars
  <2> QED  BY <1>1, <1>2, <1>3, <2>1, <2>2 DEF BootTypes
<1>5. ForkedInOrder'
  BY <1>1 DEF ForkedInOrder, Open, Truncate, ClearNumber, StoreNumber, Remove, Interrupt,
              KillPrinter, BootMove, bootVars
<1>6. \A p \in Printers :
        /\ Cleared(p)' => Cleared(p)
        /\ HalfMade(p)' => HalfMade(p)
        /\ Prepared(p)' => Prepared(p) /\ (p \in running <=> p \in running')
        /\ p \in running' => p \in running
  <2> SUFFICES ASSUME NEW p \in Printers
               PROVE  /\ Cleared(p)' => Cleared(p)
                      /\ HalfMade(p)' => HalfMade(p)
                      /\ Prepared(p)' => Prepared(p) /\ (p \in running <=> p \in running')
                      /\ p \in running' => p \in running
    OBVIOUS
  <2> USE DEF Cleared, HalfMade, Prepared, BootMove, Printers
  <2>1. CASE Open \/ Remove \/ Interrupt
    BY <2>1 DEF Open, Remove, Interrupt
  <2>2. CASE Truncate \/ ClearNumber \/ StoreNumber
    BY <2>2 DEF Truncate, ClearNumber, StoreNumber
  <2>3. CASE \E q \in Printers : KillPrinter(q)
    <3>1. UNCHANGED <<boot, next>> /\ running' \subseteq running
      BY <2>3 DEF KillPrinter, bootVars
    <3>2. Prepared(p) => p \notin running
      BY <1>1 DEF ForkedInOrder, BootTypes
    <3> QED  BY <3>1, <3>2
  <2> QED  BY <2>1, <2>2, <2>3
<1>7. ~overtaken' => LineIntact' /\ \A p \in Printers : Sound(p)'
  <2> SUFFICES ASSUME ~overtaken PROVE LineIntact' /\ \A p \in Printers : Sound(p)'
    BY <1>2
  <2>1. LineIntact /\ \A p \in Printers : Sound(p)
    BY DEF BootIInv
  <2>2. LineIntact'
    BY <1>3, <2>1 DEF LineIntact
  <2>3. \A p \in Printers, u \in Users :
          /\ AtWork(u, p)' => AtWork(u, p) /\ upc'[u] = upc[u] /\ pos'[u] = pos[u]
          /\ Holds(u, p) => Holds(u, p)'
    BY <1>2, <1>3 DEF AtWork, Holds
  <2>4. \A p \in Printers : Sound(p)'
    BY <1>2, <1>6, <2>1, <2>3, AllSoundKept
  <2> QED  BY <2>2, <2>4
<1> QED  BY <1>4, <1>5, <1>7 DEF BootIInv

\* memset of a printer's row, where no user is at work or the step is overtaken.
LEMMA ClearPrinterStep == ASSUME BootIInv, ClearPrinter PROVE BootIInv'
<1> USE NumbersAssumption
<1>1. BootTypes /\ ForkedInOrder
  BY DEF BootIInv
<1>2. /\ boot = "clear" /\ boot' = "clear" /\ next \in Printers /\ next' = next + 1
      /\ sem' = [sem EXCEPT ![next] = 0] /\ state' = [state EXCEPT ![next] = WORKING]
      /\ buffer' = [buffer EXCEPT ![next] = [k \in Chars |-> Nobody]]
      /\ size' = [size EXCEPT ![next] = 0]
      /\ overtaken' = (overtaken \/ \E u \in Users : AtWork(u, next))
      /\ UNCHANGED <<upc, at, pos, dead, opened, dividing>>
      /\ UNCHANGED <<ppc, head, paper, output, segment, number, starts, running>>
  BY DEF ClearPrinter, BootMove, users, printers
<1>3. BootTypes'
  <2>1. buffer' \in [Printers -> [Chars -> Users \cup {Nobody}]] /\ size' \in [Printers -> 0..JobLen]
    BY <1>1, <1>2 DEF BootTypes
  <2>2. /\ next' \in 1..(N + 1) /\ overtaken' \in BOOLEAN
        /\ sem' \in [Printers -> Nat] /\ state' \in [Printers -> {WORKING, WAITING}]
    BY <1>1, <1>2 DEF BootTypes, Printers
  <2> QED  BY <1>1, <1>2, <2>1, <2>2 DEF BootTypes
<1>4. running = {} /\ ForkedInOrder'
  BY <1>1, <1>2 DEF ForkedInOrder
<1>5. ASSUME ~overtaken', NEW p \in Printers PROVE Sound(p)'
  <2>1. Sound(p) /\ \A u \in Users : ~AtWork(u, next)
    BY <1>2, <1>5 DEF BootIInv
  <2>2. ~HalfMade(p)' /\ ~Prepared(p)' /\ p \notin running' /\ (Cleared(p)' <=> p < next + 1)
    BY <1>2, <1>4 DEF HalfMade, Prepared, Cleared
  <2>3. CASE p = next
    BY <1>1, <1>2, <2>1, <2>2, <2>3 DEF Sound, AtWork, Holds, BootTypes
  <2>4. CASE p # next
    <3>1. Cleared(p)' => Cleared(p)
      BY <1>1, <1>2, <2>2, <2>4 DEF Cleared, Printers
    <3> QED  BY <1>1, <1>2, <2>1, <2>2, <2>4, <3>1 DEF Sound, AtWork, Holds, BootTypes
  <2> QED  BY <2>3, <2>4
<1>6. ~overtaken' => LineIntact'
  BY <1>2 DEF BootIInv, LineIntact
<1> QED  BY <1>3, <1>4, <1>5, <1>6 DEF BootIInv

\* sem_init of a printer that memset has cleared.
LEMMA InitSemStep == ASSUME BootIInv, InitSem PROVE BootIInv'
<1> USE NumbersAssumption
<1>1. BootTypes /\ ForkedInOrder
  BY DEF BootIInv
<1>2. /\ boot = "sem" /\ boot' = "state" /\ sem' = [sem EXCEPT ![next] = 1]
      /\ UNCHANGED <<upc, at, pos, dead, opened, dividing, state, buffer, size>>
      /\ UNCHANGED <<ppc, head, paper, output, next, segment, number, starts, running, overtaken>>
  BY DEF InitSem, BootMove, users, printers
<1>3. BootTypes' /\ next \in Printers
  BY <1>1, <1>2 DEF BootTypes, Printers
<1>4. running = {} /\ ForkedInOrder'
  BY <1>1, <1>2 DEF ForkedInOrder
<1>5. ASSUME ~overtaken', NEW p \in Printers PROVE Sound(p)'
  <2>1. Sound(p)
    BY <1>2, <1>5 DEF BootIInv
  <2>2. CASE p = next
    <3>1. Cleared(p) /\ ~Cleared(p)' /\ HalfMade(p)' /\ ~Prepared(p)' /\ p \notin running'
      BY <1>2, <1>3, <1>4, <2>2 DEF Cleared, HalfMade, Prepared, Printers
    <3> QED  BY <1>1, <1>2, <2>1, <2>2, <3>1 DEF Sound, AtWork, Holds, BootTypes
  <2>3. CASE p # next
    <3>1. /\ Cleared(p)' => Cleared(p)
          /\ ~HalfMade(p)'
          /\ Prepared(p)' => Prepared(p)
      BY <1>2, <1>3, <2>3 DEF Cleared, HalfMade, Prepared, Printers
    <3> QED  BY <1>1, <1>2, <1>4, <2>1, <2>3, <3>1, SoundKept DEF AtWork, Holds, BootTypes, Engaged
  <2> QED  BY <2>2, <2>3
<1>6. ~overtaken' => LineIntact'
  BY <1>2 DEF BootIInv, LineIntact
<1> QED  BY <1>3, <1>4, <1>5, <1>6 DEF BootIInv

\* The state of a printer whose semaphore is initialised and still untouched.
LEMMA InitStateStep == ASSUME BootIInv, InitState PROVE BootIInv'
<1> USE NumbersAssumption
<1>1. BootTypes /\ ForkedInOrder
  BY DEF BootIInv
<1>2. /\ boot = "state" /\ boot' = (IF next = N THEN "fork" ELSE "sem")
      /\ next' = (IF next = N THEN 1 ELSE next + 1)
      /\ state' = [state EXCEPT ![next] = WAITING]
      /\ UNCHANGED <<upc, at, pos, dead, opened, dividing, sem, buffer, size>>
      /\ UNCHANGED <<ppc, head, paper, output, segment, number, starts, running, overtaken>>
  BY DEF InitState, FirstState, LastPrinter, BootMove, users, printers
<1>3. BootTypes' /\ next \in Printers
  <2>1. next \in Printers
    BY <1>1, <1>2 DEF BootTypes
  <2>2. next' \in Printers /\ next' \in 1..(N + 1)
    BY <1>2, <2>1 DEF Printers
  <2>3. state' \in [Printers -> {WORKING, WAITING}] /\ boot' \in {"fork", "sem"}
    BY <1>1, <1>2 DEF BootTypes
  <2> QED  BY <1>1, <1>2, <2>1, <2>2, <2>3 DEF BootTypes
<1>4. running = {} /\ ForkedInOrder'
  BY <1>1, <1>2 DEF ForkedInOrder
<1>5. ASSUME ~overtaken', NEW p \in Printers PROVE Sound(p)'
  <2>1. Sound(p)
    BY <1>2, <1>5 DEF BootIInv
  <2>2. CASE p = next
    <3>1. HalfMade(p) /\ ~Cleared(p)' /\ ~HalfMade(p)' /\ p \notin running'
      BY <1>2, <1>3, <1>4, <2>2 DEF Cleared, HalfMade, Prepared, Printers
    <3>2. /\ sem'[p] = 1 /\ state'[p] = WAITING
          /\ \A u \in Users : ~AtWork(u, p)'
      BY <1>1, <1>2, <2>1, <2>2, <3>1 DEF Sound, AtWork, Holds, BootTypes
    <3>3. Owned(p)'
      BY <3>1, <3>2 DEF Owned, Engaged, WORKING, WAITING
    <3> QED  BY <3>1, <3>3 DEF Sound
  <2>3. CASE p # next
    <3>1. /\ Cleared(p)' => Cleared(p)
          /\ ~HalfMade(p)'
          /\ Prepared(p)' => Prepared(p)
      BY <1>2, <1>3, <2>3 DEF Cleared, HalfMade, Prepared, Printers
    <3> QED  BY <1>1, <1>2, <1>4, <2>1, <2>3, <3>1, SoundKept DEF AtWork, Holds, BootTypes, Engaged
  <2> QED  BY <2>2, <2>3
<1>6. ~overtaken' => LineIntact'
  BY <1>2 DEF BootIInv, LineIntact
<1> QED  BY <1>3, <1>4, <1>5, <1>6 DEF BootIInv

\* A printer is forked with an empty page.
LEMMA ForkStep == ASSUME BootIInv, Fork PROVE BootIInv'
<1> USE NumbersAssumption
<1>1. BootTypes /\ ForkedInOrder
  BY DEF BootIInv
<1>2. /\ boot = "fork" /\ boot' = (IF next = N THEN "wait" ELSE "fork")
      /\ next' = (IF next = N THEN 1 ELSE next + 1)
      /\ running' = running \cup {next}
      /\ ppc' = [ppc EXCEPT ![next] = "poll"] /\ paper' = [paper EXCEPT ![next] = <<>>]
      /\ UNCHANGED <<upc, at, pos, dead, opened, dividing, sem, state, buffer, size>>
      /\ UNCHANGED <<head, output, segment, number, starts, overtaken>>
  BY DEF Fork, LastPrinter, BootMove, users, shared
<1>3. BootTypes' /\ next \in Printers
  <2>1. next \in Printers
    BY <1>1, <1>2 DEF BootTypes
  <2>2. next' \in Printers /\ next' \in 1..(N + 1)
    BY <1>2, <2>1 DEF Printers
  <2>3. <<>> \in Seq(Users \cup {Nobody})
    OBVIOUS
  <2>4. /\ paper' \in [Printers -> Seq(Users \cup {Nobody})] /\ boot' \in {"fork", "wait"}
        /\ ppc' \in [Printers -> {"poll", "print", "idle", "post"}]
        /\ running' \in SUBSET Printers
    BY <1>1, <1>2, <2>1, <2>3 DEF BootTypes
  <2> QED  BY <1>1, <1>2, <2>1, <2>2, <2>4 DEF BootTypes
<1>4. next \notin running /\ ForkedInOrder'
  BY <1>1, <1>2, <1>3 DEF ForkedInOrder, BootTypes, Printers
<1>5. ASSUME ~overtaken', NEW p \in Printers PROVE Sound(p)'
  <2>1. Sound(p)
    BY <1>2, <1>5 DEF BootIInv
  <2>2. ~Cleared(p)' /\ ~HalfMade(p)'
    BY <1>2 DEF Cleared, HalfMade
  <2>3. CASE p = next
    <3>1. Prepared(p) /\ Owned(p)
      BY <1>2, <1>3, <2>1, <2>3 DEF Prepared, Sound, Printers
    <3>2. ppc'[p] = "poll" /\ paper'[p] = <<>> /\ (Engaged(p)' <=> Engaged(p))
      BY <1>1, <1>2, <1>4, <2>3 DEF Engaged, BootTypes
    <3>3. Owned(p)' /\ Printing(p)'
      BY <1>2, <3>1, <3>2 DEF Owned, Printing, AtWork, Holds, Chars
    <3> QED  BY <2>2, <3>3 DEF Sound
  <2>4. CASE p # next
    <3>1. Prepared(p)' => Prepared(p)
      BY <1>2, <1>3, <2>4 DEF Prepared, Printers
    <3>2. (p \in running' <=> p \in running) /\ ppc'[p] = ppc[p] /\ paper'[p] = paper[p]
      BY <1>1, <1>2, <2>4 DEF BootTypes
    <3>3. Engaged(p)' <=> Engaged(p)
      BY <1>2, <3>2 DEF Engaged
    <3>4. \A u \in Users : (AtWork(u, p)' <=> AtWork(u, p)) /\ (Holds(u, p)' <=> Holds(u, p))
      BY <1>2 DEF AtWork, Holds
    <3> QED  BY <1>2, <2>1, <2>2, <3>1, <3>2, <3>3, <3>4, SoundKept
  <2> QED  BY <2>3, <2>4
<1>6. ~overtaken' => LineIntact'
  BY <1>2 DEF BootIInv, LineIntact
<1> QED  BY <1>3, <1>4, <1>5, <1>6 DEF BootIInv

-----------------------------------------------------------------------------
(* Steps of the printers' processes *)

\* A step of the process of printer q that keeps q owned and its page right.
LEMMA PrinterStep ==
    ASSUME BootIInv, BootTypes', NEW q \in running,
           UNCHANGED <<upc, at, pos, dead, boot, next, running, overtaken>>,
           \A p \in Printers \ {q} :
             /\ sem'[p] = sem[p] /\ state'[p] = state[p]
             /\ buffer'[p] = buffer[p] /\ size'[p] = size[p]
             /\ ppc'[p] = ppc[p] /\ head'[p] = head[p]
             /\ paper'[p] = paper[p] /\ output'[p] = output[p],
           Owned(q) /\ Printing(q) =>
             /\ Owned(q)' /\ Printing(q)'
             /\ output'[q] = output[q] \/ \E u \in Users : output'[q] = [k \in Chars |-> u]
    PROVE  BootIInv'
<1>1. BootTypes /\ ForkedInOrder /\ q \in Printers
  BY DEF BootIInv, BootTypes
<1>2. ForkedInOrder'
  BY <1>1 DEF ForkedInOrder
<1>3. \A p \in Printers :
        /\ Cleared(p)' <=> Cleared(p)
        /\ HalfMade(p)' <=> HalfMade(p)
        /\ Prepared(p)' <=> Prepared(p)
        /\ \A u \in Users : (AtWork(u, p)' <=> AtWork(u, p)) /\ (Holds(u, p)' <=> Holds(u, p))
  BY DEF Cleared, HalfMade, Prepared, AtWork, Holds
<1>4. ASSUME ~overtaken' PROVE LineIntact' /\ \A p \in Printers : Sound(p)'
  <2>1. LineIntact /\ \A p \in Printers : Sound(p)
    BY <1>4 DEF BootIInv
  <2>2. /\ Owned(q)' /\ Printing(q)'
        /\ output'[q] = output[q] \/ \E u \in Users : output'[q] = [k \in Chars |-> u]
    BY <1>1, <2>1 DEF Sound
  <2>3. ASSUME NEW p \in Printers, output'[p] # <<>>
        PROVE  \E u \in Users : output'[p] = [k \in Chars |-> u]
    <3>1. CASE output'[p] = output[p]
      BY <2>1, <2>3, <3>1 DEF LineIntact
    <3>2. CASE output'[p] # output[p]
      BY <2>2, <3>2
    <3> QED  BY <3>1, <3>2
  <2>4. ~Cleared(q)' /\ ~HalfMade(q)'
    BY <1>1, <1>3 DEF ForkedInOrder, Cleared, HalfMade
  <2>5. Sound(q)'
    BY <2>2, <2>4 DEF Sound
  <2>6. ASSUME NEW p \in Printers, p # q PROVE Sound(p)'
    <3>1. Engaged(p)' <=> Engaged(p)
      BY <2>6 DEF Engaged
    <3> QED  BY <1>3, <2>1, <2>6, <3>1, SoundKept
  <2> QED  BY <2>3, <2>5, <2>6 DEF LineIntact, Chars
<1> QED  BY <1>2, <1>4 DEF BootIInv

LEMMA BootPrinterStep == ASSUME BootIInv, NEW q \in Printers, BootPrinter(q) PROVE BootIInv'
<1> USE NumbersAssumption
<1>1. BootTypes /\ q \in running /\ UNCHANGED <<bootVars, running, opened, dividing, overtaken>>
  BY DEF BootIInv, BootPrinter
<1>2. UNCHANGED <<boot, next, segment, number, starts, running, opened, dividing, overtaken>>
  BY <1>1 DEF bootVars
<1> USE DEF PrinterMove, users, WORKING, WAITING
<1>3. ASSUME StartLine(q) PROVE BootIInv'
  <2>1. /\ ppc[q] = "poll" /\ ppc' = [ppc EXCEPT ![q] = "print"] /\ state[q] = WORKING
        /\ head' = [head EXCEPT ![q] = 1]
        /\ UNCHANGED <<sem, state, buffer, size, upc, at, pos, dead, paper, output>>
    BY <1>3 DEF StartLine, Ready, shared
  <2>2. BootTypes'
    BY <1>1, <1>2, <2>1 DEF BootTypes
  <2>3. ASSUME Owned(q), Printing(q) PROVE Owned(q)' /\ Printing(q)'
    <3>1. Engaged(q) /\ Engaged(q)'
      BY <2>1 DEF Engaged
    <3>2. Owned(q)'
      BY <2>1, <2>3, <3>1 DEF Owned, AtWork, Holds, Chars
    <3>3. Printing(q)'
      <4>1. ppc'[q] = "print" /\ head'[q] = 1 /\ paper'[q] = <<>>
        BY <1>1, <2>1, <2>3 DEF BootTypes, Printing
      <4>2. [k \in 1..(1 - 1) |-> buffer'[q][k]] = <<>>
        OBVIOUS
      <4> QED  BY <2>1, <4>1, <4>2 DEF Printing
    <3> QED  BY <3>2, <3>3
  <2> QED  BY <1>1, <1>2, <2>1, <2>2, <2>3, PrinterStep DEF BootTypes
<1>4. ASSUME PrintChar(q) PROVE BootIInv'
  <2>1. /\ ppc[q] = "print" /\ ppc' = [ppc EXCEPT ![q] = "print"] /\ head[q] <= size[q]
        /\ paper' = [paper EXCEPT ![q] = Append(@, buffer[q][head[q]])]
        /\ head' = [head EXCEPT ![q] = @ + 1]
        /\ UNCHANGED <<sem, state, buffer, size, upc, at, pos, dead, output>>
    BY <1>4 DEF PrintChar, shared
  <2>2. /\ head[q] \in Chars /\ head[q] + 1 \in 1..(JobLen + 1)
        /\ buffer[q][head[q]] \in Users \cup {Nobody}
    BY <1>1, <2>1 DEF BootTypes, Chars
  <2>3. ppc' = ppc /\ head' \in [Printers -> 1..(JobLen + 1)]
    BY <1>1, <2>1, <2>2 DEF BootTypes
  <2>4. Append(paper[q], buffer[q][head[q]]) \in Seq(Users \cup {Nobody})
    BY <1>1, <2>2 DEF BootTypes
  <2>5. BootTypes'
    <3>1. paper' \in [Printers -> Seq(Users \cup {Nobody})]
      BY <1>1, <2>1, <2>4 DEF BootTypes
    <3> QED  BY <1>1, <1>2, <2>1, <2>3, <3>1 DEF BootTypes
  <2>6. ASSUME Owned(q), Printing(q) PROVE Owned(q)' /\ Printing(q)'
    <3>1. Engaged(q)' <=> Engaged(q)
      BY <1>2, <2>1, <2>3 DEF Engaged
    <3>2. Owned(q)'
      BY <2>1, <2>6, <3>1 DEF Owned, AtWork, Holds, Chars
    <3>3. Printing(q)'
      <4> DEFINE h == head[q]  b == buffer[q]
      <4>1. paper[q] = [k \in 1..(h - 1) |-> b[k]] /\ h \in Nat \ {0}
        BY <2>1, <2>2, <2>6 DEF Printing, Chars
      <4>2. head'[q] = h + 1 /\ paper'[q] = Append(paper[q], b[h]) /\ buffer'[q] = b
        BY <1>1, <2>1 DEF BootTypes
      <4> HIDE DEF h, b
      <4>3. Append([k \in 1..(h - 1) |-> b[k]], b[h]) = [k \in 1..((h + 1) - 1) |-> b[k]]
        BY <4>1
      <4>4. paper'[q] = [k \in 1..(head'[q] - 1) |-> buffer'[q][k]]
        BY <4>1, <4>2, <4>3
      <4> QED  BY <2>1, <2>3, <2>6, <4>4 DEF Printing
    <3> QED  BY <3>2, <3>3
  <2> QED  BY <1>1, <1>2, <2>1, <2>3, <2>5, <2>6, PrinterStep DEF BootTypes
<1>5. ASSUME EndLine(q) PROVE BootIInv'
  <2>1. /\ ppc[q] = "print" /\ ppc' = [ppc EXCEPT ![q] = "idle"] /\ head[q] > size[q]
        /\ output' = [output EXCEPT ![q] = paper[q]] /\ paper' = [paper EXCEPT ![q] = <<>>]
        /\ UNCHANGED <<sem, state, buffer, size, upc, at, pos, dead, head>>
    BY <1>5 DEF EndLine, shared
  <2>2. BootTypes'
    <3>1. <<>> \in Seq(Users \cup {Nobody})
      OBVIOUS
    <3>2. paper' \in [Printers -> Seq(Users \cup {Nobody})]
      BY <1>1, <2>1, <3>1 DEF BootTypes
    <3>3. output' \in [Printers -> Seq(Users \cup {Nobody})]
      BY <1>1, <2>1 DEF BootTypes
    <3> QED  BY <1>1, <1>2, <2>1, <3>2, <3>3 DEF BootTypes
  <2>3. ASSUME Owned(q), Printing(q)
        PROVE  Owned(q)' /\ Printing(q)' /\ \E u \in Users : output'[q] = [k \in Chars |-> u]
    <3>1. Engaged(q) /\ ppc'[q] = "idle" /\ paper'[q] = <<>> /\ Engaged(q)'
      BY <1>1, <1>2, <2>1 DEF Engaged, BootTypes
    <3>2. Owned(q)' /\ Printing(q)'
      BY <2>1, <2>3, <3>1 DEF Owned, Printing, AtWork, Holds, Chars
    <3>3. PICK u \in Users : \A k \in Chars : buffer[q][k] = u
      BY <2>3, <3>1 DEF Owned
    <3>4. head[q] - 1 = JobLen
      BY <1>1, <2>1, <2>3, <3>1 DEF Owned, BootTypes
    <3>5. output'[q] = [k \in Chars |-> u]
      <4>1. output'[q] = [k \in 1..(head[q] - 1) |-> buffer[q][k]]
        BY <1>1, <2>1, <2>3 DEF Printing, BootTypes
      <4> QED  BY <3>3, <3>4, <4>1 DEF Chars
    <3> QED  BY <3>2, <3>5
  <2> QED  BY <1>1, <1>2, <2>1, <2>2, <2>3, PrinterStep DEF BootTypes
<1>6. ASSUME SetWaiting(q) PROVE BootIInv'
  <2>1. /\ ppc[q] = "idle" /\ ppc' = [ppc EXCEPT ![q] = "post"]
        /\ state' = [state EXCEPT ![q] = WAITING]
        /\ UNCHANGED <<sem, buffer, size, upc, at, pos, dead, head, paper, output>>
    BY <1>6 DEF SetWaiting, IdleState
  <2>2. BootTypes'
    BY <1>1, <1>2, <2>1 DEF BootTypes
  <2>3. ASSUME Owned(q), Printing(q) PROVE Owned(q)' /\ Printing(q)'
    <3>1. Engaged(q) /\ ppc'[q] = "post" /\ state'[q] = WAITING /\ Engaged(q)'
      BY <1>1, <1>2, <2>1 DEF Engaged, BootTypes
    <3> QED  BY <2>1, <2>3, <3>1 DEF Owned, Printing, AtWork, Holds, Chars
  <2> QED  BY <1>1, <1>2, <2>1, <2>2, <2>3, PrinterStep DEF BootTypes
<1>7. ASSUME Post(q) PROVE BootIInv'
  <2>1. /\ ppc[q] = "post" /\ ppc' = [ppc EXCEPT ![q] = "poll"]
        /\ sem' = [sem EXCEPT ![q] = @ + 1]
        /\ UNCHANGED <<state, buffer, size, upc, at, pos, dead, head, paper, output>>
    BY <1>7 DEF Post
  <2>2. BootTypes'
    BY <1>1, <1>2, <2>1 DEF BootTypes
  <2>3. ASSUME Owned(q), Printing(q) PROVE Owned(q)' /\ Printing(q)'
    <3>1. Engaged(q) /\ state[q] = WAITING /\ paper[q] = <<>>
      BY <1>1, <2>1, <2>3 DEF Engaged, Printing
    <3>2. sem[q] = 0 /\ \A u \in Users : ~AtWork(u, q)
      BY <2>3, <3>1 DEF Owned
    <3>3. sem'[q] = 1 /\ ppc'[q] = "poll" /\ ~Engaged(q)' /\ \A u \in Users : ~AtWork(u, q)'
      BY <1>1, <2>1, <3>1, <3>2 DEF Engaged, BootTypes, AtWork, Holds
    <3> QED  BY <2>1, <3>1, <3>3 DEF Owned, Printing
  <2> QED  BY <1>1, <1>2, <2>1, <2>2, <2>3, PrinterStep DEF BootTypes
<1> QED  BY <1>3, <1>4, <1>5, <1>6, <1>7 DEF BootPrinter, Printer

-----------------------------------------------------------------------------
(* Steps of the users *)

\* The scan, the start and the death of a user.
QuietUserStep(u) ==
    OpenSegment(u) \/ Scan(u) \/ LeaveLoop(u) \/ Divide(u) \/ Crash(u) \/ KillUser(u)

LEMMA QuietUser == ASSUME BootIInv, NEW u \in Users, QuietUserStep(u) PROVE BootIInv'
<1> USE NumbersAssumption
<1>1. BootTypes /\ ForkedInOrder
  BY DEF BootIInv
<1>2. /\ UNCHANGED <<sem, state, buffer, size, pos, ppc, head, paper, output>>
      /\ UNCHANGED <<boot, next, segment, number, starts, running, overtaken>>
  BY DEF QuietUserStep, OpenSegment, Scan, ScanFree, ScanBusy, LeaveLoop, Divide, Crash, KillUser,
         Kill, UserMove, vars, shared, users, printers, bootVars
<1>3. /\ upc' \in [Users -> {"scan", "wait", "copy", "size", "work"}]
      /\ at' \in [Users -> Printers]
      /\ opened' \in SUBSET Users /\ dividing' \in SUBSET opened'
  <2>1. CASE OpenSegment(u) \/ LeaveLoop(u) \/ Crash(u) \/ KillUser(u)
    BY <1>1, <2>1 DEF BootTypes, OpenSegment, LeaveLoop, Crash, KillUser, Kill, Live, vars, users
  <2>2. CASE Scan(u)
    <3>1. ASSUME ScanBusy(u) PROVE at[u] + 1 \in Printers
      <4>1. at[u] \in Printers /\ at[u] < N
        BY <1>1, <3>1 DEF BootTypes, ScanBusy
      <4> QED  BY <4>1 DEF Printers
    <3>2. UNCHANGED <<opened, dividing>>
      BY <2>2 DEF Scan
    <3>3. at' \in [Users -> Printers]
      BY <1>1, <2>2, <3>1 DEF BootTypes, Scan, ScanFree, ScanBusy
    <3>4. upc' \in [Users -> {"scan", "wait", "copy", "size", "work"}]
      BY <1>1, <2>2 DEF BootTypes, Scan, ScanFree, ScanBusy, UserMove
    <3> QED  BY <1>1, <3>2, <3>3, <3>4 DEF BootTypes
  <2>3. CASE Divide(u)
    BY <1>1, <2>3 DEF BootTypes, Divide, UserMove
  <2> QED  BY <2>1, <2>2, <2>3 DEF QuietUserStep
<1>4. \A v \in Users, p \in Printers :
        (Holds(v, p)' <=> Holds(v, p)) /\ (AtWork(v, p)' => AtWork(v, p) /\ upc'[v] = upc[v])
  <2>1. CASE OpenSegment(u) \/ LeaveLoop(u) \/ Crash(u) \/ KillUser(u)
    BY <2>1 DEF OpenSegment, LeaveLoop, Crash, KillUser, Kill, vars, users, AtWork, Holds
  <2>2. CASE Scan(u)
    BY <1>1, <2>2 DEF BootTypes, Scan, ScanFree, ScanBusy, UserMove, AtWork, Holds
  <2>3. CASE Divide(u)
    BY <1>1, <2>3 DEF BootTypes, Divide, UserMove, AtWork, Holds
  <2> QED  BY <2>1, <2>2, <2>3 DEF QuietUserStep
<1>5. BootTypes' /\ ForkedInOrder'
  BY <1>1, <1>2, <1>3 DEF BootTypes, ForkedInOrder
<1>6. ASSUME ~overtaken' PROVE LineIntact' /\ \A p \in Printers : Sound(p)'
  <2>1. LineIntact /\ \A p \in Printers : Sound(p)
    BY <1>2, <1>6 DEF BootIInv
  <2>2. UNCHANGED <<shared, printers>>
    BY <1>2 DEF shared, printers
  <2>3. \A p \in Printers : /\ Cleared(p)' <=> Cleared(p)
                            /\ HalfMade(p)' <=> HalfMade(p)
                            /\ Prepared(p)' <=> Prepared(p)
    BY <1>2 DEF Cleared, HalfMade, Prepared
  <2> QED  BY <1>2, <1>4, <2>1, <2>2, <2>3, AllSoundKept DEF LineIntact
<1> QED  BY <1>5, <1>6 DEF BootIInv

\* A step of user u at printer q that keeps q owned.
LEMMA UserStep ==
    ASSUME BootIInv, BootTypes', NEW u \in Users, NEW q \in Printers,
           UNCHANGED <<dead, ppc, head, paper, output, boot, next, running>>,
           overtaken => overtaken',
           \A p \in Printers \ {q} :
             /\ sem'[p] = sem[p] /\ state'[p] = state[p]
             /\ buffer'[p] = buffer[p] /\ size'[p] = size[p]
             /\ \A v \in Users : /\ AtWork(v, p)' => AtWork(v, p) /\ upc'[v] = upc[v] /\ pos'[v] = pos[v]
                                 /\ Holds(v, p) => Holds(v, p)',
           Sound(q) /\ ~overtaken' =>
             /\ ~Cleared(q) /\ ~HalfMade(q)
             /\ Prepared(q) \/ q \in running => Owned(q)'
             /\ q \in running => Printing(q)'
    PROVE  BootIInv'
<1>1. ForkedInOrder'
  BY DEF ForkedInOrder, BootIInv
<1>2. \A p \in Printers :
        /\ Cleared(p)' <=> Cleared(p)
        /\ HalfMade(p)' <=> HalfMade(p)
        /\ Prepared(p)' <=> Prepared(p)
  BY DEF Cleared, HalfMade, Prepared
<1>3. ASSUME ~overtaken' PROVE LineIntact' /\ \A p \in Printers : Sound(p)'
  <2>1. LineIntact /\ \A p \in Printers : Sound(p)
    BY <1>3 DEF BootIInv
  <2>2. LineIntact'
    BY <2>1 DEF LineIntact
  <2>3. Sound(q)'
    BY <1>2, <1>3, <2>1 DEF Sound
  <2>4. ASSUME NEW p \in Printers, p # q PROVE Sound(p)'
    <3>1. Engaged(p)' <=> Engaged(p)
      BY <2>4 DEF Engaged
    <3> QED  BY <1>2, <2>1, <2>4, <3>1, SoundKept
  <2> QED  BY <2>2, <2>3, <2>4
<1> QED  BY <1>1, <1>3 DEF BootIInv

\* sem_wait finds a printer free, or is overtaken by the store of its state.
LEMMA TakeTaskStep == ASSUME BootIInv, NEW u \in Users, TakeTask(u) PROVE BootIInv'
<1> USE NumbersAssumption
<1>1. BootTypes
  BY DEF BootIInv
<1> PICK q \in Printers : q = at[u]
  BY <1>1 DEF BootTypes
<1>2. /\ u \notin dead /\ upc[u] = "wait" /\ upc' = [upc EXCEPT ![u] = "copy"]
      /\ sem[q] > 0 /\ sem' = [sem EXCEPT ![q] = @ - 1] /\ pos' = [pos EXCEPT ![u] = 1]
      /\ overtaken' = (overtaken \/ (boot = "state" /\ next = q))
      /\ UNCHANGED <<state, buffer, size, at, dead, ppc, head, paper, output>>
      /\ UNCHANGED <<boot, next, segment, number, starts, running, opened, dividing>>
  BY DEF TakeTask, Acquire, Available, UserMove, printers, bootVars
<1>3. BootTypes'
  <2>1. sem' \in [Printers -> Nat] /\ pos' \in [Users -> Nat] /\ overtaken' \in BOOLEAN
    BY <1>1, <1>2 DEF BootTypes
  <2>2. upc' \in [Users -> {"scan", "wait", "copy", "size", "work"}]
    BY <1>1, <1>2 DEF BootTypes
  <2> QED  BY <1>1, <1>2, <2>1, <2>2 DEF BootTypes
<1>4. \A v \in Users, p \in Printers :
        /\ v # u => /\ (AtWork(v, p)' <=> AtWork(v, p)) /\ (Holds(v, p)' <=> Holds(v, p))
                    /\ upc'[v] = upc[v] /\ pos'[v] = pos[v]
        /\ ~Holds(u, p) /\ ~AtWork(u, p)
        /\ (Holds(u, p)' <=> p = q) /\ (AtWork(u, p)' <=> p = q)
  BY <1>1, <1>2 DEF BootTypes, AtWork, Holds
<1>5. \A p \in Printers \ {q} :
        /\ sem'[p] = sem[p] /\ state'[p] = state[p]
        /\ buffer'[p] = buffer[p] /\ size'[p] = size[p]
        /\ \A v \in Users : /\ AtWork(v, p)' => AtWork(v, p) /\ upc'[v] = upc[v] /\ pos'[v] = pos[v]
                            /\ Holds(v, p) => Holds(v, p)'
  BY <1>1, <1>2, <1>4 DEF BootTypes
<1>6. ASSUME Sound(q), ~overtaken'
      PROVE  /\ ~Cleared(q) /\ ~HalfMade(q)
             /\ Prepared(q) \/ q \in running => Owned(q)'
             /\ q \in running => Printing(q)'
  <2>1. ~Cleared(q) /\ ~HalfMade(q)
    <3>1. ~HalfMade(q)
      BY <1>2, <1>6 DEF HalfMade
    <3>2. sem[q] # 0
      BY <1>2
    <3> QED  BY <1>6, <3>1, <3>2 DEF Sound
  <2>2. ASSUME Owned(q) PROVE Owned(q)'
    <3>1. /\ sem[q] = 1 /\ sem'[q] = 0 /\ ~Engaged(q) /\ ~Engaged(q)'
          /\ \A v \in Users : ~AtWork(v, q)
      BY <1>1, <1>2, <2>2 DEF Owned, BootTypes, Engaged
    <3>2. \A v \in Users : AtWork(v, q)' => v = u
      BY <1>4, <3>1
    <3>3. upc'[u] = "copy" /\ pos'[u] = 1 /\ Holds(u, q)' /\ 1 \in Chars
          /\ \A k \in Chars : ~(k < 1)
      BY <1>1, <1>2, <1>4 DEF BootTypes, Chars
    <3> QED  BY <3>1, <3>2, <3>3 DEF Owned, Chars
  <2>3. Printing(q) => Printing(q)'
    BY <1>2 DEF Printing
  <2> QED  BY <1>6, <2>1, <2>2, <2>3 DEF Sound
<1> QED  BY <1>2, <1>3, <1>5, <1>6, UserStep

\* The user that is at work fills in the job and submits it.
LEMMA PlaceTaskStep == ASSUME BootIInv, NEW u \in Users, PlaceTask(u) PROVE BootIInv'
<1> USE NumbersAssumption
<1>1. BootTypes
  BY DEF BootIInv
<1> PICK q \in Printers : q = at[u]
  BY <1>1 DEF BootTypes
<1>2. /\ AtWork(u, q)
      /\ UNCHANGED <<sem, dead, ppc, head, paper, output>>
      /\ UNCHANGED <<boot, next, segment, number, starts, running, opened, dividing, overtaken>>
  BY DEF PlaceTask, CopyChar, SetSize, SetWorking, UserMove, AtWork, Holds, printers, bootVars
<1>3. \A p \in Printers : AtWork(u, p) => p = q
  BY DEF AtWork, Holds
<1>4. ASSUME Sound(q) PROVE ~Cleared(q) /\ ~HalfMade(q)
  BY <1>2, <1>4 DEF Sound
<1>5. ASSUME Owned(q)
      PROVE  /\ sem[q] = 0 /\ ~Engaged(q) /\ \A v \in Users : AtWork(v, q) => v = u
             /\ \A k \in Chars : k < pos[u] => buffer[q][k] = u
             /\ upc[u] \in {"size", "work"} => pos[u] = JobLen + 1
             /\ upc[u] = "copy" => pos[u] \in Chars
             /\ upc[u] = "work" => size[q] = JobLen
  BY <1>2, <1>5 DEF Owned
<1>6. ASSUME CopyChar(u) PROVE BootIInv'
  <2>1. /\ upc[u] = "copy" /\ upc' = [upc EXCEPT ![u] = IF pos[u] = JobLen THEN "size" ELSE "copy"]
        /\ buffer' = [buffer EXCEPT ![q][pos[u]] = u]
        /\ pos' = [pos EXCEPT ![u] = @ + 1]
        /\ UNCHANGED <<state, size, at>>
    BY <1>6 DEF CopyChar, UserMove
  <2>2. BootTypes'
    <3>1. buffer' \in [Printers -> [Chars -> Users \cup {Nobody}]]
      BY <1>1, <2>1 DEF BootTypes
    <3>2. upc' \in [Users -> {"scan", "wait", "copy", "size", "work"}] /\ pos' \in [Users -> Nat]
      BY <1>1, <2>1 DEF BootTypes
    <3> QED  BY <1>1, <1>2, <2>1, <3>1, <3>2 DEF BootTypes
  <2>3. \A v \in Users, p \in Printers :
          /\ (AtWork(v, p)' <=> AtWork(v, p)) /\ (Holds(v, p)' <=> Holds(v, p))
          /\ v # u => upc'[v] = upc[v] /\ pos'[v] = pos[v]
    BY <1>1, <1>2, <2>1 DEF BootTypes, AtWork, Holds
  <2>4. \A p \in Printers \ {q} :
          /\ sem'[p] = sem[p] /\ state'[p] = state[p]
          /\ buffer'[p] = buffer[p] /\ size'[p] = size[p]
          /\ \A v \in Users : /\ AtWork(v, p)' => AtWork(v, p) /\ upc'[v] = upc[v] /\ pos'[v] = pos[v]
                              /\ Holds(v, p) => Holds(v, p)'
    BY <1>1, <1>2, <1>3, <2>1, <2>3 DEF BootTypes
  <2>5. ASSUME Owned(q) PROVE Owned(q)'
    <3>1. pos[u] \in Chars /\ pos'[u] = pos[u] + 1 /\ ~Engaged(q)'
          /\ upc'[u] = IF pos[u] = JobLen THEN "size" ELSE "copy"
      BY <1>1, <1>2, <1>5, <2>1, <2>5 DEF BootTypes, Engaged
    <3>2. \A k \in Chars : buffer'[q][k] = IF k = pos[u] THEN u ELSE buffer[q][k]
      BY <1>1, <2>1 DEF BootTypes
    <3>3. \A k \in Chars : k < pos'[u] => buffer'[q][k] = u
      BY <1>5, <2>5, <3>1, <3>2 DEF Chars
    <3>4. /\ upc'[u] \in {"size", "work"} => pos'[u] = JobLen + 1
          /\ upc'[u] = "copy" => pos'[u] \in Chars
          /\ upc'[u] # "work"
      BY <3>1 DEF Chars
    <3>5. sem'[q] = 0 /\ Holds(u, q)' /\ \A v \in Users : AtWork(v, q)' => v = u
      BY <1>2, <1>5, <2>3, <2>5 DEF AtWork
    <3> QED  BY <3>1, <3>3, <3>4, <3>5 DEF Owned, Chars
  <2>6. ASSUME Owned(q), Printing(q), q \in running PROVE Printing(q)'
    BY <1>2, <1>5, <2>1, <2>6 DEF Printing, Engaged
  <2> QED  BY <1>2, <1>4, <2>2, <2>4, <2>5, <2>6, UserStep DEF Sound
<1>7. ASSUME SetSize(u) PROVE BootIInv'
  <2>1. /\ upc[u] = "size" /\ upc' = [upc EXCEPT ![u] = "work"]
        /\ size' = [size EXCEPT ![q] = JobLen]
        /\ UNCHANGED <<state, buffer, at, pos>>
    BY <1>7 DEF SetSize, UserMove
  <2>2. BootTypes'
    BY <1>1, <1>2, <2>1 DEF BootTypes
  <2>3. \A v \in Users, p \in Printers :
          /\ (AtWork(v, p)' <=> AtWork(v, p)) /\ (Holds(v, p)' <=> Holds(v, p))
          /\ v # u => upc'[v] = upc[v]
    BY <1>1, <1>2, <2>1 DEF BootTypes, AtWork, Holds
  <2>4. \A p \in Printers \ {q} :
          /\ sem'[p] = sem[p] /\ state'[p] = state[p]
          /\ buffer'[p] = buffer[p] /\ size'[p] = size[p]
          /\ \A v \in Users : /\ AtWork(v, p)' => AtWork(v, p) /\ upc'[v] = upc[v] /\ pos'[v] = pos[v]
                              /\ Holds(v, p) => Holds(v, p)'
    BY <1>1, <1>2, <1>3, <2>1, <2>3 DEF BootTypes
  <2>5. ASSUME Owned(q) PROVE Owned(q)'
    <3>1. ~Engaged(q)' /\ upc'[u] = "work" /\ size'[q] = JobLen
      BY <1>1, <1>2, <1>5, <2>1, <2>5 DEF BootTypes, Engaged
    <3>2. sem'[q] = 0 /\ Holds(u, q)' /\ \A v \in Users : AtWork(v, q)' => v = u
      BY <1>2, <1>5, <2>3, <2>5 DEF AtWork
    <3> QED  BY <1>5, <2>1, <2>5, <3>1, <3>2 DEF Owned, Chars
  <2>6. Printing(q) => Printing(q)'
    BY <1>2, <2>1 DEF Printing
  <2> QED  BY <1>2, <1>4, <2>2, <2>4, <2>5, <2>6, UserStep DEF Sound
<1>8. ASSUME SetWorking(u) PROVE BootIInv'
  <2>1. /\ upc[u] = "work" /\ upc' = [upc EXCEPT ![u] = "scan"]
        /\ state' = [state EXCEPT ![q] = WORKING]
        /\ at' = [at EXCEPT ![u] = 1]
        /\ UNCHANGED <<buffer, size, pos>>
    BY <1>8 DEF SetWorking, UserMove
  <2>2. BootTypes'
    <3>1. at' \in [Users -> Printers]
      BY <1>1, <2>1 DEF BootTypes, Printers
    <3>2. /\ upc' \in [Users -> {"scan", "wait", "copy", "size", "work"}]
          /\ state' \in [Printers -> {WORKING, WAITING}]
      BY <1>1, <2>1 DEF BootTypes
    <3> QED  BY <1>1, <1>2, <2>1, <3>1, <3>2 DEF BootTypes
  <2>3. \A v \in Users, p \in Printers :
          /\ v # u => /\ (AtWork(v, p)' <=> AtWork(v, p)) /\ (Holds(v, p)' <=> Holds(v, p))
                      /\ upc'[v] = upc[v]
          /\ ~AtWork(u, p)' /\ (Holds(u, p) => p = q)
    BY <1>1, <1>2, <2>1 DEF BootTypes, AtWork, Holds
  <2>4. \A p \in Printers \ {q} :
          /\ sem'[p] = sem[p] /\ state'[p] = state[p]
          /\ buffer'[p] = buffer[p] /\ size'[p] = size[p]
          /\ \A v \in Users : /\ AtWork(v, p)' => AtWork(v, p) /\ upc'[v] = upc[v] /\ pos'[v] = pos[v]
                              /\ Holds(v, p) => Holds(v, p)'
    BY <1>1, <1>2, <2>1, <2>3 DEF BootTypes
  <2>5. ASSUME Owned(q) PROVE Owned(q)'
    <3>1. state'[q] = WORKING /\ Engaged(q)' /\ sem'[q] = 0
      BY <1>1, <1>2, <1>5, <2>1, <2>5 DEF BootTypes, Engaged
    <3>2. \A v \in Users : ~AtWork(v, q)'
      BY <1>5, <2>3, <2>5
    <3>3. size'[q] = JobLen /\ \A k \in Chars : buffer'[q][k] = u
      BY <1>5, <2>1, <2>5 DEF Chars
    <3> QED  BY <3>1, <3>2, <3>3 DEF Owned, Chars
  <2>6. ASSUME Owned(q), Printing(q), q \in running PROVE Printing(q)'
    <3>1. ppc[q] = "poll" /\ paper[q] = <<>>
      BY <1>1, <1>5, <2>6 DEF Engaged, Printing
    <3> QED  BY <1>2, <3>1 DEF Printing
  <2> QED  BY <1>2, <1>4, <2>2, <2>4, <2>5, <2>6, UserStep DEF Sound
<1> QED  BY <1>6, <1>7, <1>8 DEF PlaceTask

-----------------------------------------------------------------------------
(* Whatever is started, stopped and started again *)

LEMMA BootInitially == BootInit => BootIInv
<1> SUFFICES ASSUME BootInit PROVE BootIInv
  OBVIOUS
<1> USE NumbersAssumption
<1>1. BootTypes
  <2>1. <<>> \in Seq(Users \cup {Nobody})
    OBVIOUS
  <2>2. 1 \in Printers /\ 0 \in 0..JobLen /\ 1 \in 1..(JobLen + 1) /\ 1 \in 1..(N + 1)
    BY DEF Printers
  <2>3. /\ sem \in [Printers -> Nat] /\ state \in [Printers -> {WORKING, WAITING}]
        /\ buffer \in [Printers -> [Chars -> Users \cup {Nobody}]]
        /\ size \in [Printers -> 0..JobLen]
    BY <2>2 DEF BootInit
  <2>4. /\ paper \in [Printers -> Seq(Users \cup {Nobody})]
        /\ output \in [Printers -> Seq(Users \cup {Nobody})]
    BY <2>1 DEF BootInit
  <2> QED  BY <2>2, <2>3, <2>4 DEF BootInit, BootTypes
<1>2. ForkedInOrder
  BY DEF BootInit, ForkedInOrder
<1>3. LineIntact /\ \A p \in Printers : Sound(p)
  BY DEF BootInit, LineIntact, Sound, Cleared, HalfMade, Prepared
<1> QED  BY <1>1, <1>2, <1>3 DEF BootIInv

LEMMA BootStutter == ASSUME BootIInv, UNCHANGED bvars PROVE BootIInv'
<1>1. /\ UNCHANGED <<sem, state, buffer, size, upc, at, pos, dead, ppc, head, paper, output>>
      /\ UNCHANGED <<boot, next, segment, number, starts, running, opened, dividing, overtaken>>
      /\ UNCHANGED <<shared, printers>>
  BY DEF bvars, vars, shared, users, printers, bootVars
<1>2. BootTypes' /\ ForkedInOrder'
  BY <1>1 DEF BootIInv, BootTypes, ForkedInOrder
<1>3. \A p \in Printers : Sound(p) => Sound(p)'
  <2> SUFFICES ASSUME NEW p \in Printers, Sound(p) PROVE Sound(p)'
    OBVIOUS
  <2>1. (Cleared(p)' <=> Cleared(p)) /\ (HalfMade(p)' <=> HalfMade(p)) /\ (Prepared(p)' <=> Prepared(p))
    BY <1>1 DEF Cleared, HalfMade, Prepared
  <2>2. \A u \in Users : (AtWork(u, p)' <=> AtWork(u, p)) /\ (Holds(u, p)' <=> Holds(u, p))
    BY <1>1 DEF AtWork, Holds
  <2>3. Engaged(p)' <=> Engaged(p)
    BY <1>1 DEF Engaged
  <2> QED  BY <1>1, <2>1, <2>2, <2>3, SoundKept
<1>4. LineIntact => LineIntact'
  BY <1>1 DEF LineIntact
<1> QED  BY <1>1, <1>2, <1>3, <1>4 DEF BootIInv

\* The inductive invariant over starts, interrupts and restarts.
THEOREM BootInvariance == BootSpec => []BootIInv
<1>1. BootIInv /\ [BootNext]_bvars => BootIInv'
  <2> SUFFICES ASSUME BootIInv, [BootNext]_bvars PROVE BootIInv'
    OBVIOUS
  <2>1. CASE Main
    BY <2>1, QuietMain, ClearPrinterStep, InitSemStep, InitStateStep, ForkStep DEF Main
  <2>2. CASE Interrupt \/ \E p \in Printers : KillPrinter(p)
    BY <2>2, QuietMain
  <2>3. CASE \E p \in Printers : BootPrinter(p)
    BY <2>3, BootPrinterStep
  <2>4. CASE \E u \in Users : QuietUserStep(u)
    BY <2>4, QuietUser
  <2>5. CASE \E u \in Users : TakeTask(u) \/ PlaceTask(u)
    BY <2>5, TakeTaskStep, PlaceTaskStep
  <2>6. CASE UNCHANGED bvars
    BY <2>6, BootStutter
  <2> QED  BY <2>1, <2>2, <2>3, <2>4, <2>5, <2>6 DEF BootNext, QuietUserStep
<1> QED  BY <1>1, BootInitially, PTL DEF BootSpec

\* printers is started no more often than the bound says.
LEMMA StartsCounted ==
    ASSUME MaxStarts \in Nat, starts \in 0..MaxStarts, [BootNext]_bvars
    PROVE  starts' \in 0..MaxStarts
<1>1. CASE Open
  BY <1>1 DEF Open
<1>2. ASSUME ~Open PROVE starts' = starts
  <2>1. CASE Main
    BY <1>2, <2>1 DEF Main, Truncate, ClearPrinter, ClearNumber, StoreNumber, InitSem,
       InitState, Fork, Remove
  <2>2. CASE Interrupt \/ \E p \in Printers : BootPrinter(p) \/ KillPrinter(p)
    BY <2>2 DEF Interrupt, BootPrinter, KillPrinter, bootVars
  <2>3. CASE \E u \in Users :
               \/ OpenSegment(u) \/ Scan(u) \/ LeaveLoop(u) \/ Divide(u) \/ Crash(u)
               \/ TakeTask(u) \/ PlaceTask(u) \/ KillUser(u)
    BY <2>3 DEF OpenSegment, Scan, LeaveLoop, Divide, Crash, TakeTask, PlaceTask, KillUser, bootVars
  <2>4. CASE UNCHANGED bvars
    BY <2>4 DEF bvars, bootVars
  <2> QED  BY <2>1, <2>2, <2>3, <2>4 DEF BootNext
<1> QED  BY <1>1, <1>2

\* Semaphores, states and the steps of the programs keep their types over starts
\* and restarts.
THEOREM BootTypeCorrect ==
    ASSUME MaxStarts \in Nat
    PROVE  BootSpec => []BootTypeOK
<1>1. BootInit => starts \in 0..MaxStarts
  BY DEF BootInit
<1>2. starts \in 0..MaxStarts /\ [BootNext]_bvars => (starts \in 0..MaxStarts)'
  BY StartsCounted
<1>3. BootIInv /\ starts \in 0..MaxStarts => BootTypeOK
  BY DEF BootIInv, BootTypes, BootTypeOK
<1> QED  BY BootInvariance, <1>1, <1>2, <1>3, PTL DEF BootSpec

\* However early users come and wherever Ctrl-C finds the programs, a printer
\* that runs has one owner and lines are whole jobs, unless memset or sem_init
\* met a user at work (users.c:70-79, printers.c:38-62).
THEOREM OneOwnerOverRestarts == BootSpec => []OwnedUnlessOvertaken
<1>1. BootIInv => OwnedUnlessOvertaken
  <2> SUFFICES ASSUME BootIInv, ~overtaken
               PROVE  /\ LineIntact
                      /\ \A p \in running :
                           /\ sem[p] \in {0, 1}
                           /\ sem[p] = 1 => ~Busy(p) /\ \A u \in Users : ~AtWork(u, p)
                           /\ Busy(p) => \A u \in Users : ~AtWork(u, p)
                           /\ sem[p] = 0 => Busy(p) \/ \E u \in Users : Holds(u, p)
                           /\ \A u, v \in Users : AtWork(u, p) /\ AtWork(v, p) => u = v
    BY DEF OwnedUnlessOvertaken
  <2>1. LineIntact /\ \A p \in running : Owned(p)
    BY DEF BootIInv, BootTypes, Sound
  <2>2. \A p \in running : Engaged(p) <=> Busy(p)
    BY DEF Engaged, Busy
  <2> QED  BY <2>1, <2>2 DEF Owned
<1> QED  BY <1>1, BootInvariance, PTL
=============================================================================
