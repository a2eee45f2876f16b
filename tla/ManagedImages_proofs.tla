-------------------------- MODULE ManagedImages_proofs -------------------------
(***************************************************************************)
(* Proofs about ManagedImages for any number of images, creates, refills   *)
(* and restarts, and any TTL.                                              *)
(***************************************************************************)
EXTENDS ManagedImages, TLAPS

\* What a worker in flight has in hand, and an image that the cleanup works on.
WorkInv ==
    /\ \A w \in Workers :
          /\ work[w].pc # "idle" => work[w].image \in Images
          /\ work[w].pull => work[w].pc \in {"create", "record"}
    /\ clean.pc \in {"remove", "row"} => clean.image \in Images

IInv == TypeOK /\ WorkInv /\ UsedImageKept /\ NothingForgotten

USE ManagedImagesAssumption DEF Workers, Times, Notes

-----------------------------------------------------------------------------
\* Nothing has been pulled and no sandbox exists.
LEMMA InitIInv == Init => IInv
  BY DEF Init, IInv, TypeOK, WorkInv, UsedImageKept, NothingForgotten, Idle, Clean

\* Types, and what workers and the cleanup have in hand.
LEMMA TypesKept == TypeOK /\ WorkInv /\ [Next]_vars => TypeOK' /\ WorkInv'
<1> SUFFICES ASSUME TypeOK, WorkInv, [Next]_vars PROVE TypeOK' /\ WorkInv'
  OBVIOUS
<1> USE DEF TypeOK, WorkInv, world, host, history, Idle, Clean
<1>1. CASE UNCHANGED vars
  BY <1>1 DEF vars
<1>2. ASSUME NEW w \in Workers, Worker(w) PROVE TypeOK' /\ WorkInv'
  <2>1. ASSUME NEW i \in Images, CreateBegin(w, i) PROVE TypeOK' /\ WorkInv'
    BY <2>1 DEF CreateBegin
  <2>2. CASE Inspect(w)
    BY <2>2 DEF Inspect
  <2>3. CASE Pull(w)
    <3>1. work[w].image \in Images
      BY <2>3 DEF Pull
    <3>2. QED
      BY <2>3, <3>1 DEF Pull
  <2>4. CASE DockerCreate(w)
    BY <2>4 DEF DockerCreate
  <2>5. CASE CreateFails(w)
    BY <2>5 DEF CreateFails
  <2>6. CASE Record(w)
    BY <2>6 DEF Record
  <2>7. CASE RefillEnd(w)
    BY <2>7 DEF RefillEnd
  <2>8. CASE Assign(w)
    <3>1. [image |-> container[w], pull |-> FALSE, at |-> now] \in Notes
      BY <2>8 DEF Assign
    <3>2. QED
      BY <2>8, <3>1 DEF Assign
  <2>9. CASE SandboxGone(w)
    BY <2>9 DEF SandboxGone
  <2>10. QED
    BY <1>2, <2>1, <2>2, <2>3, <2>4, <2>5, <2>6, <2>7, <2>8, <2>9 DEF Worker
<1>3. ASSUME NEW n \in notes, WriteNote(n) PROVE TypeOK' /\ WorkInv'
  BY <1>3 DEF WriteNote
<1>4. CASE CleanList
  BY <1>4 DEF CleanList
<1>5. ASSUME NEW i \in Images, CleanCheck(i) PROVE TypeOK' /\ WorkInv'
  BY <1>5 DEF CleanCheck
<1>6. CASE CleanRemove
  BY <1>6 DEF CleanRemove, RemoveImage
<1>7. CASE CleanRow
  <2>1. row' \in [Images -> 0..MaxTime]
    BY <1>7 DEF CleanRow
  <2>2. clean' = [pc |-> "list", list |-> clean.list, image |-> None]
    BY <1>7 DEF CleanRow
  <2>3. excused' \subseteq Images
    BY <1>7 DEF CleanRow
  <2>4. QED
    BY <1>7, <2>1, <2>2, <2>3 DEF CleanRow
<1>8. CASE CleanFails
  <2>1. CASE /\ clean.pc \in {"remove", "row"}
             /\ clean' = [clean EXCEPT !.pc = "list", !.image = None]
    <3>1. clean' = [pc |-> "list", list |-> clean.list, image |-> None]
      BY <2>1
    <3>2. clean.list \subseteq Images
      OBVIOUS
    <3>3. QED
      BY <1>8, <3>1, <3>2 DEF CleanFails
  <2>2. ASSUME NEW i \in clean.list, clean.pc = "list",
               clean' = [clean EXCEPT !.list = @ \ {i}]
        PROVE  TypeOK' /\ WorkInv'
    <3>1. clean' = [pc |-> "list", list |-> clean.list \ {i}, image |-> clean.image]
      BY <2>2
    <3>2. clean.list \ {i} \subseteq Images /\ clean.image \in Images \cup {None}
      OBVIOUS
    <3>3. QED
      BY <1>8, <3>1, <3>2 DEF CleanFails
  <2>3. QED
    BY <1>8, <2>1, <2>2 DEF CleanFails
<1>9. CASE CleanDone
  BY <1>9 DEF CleanDone
<1>10. CASE Tick
  BY <1>10 DEF Tick
<1>11. ASSUME NEW i \in Images, HostRemoves(i) PROVE TypeOK' /\ WorkInv'
  BY <1>11 DEF HostRemoves, RemoveImage
<1>12. CASE Restart
  BY <1>12 DEF Restart
<1>13. QED
  BY <1>1, <1>2, <1>3, <1>4, <1>5, <1>6, <1>7, <1>8, <1>9, <1>10, <1>11, <1>12
     DEF Next

-----------------------------------------------------------------------------
\* Only docker image rm takes an image away, and it refuses one in use.
LEMMA UsedKept == IInv /\ [Next]_vars => UsedImageKept'
<1> SUFFICES ASSUME IInv, [Next]_vars PROVE UsedImageKept'
  OBVIOUS
<1> USE DEF IInv, TypeOK, WorkInv, UsedImageKept
<1>1. ASSUME UNCHANGED host PROVE UsedImageKept'
  BY <1>1 DEF host
<1>2. ASSUME NEW i, RemoveImage(i), ~Referenced(i), UNCHANGED container
      PROVE UsedImageKept'
  BY <1>2 DEF RemoveImage, Referenced
<1>3. ASSUME NEW w \in Workers, Worker(w) PROVE UsedImageKept'
  <2>1. CASE Pull(w)
    BY <2>1 DEF Pull
  <2>2. CASE DockerCreate(w)
    BY <2>2 DEF DockerCreate
  <2>3. CASE SandboxGone(w)
    BY <2>3 DEF SandboxGone
  <2>4. QED
    BY <1>1, <1>3, <2>1, <2>2, <2>3
       DEF Worker, CreateBegin, Inspect, CreateFails, Record, RefillEnd, Assign
<1>4. CASE CleanRemove
  BY <1>1, <1>2, <1>4 DEF CleanRemove, host
<1>5. ASSUME NEW i \in Images, HostRemoves(i) PROVE UsedImageKept'
  BY <1>2, <1>5 DEF HostRemoves
<1>6. QED
  BY <1>1, <1>3, <1>4, <1>5
     DEF Next, vars, WriteNote, CleanList, CleanCheck, CleanRow, CleanFails, CleanDone,
         Tick, Restart

-----------------------------------------------------------------------------
\* An image stays remembered while what remembers it stays.
LEMMA Remembered ==
    ASSUME IInv, NEW i \in pulled', i \in pulled,
           row[i] # 0 => row'[i] # 0 \/ i \in excused',
           \A n \in notes : n.image = i /\ n.pull =>
               n \in notes' \/ row'[i] # 0 \/ i \in excused',
           \A w \in Workers : work[w].image = i /\ work[w].pull =>
               \/ work'[w].image = i /\ work'[w].pull
               \/ \E n \in notes' : n.image = i /\ n.pull
               \/ i \in excused',
           i \in excused => i \in excused' \/ row'[i] # 0
    PROVE  \/ row'[i] # 0
           \/ \E n \in notes' : n.image = i /\ n.pull
           \/ \E w \in Workers : work'[w].image = i /\ work'[w].pull
           \/ i \in excused'
  BY DEF IInv, NothingForgotten

\* Every step that makes the server forget an image excuses it.
LEMMA NothingForgottenKept == IInv /\ [Next]_vars => NothingForgotten'
<1> SUFFICES ASSUME IInv, [Next]_vars,
                    NEW i \in pulled'
             PROVE  \/ row'[i] # 0
                    \/ \E n \in notes' : n.image = i /\ n.pull
                    \/ \E w \in Workers : work'[w].image = i /\ work'[w].pull
                    \/ i \in excused'
  BY DEF NothingForgotten
<1> DEFINE Goal == \/ row'[i] # 0
                   \/ \E n \in notes' : n.image = i /\ n.pull
                   \/ \E w \in Workers : work'[w].image = i /\ work'[w].pull
                   \/ i \in excused'
<1> SUFFICES Goal
  OBVIOUS
<1>t. TypeOK /\ WorkInv
  BY DEF IInv
<1>u. ASSUME UNCHANGED <<row, notes, work, excused>>, pulled' \subseteq pulled
      PROVE  Goal
  BY <1>u, Remembered
<1>v. ASSUME NEW j, RemoveImage(j), UNCHANGED <<row, notes, work>> PROVE Goal
  BY <1>v, Remembered DEF RemoveImage
<1>1. ASSUME NEW w \in Workers, Worker(w) PROVE Goal
  <2>1. ASSUME NEW j \in Images, CreateBegin(w, j) PROVE Goal
    <3>1. \A v \in Workers : work[v].pull => work'[v] = work[v]
      BY <1>t, <2>1 DEF CreateBegin, Idle, TypeOK
    <3>2. QED
      BY <2>1, <3>1, Remembered DEF CreateBegin, world, host, history
  <2>2. CASE Inspect(w)
    <3>1. \A v \in Workers : work'[v].image = work[v].image /\ work'[v].pull = work[v].pull
      BY <1>t, <2>2 DEF Inspect, TypeOK
    <3>2. QED
      BY <2>2, <3>1, Remembered DEF Inspect, world, host, history
  <2>3. CASE Pull(w)
    <3>1. work'[w].image = work[w].image /\ work'[w].pull
      BY <1>t, <2>3 DEF Pull, TypeOK
    <3>2. \A v \in Workers \ {w} : work'[v] = work[v]
      BY <1>t, <2>3 DEF Pull, TypeOK
    <3>3. CASE i = work[w].image
      BY <3>1, <3>3
    <3>4. CASE i # work[w].image
      BY <2>3, <3>2, <3>4, Remembered DEF Pull, world
    <3>5. QED
      BY <3>3, <3>4
  <2>4. CASE DockerCreate(w)
    <3>1. \A v \in Workers : work'[v].image = work[v].image /\ work'[v].pull = work[v].pull
      BY <1>t, <2>4 DEF DockerCreate, TypeOK
    <3>2. CASE i \in pulled
      BY <2>4, <3>1, <3>2, Remembered DEF DockerCreate, world
    <3>3. CASE i \notin pulled
      BY <2>4, <3>3 DEF DockerCreate
    <3>4. QED
      BY <3>2, <3>3
  <2>5. CASE CreateFails(w)
    <3>1. work[w].pull => work[w].image \in excused'
      BY <2>5 DEF CreateFails
    <3>2. \A v \in Workers \ {w} : work'[v] = work[v]
      BY <1>t, <2>5 DEF CreateFails, TypeOK
    <3>3. excused \subseteq excused'
      BY <2>5 DEF CreateFails
    <3>4. QED
      BY <2>5, <3>1, <3>2, <3>3, Remembered DEF CreateFails, world, host
  <2>6. CASE Record(w)
    <3>1. work[w].pull =>
             \E n \in notes' : n.image = work[w].image /\ n.pull
      <4>1. [image |-> work[w].image, pull |-> work[w].pull, at |-> now] \in notes'
        BY <2>6 DEF Record
      <4>2. QED
        BY <4>1
    <3>2. \A v \in Workers \ {w} : work'[v] = work[v]
      BY <1>t, <2>6 DEF Record, TypeOK
    <3>3. QED
      BY <2>6, <3>1, <3>2, Remembered DEF Record, world, host, history
  <2>7. CASE RefillEnd(w)
    <3>1. work[w].pull => work[w].image \in excused'
      BY <2>7 DEF RefillEnd
    <3>2. \A v \in Workers \ {w} : work'[v] = work[v]
      BY <1>t, <2>7 DEF RefillEnd, TypeOK
    <3>3. excused \subseteq excused'
      BY <2>7 DEF RefillEnd
    <3>4. QED
      BY <2>7, <3>1, <3>2, <3>3, Remembered DEF RefillEnd, world, host
  <2>8. CASE Assign(w)
    BY <2>8, Remembered DEF Assign, world, host, history
  <2>9. CASE SandboxGone(w)
    BY <2>9, <1>u DEF SandboxGone, world, history
  <2>10. QED
    BY <1>1, <2>1, <2>2, <2>3, <2>4, <2>5, <2>6, <2>7, <2>8, <2>9 DEF Worker
<1>2. ASSUME NEW n \in notes, WriteNote(n) PROVE Goal
  <2>1. n.image \in Images /\ n.at # 0
    BY <1>t, <1>2 DEF TypeOK
  <2>2. n.pull => row'[n.image] # 0
    BY <1>t, <1>2, <2>1 DEF WriteNote, TypeOK
  <2>3. row[i] # 0 => row'[i] # 0
    BY <1>t, <1>2, <2>1 DEF WriteNote, TypeOK
  <2>4. \A m \in notes : m \in notes' \/ m = n
    BY <1>2 DEF WriteNote
  <2>5. i \in excused => i \in excused' \/ row'[i] # 0
    BY <1>2, <2>2 DEF WriteNote
  <2>6. QED
    BY <1>2, <2>2, <2>3, <2>4, <2>5, Remembered DEF WriteNote, world, host
<1>3. CASE CleanRow
  <2>1. row[i] # 0 => row'[i] # 0 \/ i \in excused'
    BY <1>t, <1>3 DEF CleanRow, TypeOK
  <2>2. QED
    BY <1>3, <2>1, Remembered DEF CleanRow, world, host
<1>4. CASE CleanRemove
  BY <1>4, <1>u, <1>v DEF CleanRemove, history, world
<1>5. ASSUME NEW j \in Images, HostRemoves(j) PROVE Goal
  BY <1>5, <1>v DEF HostRemoves
<1>6. CASE Restart
  BY <1>6, Remembered DEF Restart, host
<1>7. CASE UNCHANGED vars \/ CleanList \/ CleanFails \/ CleanDone \/ Tick
            \/ \E j \in Images : CleanCheck(j)
  BY <1>7, <1>u
     DEF vars, history, CleanList, CleanFails, CleanDone, Tick, CleanCheck
<1>8. QED
  BY <1>1, <1>2, <1>3, <1>4, <1>5, <1>6, <1>7 DEF Next

-----------------------------------------------------------------------------
\* Every step keeps the invariant.
LEMMA NextIInv == IInv /\ [Next]_vars => IInv'
  BY TypesKept, UsedKept, NothingForgottenKept DEF IInv

\* The invariant holds in every state the server can reach.
THEOREM Invariance == Spec => []IInv
  BY InitIInv, NextIInv, PTL DEF Spec

\* Tables, containers and goroutines are what TypeOK says.
THEOREM TypeCorrect == Spec => []TypeOK
<1>1. IInv => TypeOK
  BY DEF IInv
<1>2. QED
  BY <1>1, Invariance, PTL

\* The cleanup never takes the image of a container, though it looks for
\* containers one command before it removes the image.
THEOREM UsedImagesStay == Spec => []UsedImageKept
<1>1. IInv => UsedImageKept
  BY DEF IInv
<1>2. QED
  BY <1>1, Invariance, PTL

\* Every image the server pulled is remembered, or was forgotten in one of the five
\* known ways.
THEOREM ImagesRemembered == Spec => []NothingForgotten
<1>1. IInv => NothingForgotten
  BY DEF IInv
<1>2. QED
  BY <1>1, Invariance, PTL
=============================================================================
