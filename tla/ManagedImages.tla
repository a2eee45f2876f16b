---------------------------- MODULE ManagedImages ----------------------------
(***************************************************************************)
(* The images that the server pulls, and removes again when no sandbox has *)
(* been created from them for two weeks: Create and ensureWarmPool, which  *)
(* look for an image and pull it, the goroutines that record its use, and  *)
(* CleanupUnusedManagedImages (internal/sandbox/service.go, the table      *)
(* managed_images in internal/store/sqlite/store.go, and                   *)
(* internal/sandbox/docker/backend.go).                                    *)
(*                                                                         *)
(* An image is found, pulled, used, recorded and removed in steps of their *)
(* own, and nothing keeps a Create and the cleanup apart but Docker, which *)
(* keeps an image that has a container.  docker create pulls an image that *)
(* is not there.                                                           *)
(***************************************************************************)
EXTENDS Integers

CONSTANTS
    Images,
    Creates,        \* calls of Create that the warm pool does not serve
    Refills,        \* sandboxes that ensureWarmPool makes
    None,
    Ttl,            \* two weeks
    MaxTime,        \* bound: the clock
    MaxCrashes      \* bound: restarts

Workers == Creates \cup Refills

ASSUME ManagedImagesAssumption ==
    /\ None \notin Images
    /\ Creates \cap Refills = {}
    /\ Ttl \in Nat /\ MaxTime \in Nat \ {0} /\ MaxCrashes \in Nat

VARIABLES
    now,            \* the clock
    present,        \* images on the host
    container,      \* the image of the container that each worker has made
    row,            \* last_used_at in managed_images, or 0 for no row
    work,           \* where each worker is
    notes,          \* goroutines of recordManagedImageUsageAsync
    clean,          \* CleanupUnusedManagedImages
    crashes,
    pulled,         \* history: images that are there because of the server
    excused         \* history: those of them it lost track of in a known way

world == <<now, crashes>>
host == <<present, container>>
history == <<pulled, excused>>
vars == <<world, host, row, work, notes, clean, history>>

-----------------------------------------------------------------------------
Idle  == [pc |-> "idle", image |-> None, pull |-> FALSE]
Clean == [pc |-> "idle", list |-> {}, image |-> None]

Times == 1..MaxTime
Notes == [image : Images, pull : BOOLEAN, at : Times]

TypeOK ==
    /\ now \in Times /\ crashes \in 0..MaxCrashes
    /\ present \subseteq Images
    /\ container \in [Workers -> Images \cup {None}]
    /\ row \in [Images -> 0..MaxTime]
    /\ work \in [Workers -> [pc : {"idle", "inspect", "pull", "create", "record"},
                             image : Images \cup {None}, pull : BOOLEAN]]
    /\ notes \subseteq Notes
    /\ clean \in [pc : {"idle", "list", "remove", "row"}, list : SUBSET Images,
                  image : Images \cup {None}]
    /\ pulled \subseteq Images /\ excused \subseteq Images

\* Some images are there before the server.
Init ==
    /\ now = 1 /\ crashes = 0
    /\ present \in SUBSET Images
    /\ container = [w \in Workers |-> None]
    /\ row = [i \in Images |-> 0]
    /\ work = [w \in Workers |-> Idle]
    /\ notes = {} /\ clean = Clean
    /\ pulled = {} /\ excused = {}

Referenced(i) == \E w \in Workers : container[w] = i

-----------------------------------------------------------------------------
(***************************************************************************)
(* Create and ensureWarmPool.                                              *)
(***************************************************************************)

\* A request whose image_pull_policy and memory are in order, or a refill.
CreateBegin(w, i) ==
    /\ work[w] = Idle /\ container[w] = None
    /\ work' = [work EXCEPT ![w] = [pc |-> "inspect", image |-> i, pull |-> FALSE]]
    /\ UNCHANGED <<world, host, row, notes, clean, history>>

\* imageExists.
Inspect(w) ==
    /\ work[w].pc = "inspect"
    /\ work' = [work EXCEPT ![w].pc =
                   IF work[w].image \in present THEN "create" ELSE "pull"]
    /\ UNCHANGED <<world, host, row, notes, clean, history>>

\* pullImage.
Pull(w) ==
    /\ work[w].pc = "pull"
    /\ work' = [work EXCEPT ![w] = [pc |-> "create", image |-> @.image, pull |-> TRUE]]
    /\ present' = present \cup {work[w].image}
    /\ pulled' = pulled \cup {work[w].image}
    /\ UNCHANGED <<world, container, row, notes, clean, excused>>

\* docker create.  When the image is gone again, docker pulls it: the server does
\* not learn of that.
DockerCreate(w) ==
    /\ work[w].pc = "create"
    /\ work' = [work EXCEPT ![w].pc = "record"]
    /\ container' = [container EXCEPT ![w] = work[w].image]
    /\ present' = present \cup {work[w].image}
    /\ pulled' = pulled \cup ({work[w].image} \ present)
    /\ excused' = excused \cup {i \in {work[w].image} \ present : row[i] = 0}
    /\ UNCHANGED <<world, row, notes, clean>>

\* Docker or the store fails: an image that was pulled stays, unrecorded.
CreateFails(w) ==
    /\ work[w].pc # "idle"
    /\ work' = [work EXCEPT ![w] = Idle]
    /\ excused' = IF work[w].pull THEN excused \cup {work[w].image} ELSE excused
    /\ UNCHANGED <<world, host, row, notes, clean, pulled>>

\* Mutant: only the use of images that are there already is recorded.
RecordTouch(w) ==
    /\ work[w].pc = "record" /\ w \in Creates
    /\ work' = [work EXCEPT ![w] = Idle]
    /\ notes' = notes \cup {[image |-> work[w].image, pull |-> FALSE, at |-> now]}
    /\ UNCHANGED <<world, host, row, clean, history>>

\* Create ends, and leaves a goroutine behind ...
Record(w) ==
    /\ work[w].pc = "record" /\ w \in Creates
    /\ work' = [work EXCEPT ![w] = Idle]
    /\ notes' = notes \cup {[image |-> work[w].image, pull |-> work[w].pull,
                             at |-> now]}
    /\ UNCHANGED <<world, host, row, clean, history>>

\* ... but a refill records nothing, ...
RefillEnd(w) ==
    /\ work[w].pc = "record" /\ w \in Refills
    /\ work' = [work EXCEPT ![w] = Idle]
    /\ excused' = IF work[w].pull THEN excused \cup {work[w].image} ELSE excused
    /\ UNCHANGED <<world, host, row, notes, clean, pulled>>

\* ... until its sandbox is given to a Create.
Assign(w) ==
    /\ work[w] = Idle /\ w \in Refills /\ container[w] # None
    /\ notes' = notes \cup {[image |-> container[w], pull |-> FALSE, at |-> now]}
    /\ UNCHANGED <<world, host, row, work, clean, history>>

\* RecordManagedImagePull inserts the row or sets its time; else
\* TouchManagedImageIfTracked only does the latter.  Goroutines come in any order.
WriteNote(n) ==
    /\ n \in notes
    /\ notes' = notes \ {n}
    /\ row' = IF n.pull \/ row[n.image] # 0 THEN [row EXCEPT ![n.image] = n.at] ELSE row
    /\ excused' = IF n.pull THEN excused \ {n.image} ELSE excused
    /\ UNCHANGED <<world, host, work, clean, pulled>>

SandboxGone(w) ==
    /\ work[w] = Idle /\ container[w] # None
    /\ container' = [container EXCEPT ![w] = None]
    /\ UNCHANGED <<world, present, row, work, notes, clean, history>>

-----------------------------------------------------------------------------
(***************************************************************************)
(* The cleanup.                                                            *)
(***************************************************************************)

Old(i) == row[i] # 0 /\ row[i] < now - Ttl

CleanList ==
    /\ clean = Clean
    /\ clean' = [Clean EXCEPT !.pc = "list", !.list = {i \in Images : Old(i)}]
    /\ UNCHANGED <<world, host, row, work, notes, history>>

\* DeleteImageIfUnused asks docker ps for containers of the image.
CleanCheck(i) ==
    /\ clean.pc = "list" /\ i \in clean.list
    /\ clean' = IF Referenced(i)
                THEN [clean EXCEPT !.list = @ \ {i}]
                ELSE [pc |-> "remove", list |-> clean.list \ {i}, image |-> i]
    /\ UNCHANGED <<world, host, row, work, notes, history>>

RemoveImage(i) ==
    present' = present \ {i} /\ pulled' = pulled \ {i} /\ excused' = excused \ {i}

\* Mutant: an image that is no longer there is none that was deleted.
CleanRemoveMissing ==
    /\ clean.pc = "remove"
    /\ \/ /\ clean.image \in present /\ ~Referenced(clean.image)
          /\ RemoveImage(clean.image)
          /\ clean' = [clean EXCEPT !.pc = "row"]
       \/ /\ clean.image \in present => Referenced(clean.image)
          /\ clean' = [clean EXCEPT !.pc = "list", !.image = None]
          /\ UNCHANGED <<present, history>>
    /\ UNCHANGED <<world, container, row, work, notes>>

\* Mutant: docker image rm -f, which only refuses one with a running container.
CleanRemoveForced ==
    /\ clean.pc = "remove"
    /\ RemoveImage(clean.image)
    /\ clean' = [clean EXCEPT !.pc = "row"]
    /\ UNCHANGED <<world, container, row, work, notes>>

\* docker image rm, which refuses an image that has a container by now.  One that
\* is not there counts as deleted.
CleanRemove ==
    /\ clean.pc = "remove"
    /\ \/ /\ ~Referenced(clean.image)
          /\ RemoveImage(clean.image)
          /\ clean' = [clean EXCEPT !.pc = "row"]
       \/ /\ Referenced(clean.image)
          /\ clean' = [clean EXCEPT !.pc = "list", !.image = None]
          /\ UNCHANGED <<present, history>>
    /\ UNCHANGED <<world, container, row, work, notes>>

\* DeleteManagedImage, whatever the row says by now: when the image was pulled
\* again meanwhile, the server forgets it.
CleanRow ==
    /\ clean.pc = "row"
    /\ row' = [row EXCEPT ![clean.image] = 0]
    /\ clean' = [clean EXCEPT !.pc = "list", !.image = None]
    /\ excused' = excused \cup ({clean.image} \cap pulled)
    /\ UNCHANGED <<world, host, work, notes, pulled>>

\* A command or the store fails, and the cleanup goes on with the next image.
CleanFails ==
    /\ \/ /\ clean.pc \in {"remove", "row"}
          /\ clean' = [clean EXCEPT !.pc = "list", !.image = None]
       \/ /\ clean.pc = "list"
          /\ \E i \in clean.list : clean' = [clean EXCEPT !.list = @ \ {i}]
    /\ UNCHANGED <<world, host, row, work, notes, history>>

CleanDone ==
    /\ clean.pc = "list" /\ clean.list = {}
    /\ clean' = Clean
    /\ UNCHANGED <<world, host, row, work, notes, history>>

-----------------------------------------------------------------------------
(***************************************************************************)
(* The world.                                                              *)
(***************************************************************************)

Tick ==
    /\ now < MaxTime
    /\ now' = now + 1
    /\ UNCHANGED <<crashes, host, row, work, notes, clean, history>>

\* Somebody else removes an image.
HostRemoves(i) ==
    /\ i \in present /\ ~Referenced(i)
    /\ RemoveImage(i)
    /\ UNCHANGED <<world, container, row, work, notes, clean>>

\* The goroutines are gone, and with them what they had to record.
Restart ==
    /\ crashes < MaxCrashes
    /\ crashes' = crashes + 1
    /\ work' = [w \in Workers |-> Idle]
    /\ notes' = {} /\ clean' = Clean
    /\ excused' = excused \cup {work[w].image : w \in {v \in Workers : work[v].pull}}
                          \cup {n.image : n \in {m \in notes : m.pull}}
    /\ UNCHANGED <<now, host, row, pulled>>

-----------------------------------------------------------------------------
Worker(w) ==
    \/ \E i \in Images : CreateBegin(w, i)
    \/ Inspect(w) \/ Pull(w) \/ DockerCreate(w) \/ CreateFails(w)
    \/ Record(w) \/ RefillEnd(w) \/ Assign(w) \/ SandboxGone(w)

Next ==
    \/ \E w \in Workers : Worker(w)
    \/ \E n \in notes : WriteNote(n)
    \/ CleanList \/ (\E i \in Images : CleanCheck(i)) \/ CleanRemove \/ CleanRow
    \/ CleanFails \/ CleanDone
    \/ Tick \/ (\E i \in Images : HostRemoves(i)) \/ Restart

Spec == Init /\ [][Next]_vars

\* The loop ticks for ever, and neither docker nor the store fails every time.
Fairness ==
    /\ WF_vars(CleanList) /\ WF_vars(CleanDone)
    /\ \A i \in Images : SF_vars(CleanCheck(i))
    /\ SF_vars(CleanRemove) /\ SF_vars(CleanRow)

FairSpec == Spec /\ Fairness

-----------------------------------------------------------------------------
(***************************************************************************)
(* Properties.                                                             *)
(***************************************************************************)

\* An image that is there because the server pulled it has a row, by which it is
\* removed one day, or is about to get one.  The server forgets an image only in
\* one of five ways: a refill pulled it, docker create did, the call that pulled
\* it failed, the process died before it was recorded, or it was pulled again
\* between the removal of image and row.
NothingForgotten ==
    \A i \in pulled :
        \/ row[i] # 0
        \/ \E n \in notes : n.image = i /\ n.pull
        \/ \E w \in Workers : work[w].image = i /\ work[w].pull
        \/ i \in excused

\* The image of a container stays, whatever docker ps said before.
UsedImageKept == \A w \in Workers : container[w] \in present \cup {None}

\* An image that stays unused is removed, with its row, also if it was removed by
\* hand, and whatever fails on the way.
UnusedImagesGo ==
    \A i \in Images : []<>(~Old(i) \/ Referenced(i))
=============================================================================
