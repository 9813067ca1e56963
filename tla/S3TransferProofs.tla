-------------------------- MODULE S3TransferProofs --------------------------
(***************************************************************************)
(* Theorems about S3Transfer, for every store, set of commands, order of    *)
(* names and batch size, and whatever the other program does: mv loses no   *)
(* content (MoveLosesNothing), and a command that answers with success has   *)
(* done what it says (DoneIsComplete).                                      *)
(***************************************************************************)
EXTENDS S3Transfer, FiniteSetTheorems, TLAPS

(***************************************************************************)
(* The inductive invariant.                                                *)

TypeInv ==
  /\ stage \in {"idle", "match", "copy", "delete", "over"}
  /\ stage = "idle" => others = {} /\ keys = {} /\ outcome = None
  /\ stage # "idle" => command \in Commands
  /\ stage = "copy" => command.verb # "rm"
  /\ stage = "delete" => command.verb # "cp"
  /\ outcome = "done" => stage = "over"
  /\ IsFiniteSet(DOMAIN store) /\ IsFiniteSet(keys)
  /\ todo \subseteq keys
  /\ \A y \in keys : Names(command, y)

\* The condition of the properties: rm sends nothing anywhere.
Apart == stage # "idle" /\ (command.verb # "rm" => Separate)
OwnWay == {To(x) : x \in Sources \cup Comers}

\* What there is was there, is the other program's, or was copied.
Accounted ==
  \A z \in DOMAIN store \ (DOMAIN start \cup others) :
    command.verb # "rm" /\ z \in OwnWay
\* What is not where the command takes from stays.
RestStays ==
  \A z \in DOMAIN start \ others : z.at # command.src.at => z \in DOMAIN store
\* The target of a download is a directory, or not, throughout.
DirectoryStays ==
  command.verb # "rm" /\ command.dst.at = Disk /\ command.src.at # Disk /\ ~command.recursive =>
    (IsDir(store, command.dst.name) <=> IsDir(start, command.dst.name))
NothingElse ==
  \A z \in (DOMAIN start \cup DOMAIN store) \ (Sources \cup others) :
    \/ \E x \in Sources \cup others : x.at = command.src.at /\ z = To(x)
    \/ z \in DOMAIN store /\ z \in DOMAIN start /\ store[z] = start[z]
WorldInv ==
  Apart => Accounted /\ RestStays /\ DirectoryStays /\ NothingElse

\* The way of a source: it is whole where it was or where it goes, it arrived
\* before it is deleted, and what is not deleted is on the list or was refused.
Arrived(x) == To(x) \in DOMAIN store /\ store[To(x)] = start[x]
Whole(x) ==
  /\ x \in DOMAIN store => store[x] = start[x]
  /\ command.verb = "mv" => x \in DOMAIN store \/ Arrived(x)
  /\ command.verb = "cp" => x \in DOMAIN store
OnWay(x) ==
  /\ stage = "copy" /\ x \in keys \ todo => Arrived(x)
  /\ stage = "delete" /\ command.verb = "mv" /\ x \in keys => Arrived(x)
  /\ stage \in {"copy", "delete"} /\ x \in DOMAIN store => x \in keys
  /\ stage = "delete" /\ x \in DOMAIN store => x \in todo \cup refused
  /\ outcome = "done" =>
       /\ command.verb # "rm" => Arrived(x)
       /\ command.verb # "cp" /\ x \in DOMAIN store => x \in refused
WayInv ==
  Apart => \A x \in Sources : Undisturbed(x) => Whole(x) /\ OnWay(x)

IInv == TypeInv /\ WorldInv /\ WayInv

-----------------------------------------------------------------------------
(* The verbs, and where a key goes.                                        *)

\* The verbs, and which ends are on the disk.
LEMMA CommandIs ==
  ASSUME NEW c \in Commands
  PROVE  /\ c.verb \in {"cp", "mv", "rm"}
         /\ c.verb # "rm" => c.src.at # Disk \/ c.dst.at # Disk
         /\ c.verb = "rm" => c.src.at # Disk
BY TransferAssumption DEF TransferAssumption

\* Only a download that names one key looks at the store for its target.
LEMMA TargetDepends ==
  ASSUME NEW c, NEW s, NEW t, NEW x,
         x.at # Disk /\ c.dst.at = Disk /\ ~c.recursive =>
           (IsDir(s, c.dst.name) <=> IsDir(t, c.dst.name))
  PROVE  Target(c, s, x) = Target(c, t, x)
<1>1. CASE x.at # Disk /\ c.dst.at = Disk
  <2>1. _join_relative_local(s, c.src.name, c.dst.name, x.name, c.recursive)
          = _join_relative_local(t, c.src.name, c.dst.name, x.name, c.recursive)
    BY <1>1 DEF _join_relative_local
  <2> QED BY <1>1, <2>1 DEF Target
<1>2. CASE ~(x.at # Disk /\ c.dst.at = Disk)
  BY <1>2 DEF Target
<1> QED BY <1>1, <1>2

\* A download that names one key writes to the name itself if that is no directory.
LEMMA TargetIsName ==
  ASSUME NEW c, NEW s, NEW x, x.at # Disk, c.dst.at = Disk, ~c.recursive,
         ~IsDir(s, c.dst.name)
  PROVE  Target(c, s, x) = Spot(Disk, c.dst.name)
BY DEF Target, _join_relative_local

LEMMA SpotIs ==
  ASSUME NEW a, NEW n
  PROVE  Spot(a, n).at = a /\ Spot(a, n).name = n
BY DEF Spot

-----------------------------------------------------------------------------
(* What the properties speak of does not change within a command, but for  *)
(* the other program, which can only take away from it.                     *)

LEMMA Frame ==
  ASSUME UNCHANGED <<command, start, others>>
  PROVE  /\ Sources' = Sources /\ Comers' = Comers
         /\ \A x : To(x)' = To(x)
         /\ Separate' <=> Separate
         /\ \A x : Undisturbed(x)' <=> Undisturbed(x)
         /\ OwnWay' = OwnWay
<1>1. Sources' = Sources /\ Comers' = Comers
  BY DEF Sources, Comers, Names
<1>2. \A x : To(x)' = To(x)
  BY DEF To
<1>3. SameDirectory' <=> SameDirectory
  BY DEF SameDirectory
<1>4. Separate' <=> Separate
  BY <1>1, <1>2, <1>3 DEF Separate
<1>5. \A x : Undisturbed(x)' <=> Undisturbed(x)
  BY <1>1, <1>2 DEF Undisturbed
<1>6. OwnWay' = OwnWay
  BY <1>1, <1>2 DEF OwnWay
<1> QED BY <1>1, <1>2, <1>4, <1>5, <1>6

\* After a step of the other program the condition only holds if it did before.
LEMMA FrameOther ==
  ASSUME NEW o, UNCHANGED <<command, start>>, others' = others \cup {o}
  PROVE  /\ Sources' = Sources /\ Comers \subseteq Comers'
         /\ \A x : To(x)' = To(x)
         /\ Separate' => Separate
         /\ \A x : Undisturbed(x)' => Undisturbed(x)
         /\ OwnWay \subseteq OwnWay'
<1>1. Sources' = Sources /\ Comers \subseteq Comers'
  BY DEF Sources, Comers, Names
<1>2. \A x : To(x)' = To(x)
  BY DEF To
<1>3. SameDirectory' => SameDirectory
  BY DEF SameDirectory
<1>4. Separate' => Separate
  BY <1>1, <1>2, <1>3 DEF Separate
<1>5. \A x : Undisturbed(x)' => Undisturbed(x)
  BY <1>1, <1>2 DEF Undisturbed
<1>6. OwnWay \subseteq OwnWay'
  BY <1>1, <1>2 DEF OwnWay
<1> QED BY <1>1, <1>2, <1>4, <1>5, <1>6

-----------------------------------------------------------------------------
(* Types.                                                                  *)

LEMMA TypeInit == Init => TypeInv
<1>1. IsFiniteSet({})
  BY FS_EmptySet
<1> QED BY <1>1, TransferAssumption DEF Init, TypeInv, TransferAssumption

LEMMA EndIs ==
  ASSUME NEW how, End(how)
  PROVE  /\ stage' = "over" /\ UNCHANGED <<command, attempt, cancelled, start, others>>
         /\ outcome' \in {how, "cancelled"}
BY DEF End

\* What matches is finite, and what the command names.
LEMMA MatchIs ==
  ASSUME NEW c, NEW s, IsFiniteSet(DOMAIN s)
  PROVE  /\ IsFiniteSet(_match_keys_sync(c, s))
         /\ \A x \in _match_keys_sync(c, s) : Names(c, x) /\ (c.recursive => x \in DOMAIN s)
         /\ \A x \in DOMAIN s : Names(c, x) => x \in _match_keys_sync(c, s)
<1> DEFINE S == DOMAIN s \cup (IF c.recursive THEN {} ELSE {c.src})
<1>1. IsFiniteSet({}) /\ IsFiniteSet({c.src})
  BY FS_EmptySet, FS_Singleton
<1>2. IsFiniteSet(S)
  BY <1>1, FS_Union
<1>3. _match_keys_sync(c, s) \subseteq S
  BY DEF _match_keys_sync
<1>4. IsFiniteSet(_match_keys_sync(c, s))
  BY <1>2, <1>3, FS_Subset
<1> QED BY <1>4 DEF _match_keys_sync

LEMMA CopiedFinite ==
  ASSUME NEW s, NEW to, NEW content, IsFiniteSet(DOMAIN s)
  PROVE  IsFiniteSet(DOMAIN Put(s, to, content))
<1>1. DOMAIN Put(s, to, content) = DOMAIN s \cup {to}
  BY DEF Put
<1> QED BY <1>1, FS_AddElement

LEMMA WithoutFinite ==
  ASSUME NEW s, NEW D, IsFiniteSet(DOMAIN s)
  PROVE  IsFiniteSet(DOMAIN Without(s, D))
<1>1. DOMAIN Without(s, D) \subseteq DOMAIN s
  BY DEF Without
<1> QED BY <1>1, FS_Subset

LEMMA TypeNext == TypeInv /\ [Next]_vars => TypeInv'
<1> SUFFICES ASSUME TypeInv, [Next]_vars PROVE TypeInv'
  OBVIOUS
<1> USE DEF TypeInv
<1>1. ASSUME NEW c \in Commands, execute(c) PROVE TypeInv'
  BY <1>1 DEF execute
<1>2. CASE Match
  <2> DEFINE found == _match_keys_sync(command, store)
  <2>1. IsFiniteSet(found) /\ \A x \in found : Names(command, x)
    BY MatchIs
  <2> HIDE DEF found
  <2>2. /\ stage = "match" /\ keys' = found /\ todo' = found /\ store' = store
        /\ \/ command.verb = "rm" /\ End("done")
           \/ /\ stage' = IF command.verb = "rm" THEN "delete" ELSE "copy"
              /\ UNCHANGED <<command, attempt, cancelled, outcome, start, others>>
    BY <1>2 DEF Match, found
  <2> QED BY <2>1, <2>2, EndIs
<1>3. ASSUME NEW x \in todo, Copy(x) PROVE TypeInv'
  <2>1. IsFiniteSet(DOMAIN store')
    BY <1>3, CopiedFinite DEF Copy, Copied
  <2> QED BY <1>3, <2>1 DEF Copy, MayCopy
<1>4. CASE CopyEnds
  <2>1. /\ stage = "copy" /\ UNCHANGED <<store, keys>> /\ todo' \in {todo, keys}
        /\ \/ End("done")
           \/ /\ stage' = "delete" /\ command.verb # "cp"
              /\ UNCHANGED <<command, attempt, cancelled, outcome, start, others>>
    BY <1>4 DEF CopyEnds
  <2> QED BY <2>1, EndIs
<1>5. CASE _delete_keys_sync
  <2>1. IsFiniteSet(DOMAIN store')
    BY <1>5, WithoutFinite DEF _delete_keys_sync
  <2>2. todo' \subseteq todo
    BY <1>5 DEF _delete_keys_sync, Rest
  <2> QED BY <1>5, <2>1, <2>2 DEF _delete_keys_sync, Deleting
<1>6. ASSUME NEW x \in todo, Unlink(x) PROVE TypeInv'
  <2>1. IsFiniteSet(DOMAIN store')
    BY <1>6, WithoutFinite DEF Unlink
  <2>2. /\ stage = "delete" /\ keys' = keys /\ todo' \subseteq todo
        /\ \/ End("failed")
           \/ UNCHANGED <<command, stage, attempt, cancelled, outcome, start, others>>
    BY <1>6 DEF Unlink
  <2> QED BY <2>1, <2>2, EndIs
<1>7. CASE DeleteEnds
  BY <1>7, EndIs DEF DeleteEnds
<1>8. CASE Refuse
  BY <1>8, EndIs DEF Refuse, Calling, Copying, Deleting
<1>9. CASE Lose
  <2>1. IsFiniteSet(DOMAIN store')
    BY <1>9, WithoutFinite, CopiedFinite DEF Lose, Copied
  <2>2. \/ End("failed") /\ UNCHANGED <<keys, todo>>
        \/ /\ stage' = "match" /\ keys' = {} /\ todo' = {}
           /\ UNCHANGED <<command, outcome, others>>
    BY <1>9 DEF Lose
  <2>3. stage \in {"match", "copy", "delete"}
    BY <1>9 DEF Lose, Calling, Copying, Deleting
  <2>4. CASE End("failed") /\ UNCHANGED <<keys, todo>>
    BY <2>1, <2>3, <2>4, EndIs
  <2>5. CASE /\ stage' = "match" /\ keys' = {} /\ todo' = {}
             /\ UNCHANGED <<command, outcome, others>>
    BY <2>1, <2>3, <2>5, FS_EmptySet
  <2> QED BY <2>2, <2>4, <2>5
<1>10. CASE Cancel
  BY <1>10 DEF Cancel, Calling, Copying, Deleting
<1>11. CASE Crash
  BY <1>11 DEF Crash
<1>12. ASSUME NEW x \in OtherSpots, OtherProgram(x) PROVE TypeInv'
  <2>1. IsFiniteSet(DOMAIN store')
    BY <1>12, WithoutFinite, CopiedFinite DEF OtherProgram
  <2> QED BY <1>12, <2>1 DEF OtherProgram
<1>13. CASE UNCHANGED vars
  BY <1>13 DEF vars
<1> QED
  BY <1>1, <1>2, <1>3, <1>4, <1>5, <1>6, <1>7, <1>8, <1>9, <1>10, <1>11, <1>12, <1>13
  DEF Next

\* The state keeps its types: what is left of the list is part of it, all of it is
\* what the command names, and only mv and rm delete (s3.py 219-253).
THEOREM TypeCorrect == Spec => []TypeInv
BY TypeInit, TypeNext, PTL DEF Spec

-----------------------------------------------------------------------------
(* What the steps do to the world: which spots there are, and which the    *)
(* command leaves alone.                                                    *)

\* What is copied came from where the command takes, and goes where To says, a
\* place the command does not take from.
LEMMA AimIs ==
  ASSUME TypeInv, Apart, WorldInv, stage = "copy", NEW y \in todo, y \in DOMAIN store
  PROVE  /\ command.verb # "rm" /\ Separate
         /\ y \in Sources \cup Comers /\ Names(command, y) /\ y.at = command.src.at
         /\ Aim(y) = To(y) /\ ~Names(command, To(y))
<1>1. command.verb # "rm" /\ Separate
  BY DEF TypeInv, Apart
<1>2. Names(command, y) /\ y.at = command.src.at
  BY DEF TypeInv, Names
<1>3. y \in Sources \cup Comers
  <2>1. CASE y \in DOMAIN start
    BY <1>2, <2>1 DEF Sources
  <2>2. CASE y \in others
    BY <1>2, <2>2 DEF Comers
  <2>3. CASE y \in OwnWay
    BY <1>1, <1>2, <2>3 DEF OwnWay, Separate
  <2> QED BY <2>1, <2>2, <2>3 DEF WorldInv, Accounted
<1>4. Aim(y) = To(y)
  <2>1. y.at # Disk /\ command.dst.at = Disk /\ ~command.recursive =>
          (IsDir(store, command.dst.name) <=> IsDir(start, command.dst.name))
    BY <1>1, <1>2 DEF WorldInv, DirectoryStays
  <2>2. Target(command, store, y) = Target(command, start, y)
    BY <2>1, TargetDepends
  <2> QED BY <1>1, <2>2 DEF Aim, To
<1> QED BY <1>1, <1>2, <1>3, <1>4 DEF Separate

LEMMA WorldCopied ==
  ASSUME TypeInv, Apart, WorldInv, stage = "copy", NEW y \in todo, y \in DOMAIN store,
         store' = Copied(store, y, Aim(y)), UNCHANGED <<command, start, others>>
  PROVE  WorldInv'
<1>1. /\ command.verb # "rm"
      /\ y \in Sources \cup Comers /\ y.at = command.src.at
      /\ Aim(y) = To(y)
  BY AimIs
<1>2. /\ DOMAIN store' = DOMAIN store \cup {To(y)}
      /\ \A z \in DOMAIN store \ {To(y)} : store'[z] = store[z]
  BY <1>1 DEF Copied, Put
<1>3. /\ Sources' = Sources /\ Comers' = Comers /\ OwnWay' = OwnWay
      /\ \A x : To(x)' = To(x)
  BY Frame
<1>4. Accounted'
  <2>1. To(y) \in OwnWay
    BY <1>1 DEF OwnWay
  <2> QED BY <1>1, <1>2, <1>3, <2>1 DEF WorldInv, Accounted
<1>5. RestStays'
  BY <1>2 DEF WorldInv, RestStays
<1>6. DirectoryStays'
  <2> SUFFICES ASSUME command.dst.at = Disk, command.src.at # Disk, ~command.recursive
               PROVE  IsDir(store', command.dst.name) <=> IsDir(start, command.dst.name)
    BY DEF DirectoryStays
  <2>1. IsDir(store, command.dst.name) <=> IsDir(start, command.dst.name)
    BY <1>1 DEF WorldInv, DirectoryStays
  <2>2. CASE IsDir(store, command.dst.name)
    BY <1>2, <2>1, <2>2 DEF IsDir
  <2>3. CASE ~IsDir(store, command.dst.name)
    <3>1. To(y) = Spot(Disk, command.dst.name)
      BY <1>1, <2>3, TargetIsName DEF Aim
    <3>2. To(y).name = command.dst.name
      BY <3>1, SpotIs
    <3>3. ~IsStrictPrefix(command.dst.name, To(y).name)
      BY <3>2 DEF IsStrictPrefix
    <3> QED BY <1>2, <2>1, <2>3, <3>3 DEF IsDir
  <2> QED BY <2>2, <2>3
<1>7. NothingElse'
  <2> SUFFICES ASSUME NEW z \in (DOMAIN start \cup DOMAIN store') \ (Sources \cup others)
               PROVE  \/ \E x \in Sources \cup others : x.at = command.src.at /\ z = To(x)
                      \/ z \in DOMAIN store' /\ z \in DOMAIN start /\ store'[z] = start[z]
    BY <1>3 DEF NothingElse
  <2>1. CASE z = To(y)
    BY <1>1, <2>1 DEF Comers
  <2>2. CASE z # To(y)
    BY <1>2, <2>2 DEF WorldInv, NothingElse
  <2> QED BY <2>1, <2>2
<1> QED BY <1>4, <1>5, <1>6, <1>7 DEF WorldInv

LEMMA WorldDropped ==
  ASSUME TypeInv, Apart, WorldInv, NEW D, D \subseteq keys,
         store' = Without(store, D), UNCHANGED <<command, start, others>>
  PROVE  WorldInv'
<1>1. \A y \in D : Names(command, y) /\ y.at = command.src.at
  BY DEF TypeInv, Names
<1>2. /\ DOMAIN store' = DOMAIN store \ D
      /\ \A z \in DOMAIN store \ D : store'[z] = store[z]
  BY DEF Without
<1>3. /\ Sources' = Sources /\ Comers' = Comers /\ OwnWay' = OwnWay
      /\ \A x : To(x)' = To(x)
  BY Frame
<1>4. Accounted'
  BY <1>2, <1>3 DEF WorldInv, Accounted
<1>5. RestStays'
  BY <1>1, <1>2 DEF WorldInv, RestStays
<1>6. DirectoryStays'
  <2> SUFFICES ASSUME command.verb # "rm", command.dst.at = Disk, command.src.at # Disk,
                      ~command.recursive
               PROVE  IsDir(store', command.dst.name) <=> IsDir(start, command.dst.name)
    BY DEF DirectoryStays
  <2>1. IsDir(store', command.dst.name) <=> IsDir(store, command.dst.name)
    BY <1>1, <1>2 DEF IsDir
  <2> QED BY <2>1 DEF WorldInv, DirectoryStays
<1>7. NothingElse'
  <2> SUFFICES ASSUME NEW z \in (DOMAIN start \cup DOMAIN store') \ (Sources \cup others)
               PROVE  \/ \E x \in Sources \cup others : x.at = command.src.at /\ z = To(x)
                      \/ z \in DOMAIN store' /\ z \in DOMAIN start /\ store'[z] = start[z]
    BY <1>3 DEF NothingElse
  <2>1. CASE z \notin D
    BY <1>2, <2>1 DEF WorldInv, NothingElse
  <2>2. CASE z \in D
    <3>1. z \notin DOMAIN start
      BY <1>1, <2>2 DEF Sources
    <3>2. z \in DOMAIN store'
      BY <3>1
    <3> QED BY <1>2, <2>2, <3>2
  <2> QED BY <2>1, <2>2
<1> QED BY <1>4, <1>5, <1>6, <1>7 DEF WorldInv

LEMMA WorldSame ==
  ASSUME Apart, WorldInv, UNCHANGED <<store, command, start, others>>
  PROVE  WorldInv'
<1>1. /\ Sources' = Sources /\ Comers' = Comers /\ OwnWay' = OwnWay
      /\ \A x : To(x)' = To(x)
  BY Frame
<1> QED BY <1>1 DEF WorldInv, Accounted, RestStays, DirectoryStays, NothingElse

LEMMA WorldOther ==
  ASSUME TypeInv, Apart, Apart', WorldInv, NEW o, others' = others \cup {o},
         DOMAIN store' \in {DOMAIN store \cup {o}, DOMAIN store \ {o}},
         \A z \in DOMAIN store \ {o} : store'[z] = store[z],
         UNCHANGED <<command, start>>
  PROVE  WorldInv'
<1>1. /\ Sources' = Sources /\ Comers \subseteq Comers' /\ OwnWay \subseteq OwnWay'
      /\ \A x : To(x)' = To(x)
  BY FrameOther
<1>2. Accounted'
  BY <1>1 DEF WorldInv, Accounted
<1>3. RestStays'
  BY DEF WorldInv, RestStays
<1>4. DirectoryStays'
  <2> SUFFICES ASSUME command.verb # "rm", command.dst.at = Disk, command.src.at # Disk,
                      ~command.recursive
               PROVE  IsDir(store', command.dst.name) <=> IsDir(start, command.dst.name)
    BY DEF DirectoryStays
  <2> DEFINE Below(S) == {z \in S : z.at = Disk /\ IsStrictPrefix(command.dst.name, z.name)}
  <2>1. Below(others') = {} \/ Below(DOMAIN start \ others') # {}
    BY DEF Apart, Separate, SameDirectory
  <2>2. CASE Below(others') = {}
    <3>1. ~(o.at = Disk /\ IsStrictPrefix(command.dst.name, o.name))
      BY <2>2
    <3>2. IsDir(store', command.dst.name) <=> IsDir(store, command.dst.name)
      BY <3>1 DEF IsDir
    <3> QED BY <3>2 DEF WorldInv, DirectoryStays
  <2>3. CASE Below(DOMAIN start \ others') # {}
    BY <1>3, <2>3 DEF RestStays, IsDir
  <2> QED BY <2>1, <2>2, <2>3
<1>5. NothingElse'
  BY <1>1 DEF WorldInv, NothingElse
<1> QED BY <1>2, <1>3, <1>4, <1>5 DEF WorldInv

-----------------------------------------------------------------------------
(* What the steps do to one source.                                        *)

\* Where a source goes is not where one comes from, so it is never deleted there.
LEMMA TargetIsElsewhere ==
  ASSUME Apart, command.verb # "rm", NEW x \in Sources
  PROVE  Names(command, x) /\ ~Names(command, To(x)) /\ To(x) # x
BY DEF Apart, Separate, Sources

LEMMA WholeCopied ==
  ASSUME TypeInv, Apart, WorldInv, stage = "copy", NEW y \in todo, y \in DOMAIN store,
         store' = Copied(store, y, Aim(y)), UNCHANGED <<command, start, others>>,
         NEW x \in Sources, Undisturbed(x), Whole(x)
  PROVE  /\ Whole(x)'
         /\ x \in DOMAIN store' <=> x \in DOMAIN store
         /\ Arrived(x) => Arrived(x)'
         /\ y = x => Arrived(x)'
<1>1. /\ command.verb # "rm" /\ Separate
      /\ y \in Sources \cup Comers /\ ~Names(command, To(y))
      /\ Aim(y) = To(y)
  BY AimIs
<1>2. /\ DOMAIN store' = DOMAIN store \cup {To(y)}
      /\ store'[To(y)] = store[y]
      /\ \A z \in DOMAIN store \ {To(y)} : store'[z] = store[z]
  BY <1>1 DEF Copied, Put
<1>3. To(x)' = To(x)
  BY Frame
<1>4. x # To(y)
  BY <1>1 DEF Sources
<1>5. To(y) = To(x) => y = x
  BY <1>1 DEF Separate, Undisturbed
<1>6. y = x => Arrived(x)'
  BY <1>2, <1>3 DEF Arrived, Whole
<1>7. Arrived(x) => Arrived(x)'
  BY <1>2, <1>3, <1>5, <1>6 DEF Arrived
<1>8. x \in DOMAIN store' <=> x \in DOMAIN store
  BY <1>2, <1>4
<1>9. x \in DOMAIN store => store'[x] = store[x]
  BY <1>2, <1>4
<1> QED BY <1>6, <1>7, <1>8, <1>9 DEF Whole

LEMMA WholeDropped ==
  ASSUME TypeInv, Apart, WorldInv, NEW D, D \subseteq keys, command.verb # "cp",
         store' = Without(store, D), UNCHANGED <<command, start, others>>,
         NEW x \in Sources, Whole(x),
         x \in D /\ command.verb = "mv" => Arrived(x)
  PROVE  /\ Whole(x)'
         /\ x \in DOMAIN store' <=> x \in DOMAIN store \ D
         /\ command.verb = "mv" /\ Arrived(x) => Arrived(x)'
<1>1. \A y \in D : Names(command, y)
  BY DEF TypeInv
<1>2. /\ DOMAIN store' = DOMAIN store \ D
      /\ \A z \in DOMAIN store \ D : store'[z] = store[z]
  BY DEF Without
<1>3. To(x)' = To(x)
  BY Frame
<1>4. command.verb = "mv" => To(x) \notin D
  BY <1>1, TargetIsElsewhere
<1>5. command.verb = "mv" /\ Arrived(x) => Arrived(x)'
  BY <1>2, <1>3, <1>4 DEF Arrived
<1> QED BY <1>2, <1>5 DEF Whole

LEMMA WholeSame ==
  ASSUME UNCHANGED <<store, command, start, others>>, NEW x, Whole(x)
  PROVE  /\ Whole(x)'
         /\ x \in DOMAIN store' <=> x \in DOMAIN store
         /\ Arrived(x) => Arrived(x)'
<1>1. To(x)' = To(x)
  BY Frame
<1> QED BY <1>1 DEF Whole, Arrived

LEMMA WholeOther ==
  ASSUME NEW o, others' = others \cup {o},
         DOMAIN store' \in {DOMAIN store \cup {o}, DOMAIN store \ {o}},
         \A z \in DOMAIN store \ {o} : store'[z] = store[z],
         UNCHANGED <<command, start>>, NEW x, Undisturbed(x)', Whole(x)
  PROVE  /\ Whole(x)'
         /\ x \in DOMAIN store' <=> x \in DOMAIN store
         /\ Arrived(x) => Arrived(x)'
<1>1. To(x)' = To(x)
  BY FrameOther
<1>2. o # x /\ o # To(x)
  BY <1>1 DEF Undisturbed
<1> QED BY <1>1, <1>2 DEF Whole, Arrived

-----------------------------------------------------------------------------
(* The actions, one by one: what each does to the way of a source.         *)

\* The sources whose way the properties speak of.
Followed == {x \in Sources : Undisturbed(x)}

LEMMA FollowedIs ==
  ASSUME Apart, WayInv, NEW x \in Followed
  PROVE  x \in Sources /\ Undisturbed(x) /\ Names(command, x) /\ Whole(x) /\ OnWay(x)
BY DEF Followed, WayInv, Sources

LEMMA EndsWell ==
  ASSUME TypeInv, Apart, WayInv, stage \notin {"idle", "over"}, NEW how, End(how),
         UNCHANGED <<store, refused>>, NEW x \in Followed,
         how = "done" => /\ command.verb # "rm" => Arrived(x)
                         /\ command.verb # "cp" /\ x \in DOMAIN store => x \in refused
  PROVE  Whole(x)' /\ OnWay(x)'
<1>1. /\ stage' = "over" /\ UNCHANGED <<command, start, others>>
      /\ outcome' \in {how, "cancelled"}
  BY EndIs
<1>2. Whole(x)
  BY FollowedIs
<1>3. Whole(x)' /\ (Arrived(x) => Arrived(x)')
  BY <1>1, <1>2, WholeSame
<1> QED BY <1>1, <1>3 DEF OnWay

LEMMA MatchWay ==
  ASSUME TypeInv, Apart, WayInv, Match, NEW x \in Followed
  PROVE  Whole(x)' /\ OnWay(x)'
<1> DEFINE found == _match_keys_sync(command, store)
<1>1. x \in DOMAIN store => x \in found
  BY FollowedIs, MatchIs DEF TypeInv
<1> HIDE DEF found
<1>2. /\ stage = "match" /\ keys' = found /\ todo' = found /\ UNCHANGED <<store, refused>>
      /\ \/ command.verb = "rm" /\ (found = {} \/ cancelled) /\ End("done")
         \/ /\ stage' = IF command.verb = "rm" THEN "delete" ELSE "copy"
            /\ UNCHANGED <<command, attempt, cancelled, outcome, start, others>>
  BY DEF Match, found
<1>3. CASE command.verb = "rm" /\ found = {} /\ End("done")
  BY <1>1, <1>2, <1>3, EndsWell
<1>4. CASE command.verb = "rm" /\ cancelled /\ End("done")
  <2>1. End("cancelled")
    BY <1>4 DEF End
  <2> QED BY <1>2, <2>1, EndsWell
<1>5. CASE /\ stage' = IF command.verb = "rm" THEN "delete" ELSE "copy"
           /\ UNCHANGED <<command, attempt, cancelled, outcome, start, others>>
  <2>1. Whole(x) /\ outcome # "done"
    BY <1>2, FollowedIs DEF TypeInv
  <2>2. Whole(x)' /\ (Arrived(x) => Arrived(x)')
    BY <1>2, <1>5, <2>1, WholeSame
  <2> QED BY <1>1, <1>2, <1>5, <2>1, <2>2 DEF OnWay
<1> QED BY <1>2, <1>3, <1>4, <1>5

LEMMA CopyWay ==
  ASSUME TypeInv, Apart, WorldInv, WayInv, NEW y \in todo, Copy(y), NEW x \in Followed
  PROVE  Whole(x)' /\ OnWay(x)'
<1>1. /\ stage = "copy" /\ y \in DOMAIN store /\ store' = Copied(store, y, Aim(y))
      /\ todo' = todo \ {y}
      /\ UNCHANGED <<command, stage, keys, outcome, start, others>>
  BY DEF Copy, MayCopy, CanCopy
<1>2. x \in Sources /\ Undisturbed(x) /\ Whole(x) /\ OnWay(x) /\ outcome # "done"
  BY <1>1, FollowedIs DEF TypeInv
<1>3. /\ Whole(x)'
      /\ x \in DOMAIN store' <=> x \in DOMAIN store
      /\ Arrived(x) => Arrived(x)'
      /\ y = x => Arrived(x)'
  BY <1>1, <1>2, WholeCopied
<1> QED BY <1>1, <1>2, <1>3 DEF OnWay

LEMMA CopyEndsWay ==
  ASSUME TypeInv, Apart, WayInv, CopyEnds, NEW x \in Followed
  PROVE  Whole(x)' /\ OnWay(x)'
<1>1. stage = "copy" /\ todo = {} /\ UNCHANGED <<store, keys, refused>> /\ command.verb # "rm"
  BY DEF CopyEnds, TypeInv
<1>2. Whole(x) /\ OnWay(x) /\ outcome # "done"
  BY <1>1, FollowedIs DEF TypeInv
<1>3. CASE command.verb = "cp" /\ End("done")
  <2>1. Arrived(x)
    BY <1>1, <1>2, <1>3 DEF Whole, OnWay
  <2> QED BY <1>1, <1>3, <2>1, EndsWell
<1>4. CASE cancelled /\ End("done")
  <2>1. End("cancelled")
    BY <1>4 DEF End
  <2> QED BY <1>1, <2>1, EndsWell
<1>5. CASE /\ command.verb # "cp" /\ stage' = "delete" /\ todo' = keys
           /\ UNCHANGED <<command, outcome, start, others>>
  <2>1. Whole(x)' /\ (Arrived(x) => Arrived(x)')
    BY <1>1, <1>2, <1>5, WholeSame
  <2> QED BY <1>1, <1>2, <1>5, <2>1 DEF OnWay
<1> QED BY <1>3, <1>4, <1>5 DEF CopyEnds

\* What is deleted has arrived, and what is not was refused or is still to come.
LEMMA DropWay ==
  ASSUME TypeInv, Apart, WorldInv, WayInv, stage = "delete",
         NEW D, D \subseteq keys, store' = Without(store, D),
         UNCHANGED <<command, start, others>>, NEW x \in Followed
  PROVE  /\ Whole(x)'
         /\ x \in DOMAIN store' <=> x \in DOMAIN store \ D
         /\ command.verb = "mv" /\ Arrived(x) => Arrived(x)'
<1>1. x \in Sources /\ Whole(x) /\ OnWay(x) /\ command.verb # "cp"
  BY FollowedIs DEF TypeInv
<1>2. x \in D /\ command.verb = "mv" => Arrived(x)
  BY <1>1 DEF OnWay
<1> QED BY <1>1, <1>2, WholeDropped

LEMMA DeleteWay ==
  ASSUME TypeInv, Apart, WorldInv, WayInv, _delete_keys_sync, NEW x \in Followed
  PROVE  Whole(x)' /\ OnWay(x)'
<1>1. PICK kept \in {{}} \cup {{y} : y \in Batch} :
        store' = Without(store, Batch \ kept) /\ refused' = refused \cup kept
  BY DEF _delete_keys_sync
<1>2. /\ stage = "delete" /\ todo' = Rest
      /\ UNCHANGED <<command, stage, keys, outcome, start, others>>
  BY DEF _delete_keys_sync, Deleting
<1>3. Batch \subseteq todo /\ todo \ Batch \subseteq Rest
  <2>1. ASSUME NEW y \in todo PROVE Cardinality(Ahead(y, todo)) \in Nat
    <3>1. IsFiniteSet(todo)
      BY FS_Subset DEF TypeInv
    <3>2. Ahead(y, todo) \subseteq todo
      BY DEF Ahead
    <3> QED BY <3>1, <3>2, FS_Subset, FS_CardinalityType
  <2> QED BY <2>1, TransferAssumption DEF Batch, Rest, TransferAssumption
<1>4. /\ Whole(x)'
      /\ x \in DOMAIN store' <=> x \in DOMAIN store \ (Batch \ kept)
      /\ command.verb = "mv" /\ Arrived(x) => Arrived(x)'
  BY <1>1, <1>2, <1>3, DropWay DEF TypeInv
<1>5. OnWay(x) /\ outcome # "done"
  BY <1>2, FollowedIs DEF TypeInv
<1> QED BY <1>1, <1>2, <1>3, <1>4, <1>5 DEF OnWay

LEMMA UnlinkWay ==
  ASSUME TypeInv, Apart, WorldInv, WayInv, NEW y \in todo, Unlink(y), NEW x \in Followed
  PROVE  Whole(x)' /\ OnWay(x)'
<1>1. stage = "delete"
  BY DEF Unlink
<1>2. CASE y \in DOMAIN store
  <2>1. /\ store' = Without(store, {y}) /\ todo' = todo \ {y}
        /\ UNCHANGED <<command, stage, keys, outcome, start, others, refused>>
    BY <1>2 DEF Unlink
  <2>2. /\ Whole(x)'
        /\ x \in DOMAIN store' <=> x \in DOMAIN store \ {y}
        /\ command.verb = "mv" /\ Arrived(x) => Arrived(x)'
    BY <1>1, <2>1, DropWay DEF TypeInv
  <2>3. OnWay(x) /\ outcome # "done"
    BY <1>1, FollowedIs DEF TypeInv
  <2> QED BY <1>1, <2>1, <2>2, <2>3 DEF OnWay
<1>3. CASE y \notin DOMAIN store
  BY <1>1, <1>3, EndsWell DEF Unlink
<1> QED BY <1>2, <1>3

LEMMA DeleteEndsWay ==
  ASSUME TypeInv, Apart, WayInv, DeleteEnds, NEW x \in Followed
  PROVE  Whole(x)' /\ OnWay(x)'
<1>1. /\ stage = "delete" /\ todo = {} /\ End("done")
      /\ UNCHANGED <<store, keys, todo, refused>>
  BY DEF DeleteEnds
<1>2. Whole(x) /\ OnWay(x) /\ command.verb \in {"mv", "rm"}
  BY <1>1, FollowedIs, CommandIs DEF TypeInv
<1>3. /\ command.verb # "rm" => Arrived(x)
      /\ command.verb # "cp" /\ x \in DOMAIN store => x \in refused
  BY <1>1, <1>2 DEF Whole, OnWay
<1> QED BY <1>1, <1>3, EndsWell

\* A call that is lost may have had its effect.
LEMMA LoseIs ==
  ASSUME TypeInv, Lose
  PROVE  /\ stage \in {"match", "copy", "delete"} /\ UNCHANGED <<command, start, others>>
         /\ \/ store' = store
            \/ \E y \in todo : /\ stage = "copy" /\ y \in DOMAIN store
                               /\ store' = Copied(store, y, Aim(y))
            \/ \E D : D \subseteq keys /\ stage = "delete" /\ store' = Without(store, D)
         /\ stage' \in {"match", "over"} /\ outcome' # "done"
<1>1. stage \in {"match", "copy", "delete"} /\ UNCHANGED <<command, start, others>>
  BY DEF Lose, Calling, Copying, Deleting, End
<1>2. \/ store' = store
      \/ \E y \in todo : /\ stage = "copy" /\ y \in DOMAIN store
                         /\ store' = Copied(store, y, Aim(y))
      \/ \E D : D \subseteq keys /\ stage = "delete" /\ store' = Without(store, D)
  <2>1. CASE store' = store
    BY <2>1
  <2>2. ASSUME NEW y \in todo, MayCopy(y), store' = Copied(store, y, Aim(y))
        PROVE  stage = "copy" /\ y \in DOMAIN store
    BY <2>2 DEF MayCopy, CanCopy
  <2>3. CASE Deleting /\ store' = Without(store, Batch)
    <3>1. Batch \subseteq keys /\ stage = "delete"
      BY <2>3 DEF Batch, Deleting, TypeInv
    <3> QED BY <2>3, <3>1
  <2> QED BY <2>1, <2>2, <2>3 DEF Lose
<1>3. stage' \in {"match", "over"} /\ outcome' # "done"
  <2>1. outcome # "done"
    BY <1>1 DEF TypeInv
  <2>2. CASE End("failed")
    BY <2>2, EndIs
  <2>3. CASE stage' = "match" /\ outcome' = outcome
    BY <2>1, <2>3
  <2> QED BY <2>2, <2>3 DEF Lose
<1> QED BY <1>1, <1>2, <1>3

\* The second attempt lists anew what is left.
LEMMA LoseWay ==
  ASSUME TypeInv, Apart, WorldInv, WayInv, Lose, NEW x \in Followed
  PROVE  Whole(x)' /\ OnWay(x)'
<1>1. x \in Sources /\ Undisturbed(x) /\ Whole(x)
  BY FollowedIs
<1>2. UNCHANGED <<command, start, others>>
  BY LoseIs
<1>3. Whole(x)'
  <2>1. CASE store' = store
    BY <1>1, <1>2, <2>1, WholeSame
  <2>2. ASSUME NEW y \in todo, stage = "copy", y \in DOMAIN store,
               store' = Copied(store, y, Aim(y))
        PROVE  Whole(x)'
    BY <1>1, <1>2, <2>2, WholeCopied
  <2>3. ASSUME NEW D, D \subseteq keys, stage = "delete", store' = Without(store, D)
        PROVE  Whole(x)'
    BY <1>2, <2>3, DropWay
  <2> QED BY <2>1, <2>2, <2>3, LoseIs
<1> QED BY <1>3, LoseIs DEF OnWay

LEMMA OtherIs ==
  ASSUME NEW o, OtherProgram(o)
  PROVE  /\ others' = others \cup {o}
         /\ DOMAIN store' \in {DOMAIN store \cup {o}, DOMAIN store \ {o}}
         /\ \A z \in DOMAIN store \ {o} : store'[z] = store[z]
         /\ stage \in {"match", "copy", "delete"}
         /\ UNCHANGED <<command, start, stage, keys, todo, outcome, refused>>
<1>1. CASE store' = Put(store, o, "theirs")
  BY <1>1 DEF OtherProgram, Put
<1>2. CASE store' = Without(store, {o})
  BY <1>2 DEF OtherProgram, Without
<1> QED BY <1>1, <1>2 DEF OtherProgram

LEMMA OtherWay ==
  ASSUME Apart, WayInv, NEW o, OtherProgram(o), NEW x \in Sources, Undisturbed(x)'
  PROVE  Whole(x)' /\ OnWay(x)'
<1>1. x \in Followed
  BY OtherIs, FrameOther DEF Followed
<1>2. Whole(x) /\ OnWay(x)
  BY <1>1, FollowedIs
<1>3. /\ Whole(x)'
      /\ x \in DOMAIN store' <=> x \in DOMAIN store
      /\ Arrived(x) => Arrived(x)'
  BY <1>2, OtherIs, WholeOther
<1> QED BY <1>2, <1>3, OtherIs DEF OnWay

-----------------------------------------------------------------------------
(* The invariant is inductive.                                             *)

LEMMA ExecuteKeeps ==
  ASSUME TypeInv, NEW c, execute(c)
  PROVE  (WorldInv /\ WayInv)'
<1>1. /\ store' = store /\ start' = store /\ others' = {} /\ stage' = "match"
      /\ outcome' # "done"
  BY DEF execute, TypeInv
<1>2. WorldInv'
  BY <1>1 DEF WorldInv, Accounted, RestStays, DirectoryStays, NothingElse
<1>3. WayInv'
  BY <1>1 DEF WayInv, Whole, OnWay, Sources
<1> QED BY <1>2, <1>3

\* The other actions leave the command and its first store as they are.
LEMMA StepFrame ==
  ASSUME TypeInv, [Next]_vars, ~\E c \in Commands : execute(c),
         ~\E o \in OtherSpots : OtherProgram(o)
  PROVE  /\ UNCHANGED <<command, start, others>>
         /\ stage = "idle" => UNCHANGED vars
<1>1. CASE Match
  BY <1>1 DEF Match, End
<1>2. CASE CopyEnds \/ DeleteEnds
  BY <1>2 DEF CopyEnds, DeleteEnds, End
<1>3. CASE _delete_keys_sync
  BY <1>3 DEF _delete_keys_sync, Deleting
<1>4. ASSUME NEW x \in todo, Copy(x) \/ Unlink(x)
      PROVE  UNCHANGED <<command, start, others>> /\ stage # "idle"
  BY <1>4 DEF Copy, MayCopy, Unlink, End
<1>5. CASE Refuse \/ Lose
  BY <1>5 DEF Refuse, Lose, Calling, Copying, Deleting, End
<1>6. CASE Cancel \/ Crash
  BY <1>6 DEF Cancel, Crash, Calling, Copying, Deleting
<1>7. CASE UNCHANGED vars
  BY <1>7 DEF vars
<1> QED BY <1>1, <1>2, <1>3, <1>4, <1>5, <1>6, <1>7 DEF Next

\* What a step other than these two does to the store.
LEMMA StepStore ==
  ASSUME TypeInv, [Next]_vars, ~\E c \in Commands : execute(c),
         ~\E o \in OtherSpots : OtherProgram(o)
  PROVE  \/ store' = store
         \/ \E y \in todo : /\ stage = "copy" /\ y \in DOMAIN store
                            /\ store' = Copied(store, y, Aim(y))
         \/ \E D : D \subseteq keys /\ stage = "delete" /\ store' = Without(store, D)
<1>1. CASE Match \/ CopyEnds \/ DeleteEnds \/ Refuse \/ Cancel \/ Crash \/ UNCHANGED vars
  BY <1>1 DEF Match, CopyEnds, DeleteEnds, Refuse, Cancel, Crash, vars
<1>2. ASSUME NEW y \in todo, Copy(y)
      PROVE  stage = "copy" /\ y \in DOMAIN store /\ store' = Copied(store, y, Aim(y))
  BY <1>2 DEF Copy, MayCopy, CanCopy
<1>3. CASE _delete_keys_sync
  <2>1. PICK kept \in {{}} \cup {{x} : x \in Batch} : store' = Without(store, Batch \ kept)
    BY <1>3 DEF _delete_keys_sync
  <2>2. Batch \ kept \subseteq keys /\ stage = "delete"
    BY <1>3 DEF _delete_keys_sync, Deleting, Batch, TypeInv
  <2> QED BY <2>1, <2>2
<1>4. ASSUME NEW y \in todo, Unlink(y)
      PROVE  \/ store' = store
             \/ {y} \subseteq keys /\ stage = "delete" /\ store' = Without(store, {y})
  BY <1>4 DEF Unlink, TypeInv
<1>5. CASE Lose
  BY <1>5, LoseIs
<1> QED
  <2>1. CASE \E y \in todo : Copy(y)
    BY <1>2, <2>1
  <2>2. CASE \E y \in todo : Unlink(y)
    BY <1>4, <2>2
  <2> QED BY <1>1, <1>3, <1>5, <2>1, <2>2 DEF Next

LEMMA WorldNext ==
  ASSUME TypeInv, WorldInv, WayInv, [Next]_vars
  PROVE  WorldInv'
<1>1. ASSUME NEW c \in Commands, execute(c) PROVE WorldInv'
  BY <1>1, ExecuteKeeps
<1>2. ASSUME NEW o \in OtherSpots, OtherProgram(o) PROVE WorldInv'
  <2> SUFFICES ASSUME Apart' PROVE WorldInv'
    BY DEF WorldInv
  <2>1. Apart
    BY <1>2, OtherIs, FrameOther DEF Apart
  <2> QED BY <1>2, <2>1, OtherIs, WorldOther
<1>3. CASE /\ ~\E c \in Commands : execute(c)
           /\ ~\E o \in OtherSpots : OtherProgram(o)
  <2> SUFFICES ASSUME Apart' PROVE WorldInv'
    BY DEF WorldInv
  <2>1. UNCHANGED <<command, start, others>> /\ (stage = "idle" => UNCHANGED vars)
    BY <1>3, StepFrame
  <2>2. Apart
    BY <2>1, Frame DEF Apart, vars
  <2>3. CASE store' = store
    BY <2>1, <2>2, <2>3, WorldSame
  <2>4. ASSUME NEW y \in todo, stage = "copy", y \in DOMAIN store,
               store' = Copied(store, y, Aim(y))
        PROVE  WorldInv'
    BY <2>1, <2>2, <2>4, WorldCopied
  <2>5. ASSUME NEW D, D \subseteq keys, store' = Without(store, D) PROVE WorldInv'
    BY <2>1, <2>2, <2>5, WorldDropped
  <2> QED BY <1>3, <2>3, <2>4, <2>5, StepStore
<1> QED BY <1>1, <1>2, <1>3

LEMMA WayNext ==
  ASSUME TypeInv, WorldInv, WayInv, [Next]_vars
  PROVE  WayInv'
<1>1. ASSUME NEW c \in Commands, execute(c) PROVE WayInv'
  BY <1>1, ExecuteKeeps
<1>2. ASSUME NEW o \in OtherSpots, OtherProgram(o) PROVE WayInv'
  <2> SUFFICES ASSUME Apart', NEW x \in Sources', Undisturbed(x)'
               PROVE  Whole(x)' /\ OnWay(x)'
    BY DEF WayInv
  <2>1. Apart /\ x \in Sources
    BY <1>2, OtherIs, FrameOther DEF Apart
  <2> QED BY <1>2, <2>1, OtherWay
<1>3. CASE /\ ~\E c \in Commands : execute(c)
           /\ ~\E o \in OtherSpots : OtherProgram(o)
  <2> SUFFICES ASSUME Apart', NEW x \in Sources', Undisturbed(x)'
               PROVE  Whole(x)' /\ OnWay(x)'
    BY DEF WayInv
  <2>1. UNCHANGED <<command, start, others>> /\ (stage = "idle" => UNCHANGED vars)
    BY <1>3, StepFrame
  <2>2. Apart /\ x \in Followed
    BY <2>1, Frame DEF Apart, vars, Followed
  <2>3. Whole(x) /\ OnWay(x)
    BY <2>2, FollowedIs
  <2>4. CASE Match
    BY <2>2, <2>4, MatchWay
  <2>5. ASSUME NEW y \in todo, Copy(y) PROVE Whole(x)' /\ OnWay(x)'
    BY <2>2, <2>5, CopyWay
  <2>6. CASE CopyEnds
    BY <2>2, <2>6, CopyEndsWay
  <2>7. CASE _delete_keys_sync
    BY <2>2, <2>7, DeleteWay
  <2>8. ASSUME NEW y \in todo, Unlink(y) PROVE Whole(x)' /\ OnWay(x)'
    BY <2>2, <2>8, UnlinkWay
  <2>9. CASE DeleteEnds
    BY <2>2, <2>9, DeleteEndsWay
  <2>10. CASE Refuse
    <3>1. stage \notin {"idle", "over"}
      BY <2>10 DEF Refuse, Calling, Copying, Deleting
    <3> QED BY <2>2, <2>10, <3>1, EndsWell DEF Refuse
  <2>11. CASE Lose
    BY <2>2, <2>11, LoseWay
  <2>12. CASE Cancel
    <3>1. UNCHANGED <<store, command, stage, keys, todo, start, others, refused>>
          /\ outcome' = "cancelled"
      BY <2>12 DEF Cancel
    <3>2. Whole(x)' /\ (Arrived(x) => Arrived(x)')
      BY <2>3, <3>1, WholeSame
    <3> QED BY <2>3, <3>1, <3>2 DEF OnWay
  <2>13. CASE Crash
    <3>1. /\ UNCHANGED <<store, command, outcome, start, others>> /\ stage' = "over"
          /\ stage # "over"
      BY <2>13 DEF Crash
    <3>2. Whole(x)' /\ outcome # "done"
      BY <2>3, <3>1, WholeSame DEF TypeInv
    <3> QED BY <3>1, <3>2 DEF OnWay
  <2>14. CASE UNCHANGED vars
    <3>1. Whole(x)' /\ (Arrived(x) => Arrived(x)')
      BY <2>3, <2>14, WholeSame DEF vars
    <3> QED BY <2>3, <2>14, <3>1 DEF OnWay, vars
  <2> QED
    BY <1>3, <2>4, <2>5, <2>6, <2>7, <2>8, <2>9, <2>10, <2>11, <2>12, <2>13, <2>14 DEF Next
<1> QED BY <1>1, <1>2, <1>3

THEOREM Invariance == Spec => []IInv
<1>1. Init => IInv
  <2> SUFFICES ASSUME Init PROVE IInv
    OBVIOUS
  <2>1. stage = "idle"
    BY DEF Init
  <2> QED BY <2>1, TypeInit DEF IInv, WorldInv, WayInv, Apart
<1>2. IInv /\ [Next]_vars => IInv'
  BY TypeNext, WorldNext, WayNext DEF IInv
<1> QED BY <1>1, <1>2, PTL DEF Spec

-----------------------------------------------------------------------------
(* The theorems.                                                           *)

\* mv keeps every content at its source or at its target, whatever call fails, is
\* lost and repeated or is cancelled, and wherever the server dies (_cmd_transfer,
\* s3.py 219-243; _reconnect_and_retry), for sources whose ways are apart and that
\* the other program left alone.
THEOREM MoveIsSafe == Spec => []MoveLosesNothing
<1>1. IInv => MoveLosesNothing
  <2> SUFFICES ASSUME IInv, stage # "idle", command.verb = "mv", Separate,
                      NEW x \in Sources, Undisturbed(x)
               PROVE  \E y \in {x, To(x)} : y \in DOMAIN store /\ store[y] = start[x]
    BY DEF MoveLosesNothing
  <2>1. Whole(x)
    BY DEF IInv, WayInv, Apart
  <2> QED BY <2>1 DEF Whole, Arrived
<1> QED BY <1>1, Invariance, PTL

\* A cp, mv or rm that answers with success has done all it says and nothing else,
\* in one attempt or two (s3.py 219-253, 501-576).
THEOREM SuccessIsComplete == Spec => []DoneIsComplete
<1>1. IInv => DoneIsComplete
  <2> SUFFICES ASSUME IInv, outcome = "done", command.verb # "rm" => Separate
               PROVE  DoneIsComplete
    BY DEF DoneIsComplete
  <2>1. Apart
    BY DEF IInv, TypeInv, Apart
  <2>2. ASSUME NEW x \in Sources, Undisturbed(x)
        PROVE  /\ command.verb # "rm" => To(x) \in DOMAIN store /\ store[To(x)] = start[x]
               /\ IF command.verb = "cp" THEN x \in DOMAIN store /\ store[x] = start[x]
                  ELSE x \in DOMAIN store => x \in refused
    <3>1. Whole(x) /\ OnWay(x)
      BY <2>1, <2>2 DEF IInv, WayInv
    <3> QED BY <3>1 DEF Whole, OnWay, Arrived
  <2>3. NothingElse
    BY <2>1 DEF IInv, WorldInv
  <2> QED BY <2>2, <2>3 DEF DoneIsComplete, NothingElse
<1> QED BY <1>1, Invariance, PTL

=============================================================================
