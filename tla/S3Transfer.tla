------------------------------ MODULE S3Transfer ------------------------------
(***************************************************************************)
(* The commands of the S3 driver that change something: cp, mv and rm of    *)
(* drivers/s3.py, one call of the store a step, with calls that fail, a     *)
(* lost connection after which _reconnect_and_retry runs the whole command  *)
(* again, cancellation (the thread of the call goes on), deletions the      *)
(* store refuses, and another program that writes to the same places.       *)
(*                                                                         *)
(* A key is a sequence of pieces, "/" being one of them: what matters of a  *)
(* key is what it begins with and where its slashes are.  A file is the     *)
(* sequence of its path's segments, which pathlib keeps without slashes.    *)
(***************************************************************************)
EXTENDS SequencesExt

CONSTANTS Buckets,      \* the buckets of the store
          Rank,         \* piece -> its place in the order of characters
          Stores,       \* what buckets and disk may hold at first
          Commands,     \* the commands [verb, src, dst, recursive, pattern]
          OtherSpots,   \* what the other program writes and removes
          MaxOthers,    \* bound on the spots it touches
          BatchSize,    \* keys in one delete_objects call: 1000
          None

Disk == "disk"
\* A spot is a key of a bucket or a file of the disk.
Spot(at, name) == [at |-> at, name |-> name]

ASSUME TransferAssumption ==
  /\ Disk \notin Buckets /\ None \notin {"done", "failed", "cancelled"}
  /\ BatchSize \in Nat \ {0}
  /\ MaxOthers \in Nat
  /\ \A s \in Stores : IsFiniteSet(DOMAIN s)
  /\ \A c \in Commands :
       /\ c.verb \in {"cp", "mv", "rm"}
       /\ c.verb = "rm" => c.src.at \in Buckets
       /\ c.verb # "rm" => {c.src.at, c.dst.at} \cap Buckets # {}  \* else an error

VARIABLES store,      \* spot -> content
          command,    \* the command under way, or the last one
          stage,      \* "idle", "match", "copy", "delete" or "over"
          keys,       \* what the command matched: a list, whose order is Precedes
          todo,       \* what is left of it to copy, or to delete
          attempt,    \* 1, or 2 after the connection was lost
          cancelled,  \* the request was cancelled; its thread may go on
          outcome,    \* None, "done", "failed" or "cancelled"
          start,      \* history: the store when the command came
          others,     \* history: the spots the other program touched
          refused     \* history: the keys the store refused to delete

vars == <<store, command, stage, keys, todo, attempt, cancelled, outcome,
          start, others, refused>>

-----------------------------------------------------------------------------
(* Names.                                                                  *)

EndsInSlash(k) == k # <<>> /\ Last(k) = "/"
Solid(k) == {i \in DOMAIN k : k[i] # "/"}
LStrip(k) == IF Solid(k) = {} THEN <<>> ELSE SubSeq(k, Min(Solid(k)), Len(k))
RStrip(k) == SubSeq(k, 1, Max(Solid(k) \cup {0}))
BaseName(k) == SubSeq(k, Max({0} \cup {i \in DOMAIN k : k[i] = "/"}) + 1, Len(k))

\* A path's segments (pathlib drops empty ones), and a path with its slashes.
Segments(k) ==
  LET parts == FoldLeft(LAMBDA acc, t :
                          IF t = "/" THEN Append(acc, <<>>)
                          ELSE Front(acc) \o <<Append(Last(acc), t)>>, <<(<<>>)>>, k)
  IN  SelectSeq(parts, LAMBDA s : s # <<>>)
Posix(path) ==
  FoldLeft(LAMBDA acc, s : IF acc = <<>> THEN s ELSE acc \o <<"/">> \o s, <<>>, path)

\* Keys are sorted as strings, paths as the lists of their segments.
Before(a, b, less(_, _)) ==
  \/ IsStrictPrefix(a, b)
  \/ \E i \in DOMAIN a \cap DOMAIN b :
       SubSeq(a, 1, i - 1) = SubSeq(b, 1, i - 1) /\ less(a[i], b[i])
StringBefore(a, b) == Before(a, b, LAMBDA s, t : Rank[s] < Rank[t])
Precedes(x, y) == IF x.at = Disk THEN Before(x.name, y.name, StringBefore)
                  ELSE StringBefore(x.name, y.name)
Ahead(x, S) == {y \in S : Precedes(y, x)}
Foremost(S) == {x \in S : Ahead(x, S) = {}}
Name(spot) == IF spot.at = Disk THEN Posix(spot.name) ELSE spot.name

\* Globs are "*" followed by one piece.
fnmatch(k, pattern) == pattern = None \/ (k # <<>> /\ Last(k) = pattern)

IsFile(s, path) == Spot(Disk, path) \in DOMAIN s
IsDir(s, path) == \E x \in DOMAIN s : x.at = Disk /\ IsStrictPrefix(path, x.name)
CanHold(s, path) ==     \* mkdir(parents) and the write succeed
  /\ ~IsDir(s, path)
  /\ \A n \in 1..(Len(path) - 1) : ~IsFile(s, SubSeq(path, 1, n))

-----------------------------------------------------------------------------
(* What a command takes, and where it goes.                                *)

\* What a command names.  Without --recursive a local file's name is not matched
\* with the pattern.
Names(c, spot) ==
  /\ spot.at = c.src.at
  /\ IF c.recursive
     THEN IF spot.at = Disk THEN IsStrictPrefix(c.src.name, spot.name)
          ELSE IsPrefix(c.src.name, spot.name)
     ELSE spot.name = c.src.name /\ spot.name # <<>>
  /\ (c.recursive \/ spot.at # Disk) => fnmatch(Name(spot), c.pattern)

\* Without --recursive a key is taken whether it exists or not.
_match_keys_sync(c, s) ==
  {x \in DOMAIN s \cup (IF c.recursive THEN {} ELSE {c.src}) : Names(c, x)}

MatchFails(c, s) ==     \* _upload_sync: the local source has to be there
  /\ c.src.at = Disk
  /\ IF c.recursive THEN ~IsDir(s, c.src.name) ELSE ~IsFile(s, c.src.name)

_join_relative(src, dst, key, recursive) ==
  LET rel == LStrip(SubSeq(key, Len(src) + 1, Len(key)))
  IN  CASE recursive /\ rel # <<>> -> RStrip(dst) \o <<"/">> \o rel
        [] recursive /\ rel = <<>> -> dst
        [] ~recursive -> IF dst = <<>> \/ EndsInSlash(dst) THEN dst \o BaseName(key)
                         ELSE dst

_join_relative_local(s, src, dst, key, recursive) ==
  LET rel == LStrip(SubSeq(key, Len(src) + 1, Len(key)))
  IN  IF recursive
      THEN dst \o Segments(IF rel # <<>> THEN rel ELSE BaseName(key))
      ELSE IF IsDir(s, dst) THEN dst \o Segments(BaseName(key)) ELSE dst

UploadKey(src, dst, path, recursive) ==
  LET rel == Posix(SubSeq(path, Len(src) + 1, Len(path)))
  IN  CASE recursive -> IF dst = <<>> THEN rel ELSE RStrip(dst) \o <<"/">> \o rel
        [] ~recursive -> IF dst = <<>> \/ EndsInSlash(dst) THEN dst \o Last(path) ELSE dst

Target(c, s, x) ==
  Spot(c.dst.at,
       IF x.at = Disk THEN UploadKey(c.src.name, c.dst.name, x.name, c.recursive)
       ELSE IF c.dst.at = Disk
       THEN _join_relative_local(s, c.src.name, c.dst.name, x.name, c.recursive)
       ELSE _join_relative(c.src.name, c.dst.name, x.name, c.recursive))

\* copy_object, download_file or upload_file: S3 copies no object onto itself,
\* and has no object with an empty key.
CanCopy(s, from, to) ==
  /\ from \in DOMAIN s
  /\ from # to /\ to.name # <<>>
  /\ to.at = Disk => CanHold(s, to.name)
Put(s, spot, content) ==
  [x \in DOMAIN s \cup {spot} |-> IF x = spot THEN content ELSE s[x]]
Copied(s, from, to) == Put(s, to, s[from])
Without(s, spots) == [x \in DOMAIN s \ spots |-> s[x]]

-----------------------------------------------------------------------------
(* The steps of a command.                                                 *)

Init ==
  /\ store \in Stores /\ start = store
  /\ command = None /\ stage = "idle"
  /\ keys = {} /\ todo = {} /\ attempt = 1
  /\ cancelled = FALSE /\ outcome = None
  /\ others = {} /\ refused = {}

\* execute: the command is parsed, and its first call is about to be made.
execute(c) ==
  /\ stage = "idle"
  /\ command' = c /\ stage' = "match" /\ start' = store
  /\ UNCHANGED <<store, keys, todo, attempt, cancelled, outcome, others, refused>>

\* The command ends.  The answer to a cancelled request was sent before.
End(how) ==
  /\ stage' = "over"
  /\ outcome' = IF cancelled THEN "cancelled" ELSE how
  /\ UNCHANGED <<command, attempt, cancelled, start, others>>

Match ==
  /\ stage = "match" /\ ~MatchFails(command, store)
  /\ LET found == _match_keys_sync(command, store) IN
       /\ keys' = found /\ todo' = found
       /\ UNCHANGED <<store, refused>>
       /\ IF command.verb = "rm" /\ (found = {} \/ cancelled) THEN End("done")
          ELSE /\ stage' = IF command.verb = "rm" THEN "delete" ELSE "copy"
               /\ UNCHANGED <<command, attempt, cancelled, outcome, start, others>>

Copying == stage = "copy" /\ todo # {}
Aim(x) == Target(command, store, x)
MayCopy(x) == stage = "copy" /\ x \in Foremost(todo) /\ CanCopy(store, x, Aim(x))

Copy(x) ==
  /\ MayCopy(x)
  /\ store' = Copied(store, x, Aim(x))
  /\ todo' = todo \ {x}
  /\ UNCHANGED <<command, stage, keys, attempt, cancelled, outcome, start, others,
                 refused>>

\* The thread has copied everything; mv deletes, unless it was cancelled.
CopyEnds ==
  /\ stage = "copy" /\ todo = {}
  /\ IF command.verb = "cp" \/ cancelled
     THEN End("done") /\ UNCHANGED <<store, keys, todo, refused>>
     ELSE /\ stage' = "delete" /\ todo' = keys
          /\ UNCHANGED <<store, command, keys, attempt, cancelled, outcome, start,
                         others, refused>>

BatchButOne ==      \* faulty variant: off by one
  {x \in todo : Cardinality(Ahead(x, todo)) < BatchSize - 1}
Batch == {x \in todo : Cardinality(Ahead(x, todo)) < BatchSize}
Rest == {x \in todo : Cardinality(Ahead(x, todo)) >= BatchSize}
Deleting == stage = "delete" /\ todo # {} /\ command.src.at # Disk

\* delete_objects answers with the keys it refused; the driver does not look.
_delete_keys_sync ==
  /\ Deleting
  /\ \E kept \in {{}} \cup {{x} : x \in Batch} :
       /\ store' = Without(store, Batch \ kept)
       /\ refused' = refused \cup kept
  /\ todo' = Rest
  /\ UNCHANGED <<command, stage, keys, attempt, cancelled, outcome, start, others>>

\* p.unlink(), in the event loop: it can be neither cancelled nor retried.
Unlink(x) ==
  /\ stage = "delete" /\ x \in Foremost(todo) /\ command.src.at = Disk
  /\ IF x \in DOMAIN store
     THEN /\ store' = Without(store, {x}) /\ todo' = todo \ {x}
          /\ UNCHANGED <<command, stage, keys, attempt, cancelled, outcome, start,
                         others, refused>>
     ELSE End("failed") /\ UNCHANGED <<store, keys, todo, refused>>

DeleteEnds ==
  /\ stage = "delete" /\ todo = {}
  /\ End("done") /\ UNCHANGED <<store, keys, todo, refused>>

-----------------------------------------------------------------------------
(* What may go wrong.                                                      *)

Calling == stage = "match" \/ Copying \/ Deleting

SkipRefused ==      \* faulty variant: a copy that is refused is passed over
  /\ Copying /\ \E x \in Foremost(todo) : todo' = todo \ {x}
  /\ UNCHANGED <<store, command, stage, keys, attempt, cancelled, outcome, start,
                 others, refused>>

\* A call is refused, or cannot succeed: the command ends there.
Refuse ==
  /\ Calling
  /\ End("failed") /\ UNCHANGED <<store, keys, todo, refused>>

\* EndpointConnectionError, before the call reached the store or, where boto had
\* to repeat a call whose answer was lost, after.  A download writes all or nothing.
\* The dispatcher reconnects and runs the command again, once.
Lose ==
  /\ Calling /\ ~(stage = "match" /\ command.src.at = Disk)
  /\ \/ store' = store
     \/ \E x \in todo : /\ MayCopy(x) /\ Aim(x).at # Disk
                       /\ store' = Copied(store, x, Aim(x))
     \/ Deleting /\ store' = Without(store, Batch)
  /\ UNCHANGED refused
  /\ IF attempt = 2 \/ cancelled THEN End("failed") /\ UNCHANGED <<keys, todo>>
     ELSE /\ attempt' = 2 /\ stage' = "match" /\ keys' = {} /\ todo' = {}
          /\ UNCHANGED <<command, cancelled, outcome, start, others>>

\* The request is cancelled while a thread runs for it.
Cancel ==
  /\ Calling /\ ~cancelled
  /\ cancelled' = TRUE /\ outcome' = "cancelled"
  /\ UNCHANGED <<store, command, stage, keys, todo, attempt, start, others, refused>>

\* The server process dies.
Crash ==
  /\ stage \in {"match", "copy", "delete"}
  /\ stage' = "over"
  /\ UNCHANGED <<store, command, keys, todo, attempt, cancelled, outcome, start, others,
                 refused>>

OtherProgram(x) ==
  /\ stage \in {"match", "copy", "delete"} /\ Cardinality(others) < MaxOthers
  /\ \/ store' = Put(store, x, "theirs") /\ (x.at = Disk => CanHold(store, x.name))
     \/ x \in DOMAIN store /\ store' = Without(store, {x})
  /\ others' = others \cup {x}
  /\ UNCHANGED <<command, stage, keys, todo, attempt, cancelled, outcome, start,
                 refused>>

Next ==
  \/ \E c \in Commands : execute(c)
  \/ Match \/ CopyEnds \/ _delete_keys_sync \/ DeleteEnds
  \/ \E x \in todo : Copy(x) \/ Unlink(x)
  \/ Refuse \/ Lose \/ Cancel \/ Crash
  \/ \E x \in OtherSpots : OtherProgram(x)

Spec == Init /\ [][Next]_vars

-----------------------------------------------------------------------------
(* Properties.                                                             *)

\* What the command found to take when it came, and what came later.
Sources == {x \in DOMAIN start : Names(command, x)}
Comers == {x \in others : Names(command, x)}
To(x) == IF command.verb = "rm" THEN x ELSE Target(command, start, x)

\* A download that names one key asks whether its target is a directory: the other
\* program did not make one of it, nor empty it.
SameDirectory ==
  LET Below(S) == {x \in S : x.at = Disk /\ IsStrictPrefix(command.dst.name, x.name)}
  IN  command.dst.at = Disk /\ ~command.recursive =>
        Below(others) = {} \/ Below(DOMAIN start \ others) # {}

\* No two sources go to one place, and nothing goes where the command takes
\* from.  Nothing in the code sees to that: a prefix that ends within a segment,
\* or doubled slashes, send two keys to one.
Separate ==
  /\ \A x \in Sources : \A y \in Sources \ {x} : To(y) # To(x)
  /\ \A x \in Sources \cup Comers : ~Names(command, To(x))
  /\ SameDirectory

\* The other program touched neither end of x's way, nor sent it company.
Undisturbed(x) ==
  /\ others \cap {x, To(x)} = {}
  /\ \A o \in Comers : To(o) # To(x)

\* mv keeps every content it takes, at its source or at its target, whatever call
\* fails, is lost and repeated, or is cancelled, and wherever the server dies: a
\* source is deleted only after everything was copied, by the same attempt.
MoveLosesNothing ==
  (stage # "idle" /\ command.verb = "mv" /\ Separate) =>
    \A x \in Sources : Undisturbed(x) =>
      \E y \in {x, To(x)} : y \in DOMAIN store /\ store[y] = start[x]

\* A command that answers with success has done, also when a second attempt
\* finished what a first began, all it says and nothing else: targets hold what
\* the sources held, the sources of mv and rm are gone unless the store refused,
\* those of cp are there, and no other spot changed.
DoneIsComplete ==
  (outcome = "done" /\ (command.verb # "rm" => Separate)) =>
    /\ \A x \in Sources : Undisturbed(x) =>
         /\ command.verb # "rm" => To(x) \in DOMAIN store /\ store[To(x)] = start[x]
         /\ IF command.verb = "cp" THEN x \in DOMAIN store /\ store[x] = start[x]
            ELSE x \in DOMAIN store => x \in refused
    /\ \A z \in (DOMAIN start \cup DOMAIN store) \ (Sources \cup others) :
         \/ \E x \in Sources \cup others :
              x.at = command.src.at /\ z = To(x)
         \/ z \in DOMAIN store /\ z \in DOMAIN start /\ store[z] = start[z]
=============================================================================
