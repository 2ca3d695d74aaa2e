----------------------------- MODULE FuseBridge -----------------------------
(***************************************************************************)
(* The FUSE bridge (src/dokan_fuse): the library's callbacks turned into   *)
(* calls of a user's fuse_operations (ops_, external).                     *)
(*                                                                         *)
(* A file that is open has an impl_file_handle, whose address is the       *)
(* Context of the file object; the handles of one name share an            *)
(* impl_file_lock, which a map keeps under that name.  Threads of the      *)
(* library run the callbacks.  A file object opens one handle in its life  *)
(* and allocates at most one lock, so both are named after it; the memory  *)
(* of a deleted one is not used again here.                                *)
(***************************************************************************)
EXTENDS Integers, FiniteSets, FiniteSetsExt

CONSTANTS File, Thread, Name, None,
          Layouts, Target, \* what may exist at first: "file", "dir", "link" or None,
                           \* by name; where a link leads
          Ops,             \* the fuse_operations the user implements
          Events,          \* the callbacks that happen
          Options,         \* the arguments of a create
          Ranges, Spans    \* the byte ranges, <<start, length>>, locked and transferred

VARIABLES
  fs,          \* the user's file system: name -> inode (external)
  file_locks,  \* impl_file_locks: name -> lock
  lock,        \* the impl_file_lock objects
  handle,      \* the impl_file_handle objects
  object,      \* the file objects: what the driver and the library keep
  owed,        \* the calls of ops_.release a handle is due, after its ops_.open
  pc, on, op, arg, Context, fname, res, \* the threads
  crossed,     \* history: a rename ran beside a create or another rename, or
               \* its new name was still in the map of locks
  overtaken    \* history: the file objects whose deleting cleanup ran beside
               \* another of their requests

fileVars == <<fs, file_locks, lock, handle, owed>>
history == <<crossed, overtaken>>
vars == <<fileVars, object, pc, on, op, arg, Context, fname, res, history>>

NoLock == [alive |-> FALSE, name_ |-> None, first |-> {}]
NoHandle == [alive |-> FALSE, is_dir |-> FALSE, file_lock |-> None, shared_mode |-> {},
             locks |-> {}, inode |-> None]
NoObject(phase) == [phase |-> phase, name |-> None, IsDirectory |-> FALSE,
                    UserContext |-> None, DeletePending |-> FALSE]

Init ==
  /\ \E k \in Layouts :
       fs = [n \in Name |-> IF k[n] = None THEN None ELSE [kind |-> k[n], id |-> n]]
  /\ file_locks = [n \in Name |-> None]
  /\ lock = [f \in File |-> NoLock]
  /\ handle = [f \in File |-> NoHandle]
  /\ object = [f \in File |-> NoObject("new")]
  /\ owed = [f \in File |-> 0]
  /\ pc = [t \in Thread |-> "idle"]
  /\ on = [t \in Thread |-> None]
  /\ op = [t \in Thread |-> None]
  /\ arg = [t \in Thread |-> None]
  /\ Context = [t \in Thread |-> None]
  /\ fname = [t \in Thread |-> None]
  /\ res = [t \in Thread |-> None]
  /\ crossed = FALSE
  /\ overtaken = {}

Others(t, f) == {u \in Thread \ {t} : on[u] = f}
Goto(t, l) == pc' = [pc EXCEPT ![t] = l]
Return(t, r) == Goto(t, "done") /\ res' = [res EXCEPT ![t] = r]
ThreadRest(t) == UNCHANGED <<object, on, op, arg, history>>

getattr(n) == fs[n] # None
Is(n, kind) == getattr(n) /\ fs[n].kind = kind

\* One level of links.
resolve_symlink(n) == IF Is(n, "link") THEN Target[fs[n].id] ELSE n

\* No name: the name does not exist, or is a link and there is no readlink.
check_and_resolve(n) ==
  IF getattr(n) /\ (Is(n, "link") => "readlink" \in Ops) THEN resolve_symlink(n) ELSE None
-----------------------------------------------------------------------------
(***************************************************************************)
(* The file locks.  Everything here runs under the map's critical section, *)
(* or the lock's, or both.                                                 *)
(***************************************************************************)
required_share(access) ==
  (IF access \cap {"execute", "read"} # {} THEN {"read"} ELSE {}) \cup
  (IF access \cap {"write", "append"} # {} THEN {"write"} ELSE {}) \cup
  (access \cap {"delete"})

NewHandle(l, dir, share) ==
  [NoHandle EXCEPT !.alive = TRUE, !.is_dir = dir, !.file_lock = l, !.shared_mode = share]

\* impl_file_locks::get_file; the handle is f's.
Shared(f, n, access) ==
  \A g \in lock[file_locks[n]].first \ {f} : required_share(access) \subseteq handle[g].shared_mode

get_file(f, n, dir, access, share) ==
  IF file_locks[n] = None
  THEN /\ lock' = [lock EXCEPT ![f] = [alive |-> TRUE, name_ |-> n, first |-> {f}]]
       /\ file_locks' = [file_locks EXCEPT ![n] = f]
       /\ handle' = [handle EXCEPT ![f] = NewHandle(f, dir, share)]
  ELSE /\ Shared(f, n, access)
       /\ lock' = [lock EXCEPT ![file_locks[n]].first = @ \cup {f}]
       /\ handle' = [handle EXCEPT ![f] = NewHandle(file_locks[n], dir, share)]
       /\ UNCHANGED file_locks

\* -EACCES: the new handle is deleted again, still under the locks.
Denied(f, n, access) == file_locks[n] # None /\ ~Shared(f, n, access)

\* Altered form: Context keeps the handle that was deleted.
RemovedKeepsContext(t) ==
  /\ Goto(t, IF op[t] = "cleanup" THEN "delete" ELSE "done")
  /\ UNCHANGED Context

\* The handle is gone: what comes next in create_file, close_file or cleanup.
Removed(t) ==
  /\ Goto(t, IF op[t] = "cleanup" THEN "delete" ELSE "done")
  /\ Context' = [Context EXCEPT ![t] = None]

\* impl_file_lock::remove_file, from the handle's destructor: the list ...
RemoveHandle(t) ==
  LET h == on[t]
      l == handle[h].file_lock
      first == lock[l].first \ {h}
  IN /\ pc[t] = "remove"
     /\ lock' = [lock EXCEPT ![l].first = first]
     /\ handle' = [handle EXCEPT ![h] = [NoHandle EXCEPT !.file_lock = IF first = {} THEN l ELSE None]]
     /\ IF first # {} THEN Removed(t) ELSE Goto(t, "unmap") /\ UNCHANGED Context
     /\ UNCHANGED <<fs, file_locks, owed, fname, res>>
     /\ ThreadRest(t)

\* Altered form: whether the lock is in use is not looked at again.
RemoveNameBlindly(n) ==
  IF n # None /\ file_locks[n] # None
  THEN /\ lock' = [lock EXCEPT ![file_locks[n]] = NoLock]
       /\ file_locks' = [file_locks EXCEPT ![n] = None]
  ELSE UNCHANGED <<lock, file_locks>>

\* impl_file_locks::remove_file
RemoveName(n) ==
  IF n # None /\ file_locks[n] # None /\ lock[file_locks[n]].first = {}
  THEN /\ lock' = [lock EXCEPT ![file_locks[n]] = NoLock]
       /\ file_locks' = [file_locks EXCEPT ![n] = None]
  ELSE UNCHANGED <<lock, file_locks>>

\* ... and then the map.  name_ is read from a lock that another thread may
\* have deleted in between: it may hold anything.
RemoveLock(t) ==
  LET l == handle[on[t]].file_lock
  IN /\ pc[t] = "unmap"
     /\ \E n \in IF lock[l].alive THEN {lock[l].name_} ELSE Name \cup {None} : RemoveName(n)
     /\ handle' = [handle EXCEPT ![on[t]] = NoHandle]
     /\ Removed(t)
     /\ UNCHANGED <<fs, owed, fname, res>>
     /\ ThreadRest(t)

\* Altered form: name_ keeps the old name.
RenamedFileKeepsName(n, m) ==
  IF n # m /\ file_locks[n] # None
  THEN /\ file_locks' = [file_locks EXCEPT ![m] = file_locks[n], ![n] = None]
       /\ UNCHANGED lock
  ELSE UNCHANGED <<lock, file_locks>>

\* impl_file_locks::renamed_file; an entry of the new name is overwritten.
RenamedFile(n, m) ==
  IF n # m /\ file_locks[n] # None
  THEN /\ lock' = [lock EXCEPT ![file_locks[n]].name_ = m]
       /\ file_locks' = [file_locks EXCEPT ![m] = file_locks[n], ![n] = None]
  ELSE UNCHANGED <<lock, file_locks>>

\* Do the ranges R of a handle, a map of lengths by start, forbid this one?
\* Only the neighbours of lower_bound(start) are looked at.
Blocked(R, start, len) ==
  LET above == {r \in R : r[1] >= start}
      below == {r \in R : r[1] < start}
      last == CHOOSE r \in below : \A q \in below : q[1] <= r[1]
  IN \/ above # {} /\ len > Min({r[1] : r \in above}) - start
     \/ below # {} /\ last[2] > start - last[1]

\* Altered form: the test that skips the handle's own ranges is inverted.
LockRefusedByOwn(h, range, mark) ==
  \/ range[2] = 0
  \/ mark /\ Blocked(handle[h].locks, range[1], range[2])

\* impl_file_lock::lock_file; a check skips the handle's own ranges.
LockRefused(h, range, mark) ==
  \/ range[2] = 0
  \/ \E g \in lock[handle[h].file_lock].first :
       /\ mark \/ g # h
       /\ Blocked(handle[g].locks, range[1], range[2])

\* impl_file_lock::unlock_file: the range, exactly.
Unlocked(h, range) == range[2] = 0 \/ range \in handle[h].locks
-----------------------------------------------------------------------------
(***************************************************************************)
(* A create.  ops_ may refuse an open, a create or an unlink for reasons   *)
(* of its own.                                                             *)
(***************************************************************************)
Answer(t, r) == Return(t, r) /\ UNCHANGED <<fileVars, Context, fname>>
Call(t, l, n) == Goto(t, l) /\ fname' = [fname EXCEPT ![t] = n] /\ UNCHANGED <<fileVars, Context, res>>

\* create_directory opens nothing: Context stays 0.
create_directory(t, n) ==
  IF "mkdir" \notin Ops THEN Answer(t, "EINVAL")
  ELSE IF getattr(n) THEN Answer(t, "COLLISION")
  ELSE /\ fs' = [fs EXCEPT ![n] = [kind |-> "dir", id |-> on[t]]]
       /\ Return(t, "OK")
       /\ UNCHANGED <<file_locks, lock, handle, owed, Context, fname>>

open_directory(t, n) ==
  IF "opendir" \in Ops THEN Call(t, "open_dir", n)
  ELSE LET r == check_and_resolve(n)
       IN IF r = None THEN Answer(t, "ENOENT")
          ELSE IF ~getattr(r) THEN Answer(t, "ENOENT")
          ELSE Answer(t, IF Is(r, "dir") THEN "OK" ELSE "ENOTDIR")

create_file(t, n) ==
  LET r == check_and_resolve(n)
      disp == arg[t].disp
  IN \/ /\ ~getattr(n)
        /\ IF arg[t].dir THEN Answer(t, "EINVAL") ELSE Call(t, "create_file", n)
     \/ /\ getattr(n)
        /\ r = None \/ ~getattr(r)
        /\ Answer(t, "ENOENT")
     \/ /\ r # None
        /\ Is(r, "dir")
        /\ IF arg[t].nondir THEN Answer(t, "ENOENT") ELSE Call(t, "open_dir", n)
     \/ /\ r # None
        /\ getattr(r) /\ ~Is(r, "dir")
        /\ CASE disp = "OVERWRITE" /\ "unlink" \in Ops -> Call(t, "overwrite", r)
             [] disp \in {"SUPERSEDE", "OVERWRITE_IF"} /\ "truncate" \in Ops -> Call(t, "truncate", r)
             [] disp = "CREATE" -> Answer(t, "COLLISION")
             [] disp \in {"OPEN", "OPEN_IF"} -> Call(t, "open_file", n)
             [] OTHER -> Answer(t, "EINVAL")

FuseCreateFile(t) ==
  LET n == object[on[t]].name
  IN /\ pc[t] = "create"
     /\ CASE arg[t].dir /\ arg[t].disp \in {"CREATE", "OPEN_IF"} -> create_directory(t, n)
          [] arg[t].dir /\ arg[t].disp = "OPEN" -> open_directory(t, n)
          [] OTHER -> create_file(t, n)
     /\ ThreadRest(t)

\* FILE_OVERWRITE of an existing file: unlink, then do_create_file.
Overwrite(t) ==
  /\ pc[t] = "overwrite"
  /\ \/ /\ getattr(fname[t])
        /\ fs' = [fs EXCEPT ![fname[t]] = None]
        /\ Goto(t, "create_file")
        /\ fname' = [fname EXCEPT ![t] = object[on[t]].name]
        /\ UNCHANGED <<file_locks, lock, handle, owed, Context, res>>
     \/ Answer(t, "ENOENT")
  /\ ThreadRest(t)

\* FILE_SUPERSEDE and FILE_OVERWRITE_IF of an existing file: truncate, then
\* do_open_file.
Truncate(t) ==
  /\ pc[t] = "truncate"
  /\ \/ getattr(fname[t]) /\ Call(t, "open_file", object[on[t]].name)
     \/ Answer(t, "ENOENT")
  /\ ThreadRest(t)

\* get_file, or the -EACCES of its share check, in do_open_dir,
\* do_open_file and do_create_file.
Get(t, n, dir, access, share, l) ==
  \/ /\ Denied(on[t], n, access)
     /\ Answer(t, "EACCES")
  \/ /\ get_file(on[t], n, dir, access, share)
     /\ Goto(t, l)
     /\ fname' = [fname EXCEPT ![t] = n]
     /\ UNCHANGED <<fs, owed, Context, res>>

\* The call of ops_.open, opendir or create, with the handle in a unique_ptr:
\* released to Context, or deleted on an error.
Attach(t, inode, r) ==
  /\ handle' = [handle EXCEPT ![on[t]].inode = inode]
  /\ owed' = [owed EXCEPT ![on[t]] = @ + 1]
  /\ Context' = [Context EXCEPT ![t] = on[t]]
  /\ Return(t, r)
  /\ UNCHANGED <<file_locks, lock, fname>>
Detach(t, r) ==
  /\ Goto(t, "remove")
  /\ res' = [res EXCEPT ![t] = r]
  /\ UNCHANGED <<fileVars, Context, fname>>

do_open_dir(t) ==
  /\ \/ /\ pc[t] = "open_dir"
        /\ IF "opendir" \in Ops
           THEN Get(t, fname[t], TRUE, {}, {"read", "write", "delete"}, "ops_opendir")
           ELSE Answer(t, "OK")
     \/ /\ pc[t] = "ops_opendir"
        /\ \/ getattr(fname[t]) /\ Attach(t, fs[fname[t]], "OK") /\ UNCHANGED fs
           \/ Detach(t, "ENOENT")
  /\ ThreadRest(t)

\* create_file answers with a collision where FILE_OPEN_IF or FILE_OVERWRITE_IF
\* opened what existed.
do_open_file(t) ==
  /\ \/ /\ pc[t] = "open_file"
        /\ IF "open" \notin Ops \/ check_and_resolve(fname[t]) = None
           THEN Answer(t, "ENOENT")
           ELSE Get(t, check_and_resolve(fname[t]), FALSE, arg[t].access, arg[t].share, "ops_open")
     \/ /\ pc[t] = "ops_open"
        /\ \/ /\ getattr(fname[t])
              /\ Attach(t, fs[fname[t]], IF arg[t].disp \in {"OPEN_IF", "OVERWRITE_IF"}
                                        THEN "COLLISION" ELSE "OK")
              /\ UNCHANGED fs
           \/ Detach(t, "ENOENT")
  /\ ThreadRest(t)

\* ops_.mknod and do_open_file where there is no ops_.create.
do_create_file(t) ==
  LET n == fname[t]
      new == [kind |-> "file", id |-> on[t]]
  IN /\ \/ /\ pc[t] = "create_file"
           /\ IF arg[t].disp \notin {"CREATE", "SUPERSEDE", "OPEN_IF", "OVERWRITE_IF"}
              THEN Answer(t, "ENOENT")
              ELSE IF "create" \in Ops
              THEN Get(t, n, FALSE, arg[t].access, arg[t].share, "ops_create")
              ELSE IF ~({"mknod", "open"} \subseteq Ops) THEN Answer(t, "EINVAL")
              ELSE IF getattr(n) THEN Answer(t, "COLLISION")
              ELSE /\ fs' = [fs EXCEPT ![n] = new]
                   /\ Goto(t, "open_file")
                   /\ UNCHANGED <<file_locks, lock, handle, owed, Context, fname, res>>
        \/ /\ pc[t] = "ops_create"
           /\ \/ ~getattr(n) /\ fs' = [fs EXCEPT ![n] = new] /\ Attach(t, new, "OK")
              \/ Detach(t, IF getattr(n) THEN "COLLISION" ELSE "EACCES")
     /\ ThreadRest(t)
-----------------------------------------------------------------------------
(***************************************************************************)
(* Cleanup and close.                                                      *)
(***************************************************************************)
\* impl_file_handle::close: flush and release, or releasedir.
Release(h) == owed' = [owed EXCEPT ![h] = @ - 1]

\* close_file: impl_file_handle::close and the destructor.
\* The library makes the call when no other request of the file object runs.
close_file(t) ==
  /\ pc[t] = "close"
  /\ op[t] = "close" => Others(t, on[t]) = {}
  /\ IF Context[t] = None
     THEN Removed(t) /\ UNCHANGED <<owed, res>>
     ELSE /\ Release(on[t])
          /\ IF handle[on[t]].alive
             THEN Goto(t, "remove") /\ UNCHANGED <<Context, res>>
             ELSE Return(t, "FREED") /\ Context' = [Context EXCEPT ![t] = None]
  /\ UNCHANGED <<fs, file_locks, lock, handle, fname>>
  /\ ThreadRest(t)

cleanup(t) ==
  LET o == object[on[t]]
  IN /\ pc[t] = "cleanup"
     /\ IF /\ Context[t] # None \/ (o.IsDirectory /\ "opendir" \notin Ops)
           /\ o.DeletePending
        THEN Goto(t, "close") /\ UNCHANGED res
        ELSE Return(t, "OK")
     /\ UNCHANGED <<fileVars, Context, fname>>
     /\ ThreadRest(t)

\* do_delete_directory (a link is unlinked, the rest is rmdir's) and
\* do_delete_file; neither follows a link.
Delete(t) ==
  LET n == object[on[t]].name
      call == IF object[on[t]].IsDirectory /\ ~(Is(n, "link") /\ "unlink" \in Ops)
              THEN "rmdir" ELSE "unlink"
  IN /\ pc[t] = "delete"
     /\ fs' = IF /\ call \in Ops
                 /\ object[on[t]].IsDirectory
                      => {"rmdir", "getattr"} \subseteq Ops /\ Context[t] = None
                 /\ Is(n, "dir") => call = "rmdir"
              THEN [fs EXCEPT ![n] = None] ELSE fs
     /\ Return(t, "OK")
     /\ UNCHANGED <<file_locks, lock, handle, owed, Context, fname>>
     /\ ThreadRest(t)
-----------------------------------------------------------------------------
(***************************************************************************)
(* The requests of an open file.  What a handle that was deleted holds is  *)
(* anything: FREED.                                                        *)
(***************************************************************************)
get_name(h) == lock[handle[h].file_lock].name_

\* The checks that open read_file, write_file, lock_file and unlock_file.
OfFile(t, result) ==
  LET h == Context[t]
  IN IF h = None THEN "EINVAL"
     ELSE IF ~handle[h].alive THEN "FREED"
     ELSE IF handle[h].is_dir THEN "EACCES"
     ELSE result

\* read_file and write_file up to check_lock, which leaves the critical section
\* of the lock ...
CheckTransfer(t, call) ==
  LET r == IF call \notin Ops THEN "EINVAL"
           ELSE OfFile(t, IF LockRefused(Context[t], arg[t], FALSE) THEN "EACCES" ELSE "OK")
  IN IF r = "OK" THEN Goto(t, "checked") /\ UNCHANGED res ELSE Return(t, r)
read_file(t) == CheckTransfer(t, "read")
write_file(t) == CheckTransfer(t, "write")

\* ... and the data moves between the file get_name() and the buffer.
Transfer(t) == Return(t, IF handle[Context[t]].alive THEN "OK" ELSE "FREED")

flush_file_buffers(t) ==
  LET h == Context[t]
  IN IF h = None THEN "EINVAL"
     ELSE IF ~handle[h].alive THEN "FREED"
     ELSE IF (IF handle[h].is_dir THEN "fsyncdir" ELSE "fsync") \in Ops THEN "OK" ELSE "EINVAL"

set_end_of_file(t) ==
  LET h == Context[t]
      r == check_and_resolve(object[on[t]].name)
  IN IF r = None THEN "ENOENT"
     ELSE IF h # None /\ "ftruncate" \in Ops
     THEN IF ~handle[h].alive THEN "FREED"
          ELSE IF getattr(get_name(h)) THEN "OK" ELSE "ENOENT"
     ELSE IF "truncate" \notin Ops THEN "EINVAL"
     ELSE IF getattr(r) THEN "OK" ELSE "ENOENT"

get_file_information(t) ==
  LET r == check_and_resolve(object[on[t]].name)
  IN IF r = None THEN "ENOENT" ELSE IF getattr(r) THEN "OK" ELSE "ENOENT"

find_files(t) ==
  LET h == Context[t]
      r == check_and_resolve(object[on[t]].name)
  IN IF r = None THEN "ENOENT"
     ELSE IF {"readdir", "getdir"} \cap Ops = {} THEN "EINVAL"
     ELSE IF "readdir" \in Ops /\ h # None /\ ~handle[h].alive THEN "FREED"
     ELSE IF Is(r, "dir") THEN "OK" ELSE "ENOTDIR"

delete_file(t) == IF getattr(object[on[t]].name) THEN "OK" ELSE "ENOENT"

\* -ENOTEMPTY is the user's file system's to say.
delete_directory(t) ==
  IF "rmdir" \notin Ops \/ {"readdir", "getdir"} \cap Ops = {} THEN "EINVAL"
  ELSE IF getattr(object[on[t]].name) THEN "OK" ELSE "ENOENT"

\* The callbacks that change nothing that is kept here.
other_callbacks(t) ==
  {flush_file_buffers(t), set_end_of_file(t), get_file_information(t), find_files(t)}

Request(t) ==
  /\ \/ pc[t] = "transfer" /\ (read_file(t) \/ write_file(t))
     \/ pc[t] = "checked" /\ Transfer(t)
     \/ pc[t] = "other" /\ \E r \in other_callbacks(t) : Return(t, r)
     \/ /\ pc[t] = "dispose"
        /\ Return(t, IF object[on[t]].IsDirectory THEN delete_directory(t) ELSE delete_file(t))
  /\ UNCHANGED <<fileVars, Context, fname>>
  /\ ThreadRest(t)

\* lock_file of the context: ops_.lock, or the ranges kept here.
lock_file(t) ==
  LET ok == "lock" \in Ops \/ ~LockRefused(Context[t], arg[t], TRUE)
      r == OfFile(t, IF ok THEN "OK" ELSE "EACCES")
  IN /\ pc[t] = "lock"
     /\ Return(t, r)
     /\ handle' = IF r = "OK" /\ "lock" \notin Ops
                  THEN [handle EXCEPT ![Context[t]].locks = @ \cup {arg[t]}] ELSE handle
     /\ UNCHANGED <<fs, file_locks, lock, owed, Context, fname>>
     /\ ThreadRest(t)

unlock_file(t) ==
  LET ok == "lock" \in Ops \/ Unlocked(Context[t], arg[t])
      r == OfFile(t, IF ok THEN "OK" ELSE "EACCES")
  IN /\ pc[t] = "unlock"
     /\ Return(t, r)
     /\ handle' = IF r = "OK"
                  THEN [handle EXCEPT ![Context[t]].locks = @ \ {arg[t]}] ELSE handle
     /\ UNCHANGED <<fs, file_locks, lock, owed, Context, fname>>
     /\ ThreadRest(t)

\* move_file: the target goes, the file moves, and then the map of locks.
MoveTarget(t) ==
  LET m == arg[t].new_name
  IN /\ pc[t] = "move"
     /\ IF "rename" \notin Ops THEN Answer(t, "EINVAL")
        ELSE IF ~getattr(m) THEN Call(t, "rename", m)
        ELSE IF ~arg[t].replace_existing THEN Answer(t, "EEXIST")
        ELSE IF Is(m, "dir") THEN Answer(t, "EISDIR")
        ELSE IF "unlink" \notin Ops THEN Answer(t, "EINVAL")
        ELSE /\ fs' = [fs EXCEPT ![m] = None]
             /\ Goto(t, "rename")
             /\ fname' = [fname EXCEPT ![t] = m]
             /\ UNCHANGED <<file_locks, lock, handle, owed, Context, res>>
     /\ ThreadRest(t)

MoveRename(t) ==
  LET n == object[on[t]].name
      m == fname[t]
  IN /\ pc[t] = "rename"
     /\ IF getattr(m) THEN Answer(t, "EEXIST")
        ELSE IF ~getattr(n) THEN Answer(t, "ENOENT")
        ELSE /\ fs' = [fs EXCEPT ![m] = fs[n], ![n] = None]
             /\ Goto(t, "renamed")
             /\ UNCHANGED <<file_locks, lock, handle, owed, Context, fname, res>>
     /\ ThreadRest(t)

MoveLocks(t) ==
  /\ pc[t] = "renamed"
  /\ RenamedFile(object[on[t]].name, fname[t])
  /\ Return(t, "OK")
  /\ UNCHANGED <<fs, handle, owed, Context, fname>>
  /\ ThreadRest(t)
-----------------------------------------------------------------------------
(***************************************************************************)
(* The driver and the library.                                             *)
(***************************************************************************)
\* What may be asked of file object f, given what it has been through, and
\* with which arguments.
Asked(f, o) ==
  /\ o \in Events
  /\ CASE o = "create" -> object[f].phase = "new"
       [] o = "close" -> object[f].phase = "cleaned"
       [] OTHER -> object[f].phase = "open"
Arguments(o) ==
  CASE o = "create" -> Options
    [] o \in {"lock", "unlock"} -> Ranges
    [] o = "transfer" -> Spans
    [] o = "move" -> [new_name : Name, replace_existing : BOOLEAN]
    [] OTHER -> {None}

\* A request o with argument a, begun by thread t, runs beside a rename in a way
\* that the map of locks does not follow.
Crosses(t, o, a) ==
  LET running == {op[u] : u \in Thread \ {t}}
  IN \/ o \in {"create", "move"} /\ "move" \in running
     \/ o = "move" /\ ("create" \in running \/ file_locks[a.new_name] # None)

\* A request o of f, begun by t, and a cleanup that deletes f run side by side.
Overtakes(t, f, o) ==
  LET all == {o} \cup {op[u] : u \in Others(t, f)}
  IN /\ Others(t, f) # {} /\ "cleanup" \in all
     /\ object[f].DeletePending \/ "dispose" \in all

\* DispatchDriverLogs hands a request to a thread: Context is a copy.  Requests
\* of one file object run side by side, whatever they are, but a create is over
\* before the next, and a cleanup and a close happen once.
Begin(t, f, o, a, n) ==
  /\ pc[t] = "idle"
  /\ Asked(f, o)
  /\ \A u \in Others(t, f) :
       op[u] # "create" /\ (o = op[u] => o \notin {"create", "cleanup", "close"})
  /\ o # "create" => n = object[f].name
  /\ o = "move" => a.new_name # n
  /\ crossed' = (crossed \/ Crosses(t, o, a))
  /\ overtaken' = IF Overtakes(t, f, o) THEN overtaken \cup {f} ELSE overtaken
  /\ Goto(t, o)
  /\ on' = [on EXCEPT ![t] = f]
  /\ op' = [op EXCEPT ![t] = o]
  /\ arg' = [arg EXCEPT ![t] = a]
  /\ Context' = [Context EXCEPT ![t] = object[f].UserContext]
  /\ object' = [object EXCEPT ![f].name = n]
  /\ UNCHANGED <<fileVars, fname, res>>

\* The library takes a collision for success with these dispositions.
CreateSuccesStatusCheck(status, disposition) ==
  \/ status = "OK"
  \/ status = "COLLISION" /\ disposition \in {"OPEN_IF", "SUPERSEDE", "OVERWRITE_IF"}

\* The state of a file object after the answer to thread t's request.
Answered(t, f) ==
  LET ok == IF op[t] = "create" THEN CreateSuccesStatusCheck(res[t], arg[t].disp) ELSE res[t] = "OK"
      moved == op[t] = "move" /\ ok /\ object[f].name = object[on[t]].name
      o == [object[f] EXCEPT !.name = IF moved THEN arg[t].new_name ELSE @]
      mine == [o EXCEPT !.UserContext = Context[t]]
  IN CASE f # on[t] -> o
       [] f = on[t] /\ op[t] = "create" /\ ok ->
            [mine EXCEPT !.phase = "open", !.IsDirectory = arg[t].dir \/ handle[f].is_dir
                                                  \/ (Context[t] = None /\ res[t] = "OK")]
       [] f = on[t] /\ (op[t] = "close" \/ (op[t] = "create" /\ ~ok)) -> NoObject("closed")
       [] f = on[t] /\ op[t] = "cleanup" -> [mine EXCEPT !.phase = "cleaned"]
       [] f = on[t] /\ op[t] \notin {"create", "cleanup", "close"} ->
            [mine EXCEPT !.DeletePending = @ \/ (op[t] = "dispose" /\ ok)]

\* EventCompletion and ReleaseDokanOpenInfo: the copy of Context is written
\* back; the driver moves the names of a renamed file.
Finish(t) ==
  /\ pc[t] = "done"
  /\ object' = [f \in File |-> Answered(t, f)]
  /\ Goto(t, "idle")
  /\ on' = [on EXCEPT ![t] = None]
  /\ op' = [op EXCEPT ![t] = None]
  /\ arg' = [arg EXCEPT ![t] = None]
  /\ Context' = [Context EXCEPT ![t] = None]
  /\ fname' = [fname EXCEPT ![t] = None]
  /\ res' = [res EXCEPT ![t] = None]
  /\ UNCHANGED <<fileVars, history>>

Step(t) ==
  \/ FuseCreateFile(t) \/ Overwrite(t) \/ Truncate(t)
  \/ do_open_dir(t) \/ do_open_file(t) \/ do_create_file(t)
  \/ cleanup(t) \/ close_file(t) \/ RemoveHandle(t) \/ RemoveLock(t) \/ Delete(t)
  \/ Request(t) \/ lock_file(t) \/ unlock_file(t)
  \/ MoveTarget(t) \/ MoveRename(t) \/ MoveLocks(t)
  \/ Finish(t)

Next ==
  \E t \in Thread :
    \/ Step(t)
    \/ \E f \in File, o \in Events : \E a \in Arguments(o), n \in Name : Begin(t, f, o, a, n)

Spec == Init /\ [][Next]_vars
-----------------------------------------------------------------------------
AtRest == \A t \in Thread : pc[t] = "idle"

\* The handles, the locks and the map agree: an open handle is in the list of
\* a lock that exists and, unless a rename was crossed, that the map finds under
\* the lock's own name; the map leads to nothing that was deleted; and when no
\* callback runs no lock is left without a handle (get_file,
\* impl_file_lock::remove_file, impl_file_locks::remove_file, renamed_file).
LocksExact ==
  /\ \A f \in File : handle[f].alive =>
       LET l == handle[f].file_lock
       IN /\ lock[l].alive /\ f \in lock[l].first
          /\ ~crossed => file_locks[lock[l].name_] = l
  /\ \A n \in Name : file_locks[n] # None =>
       lock[file_locks[n]].alive /\ lock[file_locks[n]].name_ = n
  /\ AtRest /\ ~crossed => \A l \in File : lock[l].alive => lock[l].first # {}

\* read_file and write_file ignore the name they are given and use get_name():
\* as long as the file that was opened exists under some name, that is the
\* name get_name() gives, through every rename by whichever handle, and whatever
\* transfers, dispositions, cleanups and closes run beside it.  Renames that met
\* a create, another rename or a target still in the map are left out: there the map,
\* updated after ops_.rename, loses track.
NameIsCurrent ==
  \A f \in File :
    handle[f].alive /\ handle[f].inode \in {fs[n] : n \in Name} \ {None}
      /\ ~crossed /\ ~(\E t \in Thread : pc[t] = "renamed")
    => fs[get_name(f)] = handle[f].inode

\* impl_file_locks::renamed_file, "TODO what happen if new_name exists ??": the
\* same for every rename.
NameIsAlwaysCurrent ==
  \A f \in File :
    handle[f].alive /\ handle[f].inode \in {fs[n] : n \in Name} \ {None}
      /\ ~(\E t \in Thread : pc[t] = "renamed")
    => fs[get_name(f)] = handle[f].inode

Meet(p, q) == \E b \in p[1]..(p[1] + p[2] - 1) : b >= q[1] /\ b < q[1] + q[2]

\* "multiple locks are not allowed": a range locked through one handle of a file
\* is not locked through another handle of it, and no transfer through another
\* handle passes its check_lock, whatever names the two were opened by, unless a
\* rename was crossed.  Of the transfer itself nothing is said: between check_lock
\* and ops_.read or ops_.write the range may be locked.
LocksBind ==
  [][\A t \in Thread :
       /\ ~crossed
       /\ \/ pc[t] = "transfer" /\ pc'[t] = "checked"
          \/ pc[t] = "lock" /\ res'[t] = "OK"
       => \A g \in File \ {on[t]} :
            handle[g].alive /\ handle[g].inode = handle[on[t]].inode =>
              \A q \in handle[g].locks : ~Meet(arg[t], q)]_vars

\* fuse.h: "For every open() call there will be exactly one release() call":
\* by cleanup of a file that is deleted, or else by close; never none.  The one
\* exception is a deleting cleanup with another request of its file object beside
\* it, which writes the context that cleanup cleared back (dokan.c,
\* ReleaseDokanOpenInfo): the handle is then released a second time.
ReleasedOnce ==
  \A f \in File :
    /\ f \notin overtaken => owed[f] >= 0
    /\ object[f].phase = "closed" => owed[f] <= 0

\* The same without the exception.
ReleasedOnceAlways == \A f \in File : owed[f] >= 0

\* create_file, FILE_OVERWRITE: "Delete file" "And create it!": where every name
\* exists at first and no file is deleted or renamed, every name still does.
OverwriteRecreates == AtRest => \A n \in Name : getattr(n)

\* CreateSuccesStatusCheck: "In case OPEN_ALWAYS & CREATE_ALWAYS are
\* successfully opening an existing file, STATUS_OBJECT_NAME_COLLISION is
\* returned": a file whose create succeeded has a handle.
OpenHasHandle ==
  \A f \in File :
    object[f].phase = "open" /\ ~object[f].IsDirectory => object[f].UserContext # None

\* cleanup: "No context for directories when ops_.opendir is not set": with
\* opendir a directory has one, and a cleanup of it deletes what is to be deleted.
DeletedAtCleanup ==
  \A f \in File :
    object[f].phase = "cleaned" /\ object[f].DeletePending /\ AtRest
    => ~getattr(object[f].name)

\* impl_file_lock::remove_file reads name_ after it left the lock's critical
\* section: the lock still exists.
RemoverIsSafe == \A t \in Thread : pc[t] = "unmap" => lock[handle[on[t]].file_lock].alive
=============================================================================
