--------------------------------- MODULE Vfs ---------------------------------
(***************************************************************************)
(* The name cache of the VFS server (system/vfs/vfs.c): path walks,        *)
(* acquire and release of a ventry, trimming and mounting, run by the      *)
(* pop-up threads of the server.                                           *)
(*                                                                         *)
(* A walk holds the lock of the mount point it is in and takes one path    *)
(* segment a step (each may ask the file system); it hands over from one   *)
(* mount's lock to the next, takes the lock of the ventry it ends at and   *)
(* gives the mount's lock back.  The counts are raised after that, under   *)
(* the ventry's lock only.                                                 *)
(*                                                                         *)
(* A file system is a set of entries [m, dir, name, id, to]: the directory *)
(* dir of mount m has the name, for the node id, a symbolic link to the    *)
(* path to unless that is empty.  A path is a sequence of names.           *)
(***************************************************************************)
EXTENDS Integers, Sequences, FiniteSets

CONSTANTS
  Actors,      \* the pop-up threads
  Vents,       \* the ventries that salloc hands out, as numbers
  Entries,     \* what the file systems contain
  Refused,     \* the nodes <<m, id>> the file systems do not let be acquired
  Paths,       \* Paths[t]: the paths t acquires
  AfterMount,  \* the paths used once the second file system is mounted
  MountDir,    \* the directory a second file system is mounted on
  Mounter,     \* the thread that mounts it
  MaxLinks,    \* how many links a walk follows; 10 in walk_path
  MaxOpen,     \* MaxOpen[t]: how many ventries t may hold
  None         \* NULL

VARIABLES
  vpc,         \* vpc[t]: where t is
  vent,        \* vent[v]: the ventry, or None if it is not allocated
  mlock,       \* mlock[m]: holder of the mount's rwlock
  vlock,       \* vlock[v]: the threads that hold the ventry's rwlock
  entry,       \* entry[m]: the ventry mount m is on, or None
  walk,        \* walk[t]: the local variables of a walk
  fds          \* fds[t]: the ventries t has acquired, with their path

vfsVars == <<vpc, vent, mlock, vlock, entry, walk, fds>>

Mounts == {"M0", "M1"}
RootId == 0

Live == {v \in Vents : vent[v] # None}

Children(v) ==
  {c \in Live : vent[c].parent = v /\ ~vent[c].root}

\* The ventry the walk of a mount starts at.
RootOf(m) ==
  CHOOSE v \in Live : vent[v].root /\ vent[v].from = m /\ vent[v].parent # None

Fresh == CHOOSE v \in Vents \ Live : \A u \in Vents \ Live : v <= u

NewVent(parent, name, id, m, to, isRoot, ref) ==
  [parent |-> parent, name |-> name, id |-> id, from |-> m, to |-> to,
   root |-> isRoot, ref |-> ref, open |-> None]

\* open is None while there is no vnode, else vnode.open_count.
HasVnode(v) == vent[v].open # None

EntriesOf(m, dir, name) ==
  {e \in Entries : e.m = m /\ e.dir = dir /\ e.name = name}

MountOn(v) == {m \in Mounts : entry[m] = v}

\* init_vfs and the mount of the root file system: ventry 0 is vroot,
\* ventry 1 the root of mount M0 on it.
VfsInit ==
  /\ vpc = [t \in Actors |-> "idle"]
  /\ vent = [v \in Vents |->
               CASE v = 0 -> NewVent(None, "/", RootId, None, <<>>, TRUE, 1)
                 [] v = 1 -> NewVent(0, "/", RootId, "M0", <<>>, TRUE, 1)
                 [] OTHER -> None]
  /\ mlock = [m \in Mounts |-> None]
  /\ vlock = [v \in Vents |-> {}]
  /\ entry = [m \in Mounts |-> IF m = "M0" THEN 0 ELSE None]
  /\ walk = [t \in Actors |-> None]
  /\ fds = [t \in Actors |-> {}]

At(t, label) == vpc[t] = label
Go(t, label) == vpc' = [vpc EXCEPT ![t] = label]
SetWalk(t, w) == walk' = [walk EXCEPT ![t] = w]

-----------------------------------------------------------------------------
\* Trimming.

RECURSIVE Trim(_, _)

\* trim_ventries from v on, over the table tab: free the ventry, count it
\* out of its parent and go on there, while nobody refers to it.  A vnode
\* that is still open stops it.
Trim(tab, v) ==
  LET e == tab[v] IN
  IF e = None \/ e.parent = None \/ e.root \/ e.ref # 0
     \/ (e.open # None /\ e.open # 0)
  THEN tab
  ELSE Trim([tab EXCEPT ![v] = None, ![e.parent].ref = @ - 1], e.parent)

-----------------------------------------------------------------------------
\* Acquire.

vfs_acquire(t) ==
  /\ At(t, "idle")
  /\ Cardinality(fds[t]) < MaxOpen[t]
  /\ \E p \in Paths[t] :
       /\ \A f \in fds[t] : f[2] # p
       /\ p \in AfterMount => entry["M1"] # None
       /\ SetWalk(t, [path |-> p, all |-> p, m |-> "M0", v |-> RootOf("M0"),
                      level |-> 0, next |-> None])
  /\ Go(t, IF walk'[t].path = <<>> THEN "vlock" ELSE "mlock")
  /\ UNCHANGED <<vent, mlock, vlock, entry, fds>>

LockMount(t) ==
  /\ At(t, "mlock")
  /\ mlock[walk[t].m] = None
  /\ mlock' = [mlock EXCEPT ![walk[t].m] = t]
  /\ Go(t, "segment")
  /\ UNCHANGED <<vent, vlock, entry, walk, fds>>

\* The ventry ".." leads to: the parent, from a mount's root the parent of
\* the ventry it is mounted on.
DotDot(v) ==
  LET e == IF vent[v].parent # None /\ vent[v].root THEN vent[v].parent ELSE v
  IN  IF vent[e].parent = None THEN e ELSE vent[e].parent

\* The ventry of a name in the cache.
Cached(v, name) == {c \in Children(v) : vent[c].name = name}

\* One segment: ".", "..", a cached name, or a lookup in the file system,
\* whose answer becomes a new ventry below v.  A failure trims what the walk
\* has added and ends it.
Segment(t) ==
  LET w    == walk[t]
      name == Head(w.path)
      \* where the walk goes on from ventry c
      move(c) ==
        LET rest == Tail(w.path)
            over == MountOn(c)
        IN  IF over # {}
            THEN LET m == CHOOSE x \in over : TRUE IN
                 /\ SetWalk(t, [w EXCEPT !.path = rest, !.next = m])
                 /\ Go(t, "cross")
            ELSE /\ SetWalk(t, [w EXCEPT !.path = rest, !.v = c])
                 /\ Go(t, IF rest = <<>> \/ vent'[c].to # <<>> THEN "vlock"
                          ELSE "segment")
      found == EntriesOf(w.m, IF w.v = entry[w.m] THEN RootId ELSE vent[w.v].id,
                         name)
  IN
  /\ At(t, "segment")
  /\ \/ /\ name \in {".", ".."}
        /\ UNCHANGED <<vent, mlock>>
        /\ move(IF name = "." THEN w.v ELSE DotDot(w.v))
     \/ /\ name \notin {".", ".."}
        /\ Cached(w.v, name) # {}
        /\ UNCHANGED <<vent, mlock>>
        /\ move(CHOOSE c \in Cached(w.v, name) : TRUE)
     \/ /\ name \notin {".", ".."}
        /\ Cached(w.v, name) = {}
        /\ found # {}
        /\ LET e == CHOOSE x \in found : TRUE IN
           vent' = [vent EXCEPT ![Fresh] = NewVent(w.v, name, e.id, w.m, e.to,
                                                   FALSE, 0),
                                ![w.v].ref = @ + 1]
        /\ UNCHANGED mlock
        /\ move(Fresh)
     \/ /\ name \notin {".", ".."}
        /\ Cached(w.v, name) = {}
        /\ found = {}
        /\ vent' = Trim(vent, w.v)
        /\ mlock' = [mlock EXCEPT ![w.m] = None]
        /\ SetWalk(t, None)
        /\ Go(t, "idle")
  /\ UNCHANGED <<vlock, entry, fds>>

\* Entering another mount: its lock is taken, then the last one's released.
Cross(t) ==
  LET w == walk[t] IN
  /\ At(t, "cross")
  /\ mlock[w.next] = None
  /\ mlock' = [mlock EXCEPT ![w.next] = t, ![w.m] = None]
  /\ SetWalk(t, [w EXCEPT !.m = w.next, !.v = RootOf(w.next), !.next = None])
  /\ Go(t, IF w.path = <<>> THEN "vlock" ELSE "segment")
  /\ UNCHANGED <<vent, vlock, entry, fds>>

\* The end of a walk: the ventry's lock, then the mount's lock back (an
\* empty path takes no mount lock).
LockVent(t) ==
  LET w == walk[t] IN
  /\ At(t, "vlock")
  /\ vlock[w.v] = {}
  /\ vlock' = [vlock EXCEPT ![w.v] = {t}]
  /\ mlock' = [mlock EXCEPT ![w.m] = IF @ = t THEN None ELSE @]
  /\ Go(t, IF vent[w.v].to # <<>> THEN "link" ELSE "vnode")
  /\ UNCHANGED <<vent, entry, walk, fds>>

\* Mutant: the walk starts again without the target of the link.
FollowLinkRest(t) ==
  LET w == walk[t] IN
  /\ At(t, "link")
  /\ vlock' = [vlock EXCEPT ![w.v] = {}]
  /\ vent' = Trim(vent, w.v)
  /\ IF w.level + 1 >= MaxLinks
     THEN SetWalk(t, None) /\ Go(t, "idle")
     ELSE /\ SetWalk(t, [w EXCEPT !.path = w.path, !.m = "M0",
                                  !.v = RootOf("M0"), !.level = @ + 1])
          /\ Go(t, IF w.path = <<>> THEN "vlock" ELSE "mlock")
  /\ UNCHANGED <<mlock, entry, fds>>

\* A symbolic link: its target and the rest of the path replace the path,
\* the ventry is given back, and the walk starts again at the root, at most
\* MaxLinks times.
FollowLink(t) ==
  LET w == walk[t] IN
  /\ At(t, "link")
  /\ vlock' = [vlock EXCEPT ![w.v] = {}]
  /\ vent' = Trim(vent, w.v)
  /\ IF w.level + 1 >= MaxLinks
     THEN SetWalk(t, None) /\ Go(t, "idle")
     ELSE /\ SetWalk(t, [w EXCEPT !.path = vent[w.v].to \o w.path, !.m = "M0",
                                  !.v = RootOf("M0"), !.level = @ + 1])
          /\ Go(t, "mlock")
  /\ UNCHANGED <<mlock, entry, fds>>

\* acquire_ipc: the file system is asked for the node, and may refuse.
AcquireVnode(t) ==
  LET v == walk[t].v IN
  /\ At(t, "vnode")
  /\ \/ /\ HasVnode(v)
        /\ UNCHANGED <<vent, vlock, walk>>
        /\ Go(t, "count")
     \/ /\ ~HasVnode(v)
        /\ <<vent[v].from, vent[v].id>> \notin Refused
        /\ vent' = [vent EXCEPT ![v].open = 0]
        /\ UNCHANGED <<vlock, walk>>
        /\ Go(t, "count")
     \/ /\ ~HasVnode(v)
        /\ <<vent[v].from, vent[v].id>> \in Refused
        /\ vlock' = [vlock EXCEPT ![v] = {}]
        /\ vent' = Trim(vent, v)
        /\ SetWalk(t, None)
        /\ Go(t, "idle")
  /\ UNCHANGED <<mlock, entry, fds>>

\* The end of vfs_acquire raises both counts and unlocks the ventry.
Count(t) ==
  LET v == walk[t].v IN
  /\ At(t, "count")
  /\ vent' = [vent EXCEPT ![v].ref = @ + 1, ![v].open = @ + 1]
  /\ vlock' = [vlock EXCEPT ![v] = {}]
  /\ fds' = [fds EXCEPT ![t] = @ \cup {<<v, walk[t].all>>}]
  /\ SetWalk(t, None)
  /\ Go(t, "idle")
  /\ UNCHANGED <<mlock, entry>>

-----------------------------------------------------------------------------
\* Release.

\* A ventry that carries a mount is never released: create_fs keeps its
\* descriptor.
vfs_release(t) ==
  /\ At(t, "idle")
  /\ \E f \in fds[t] :
       /\ \A m \in Mounts : entry[m] # f[1]
       /\ fds' = [fds EXCEPT ![t] = @ \ {f}]
       /\ SetWalk(t, [v |-> f[1], last |-> FALSE])
  /\ Go(t, "rel_open")
  /\ UNCHANGED <<vent, mlock, vlock, entry>>

\* Under the ventry's read lock the open count goes down ...
ReleaseOpen(t) ==
  LET v == walk[t].v IN
  /\ At(t, "rel_open")
  /\ \A u \in vlock[v] : At(u, "rel_ref")
  /\ vlock' = [vlock EXCEPT ![v] = @ \cup {t}]
  /\ vent' = [vent EXCEPT ![v].open = @ - 1]
  /\ SetWalk(t, [v |-> v, last |-> vent[v].open = 1])
  /\ Go(t, "rel_ref")
  /\ UNCHANGED <<mlock, entry, fds>>

\* ... and then the reference count.
ReleaseRef(t) ==
  LET v == walk[t].v IN
  /\ At(t, "rel_ref")
  /\ vlock' = [vlock EXCEPT ![v] = @ \ {t}]
  /\ vent' = [vent EXCEPT ![v].ref = @ - 1]
  /\ Go(t, IF walk[t].last THEN "rel_trim" ELSE "idle")
  /\ walk' = IF walk[t].last THEN walk ELSE [walk EXCEPT ![t] = None]
  /\ UNCHANGED <<mlock, entry, fds>>


\* The last close trims, under the lock of the mount the name came from.
ReleaseTrim(t) ==
  LET v == walk[t].v IN
  /\ At(t, "rel_trim")
  /\ vent[v] # None => mlock[vent[v].from] = None
  /\ vent' = Trim(vent, v)
  /\ SetWalk(t, None)
  /\ Go(t, "idle")
  /\ UNCHANGED <<mlock, vlock, entry, fds>>

-----------------------------------------------------------------------------
\* Mount.

\* vfs_mount on a directory the thread has acquired, without any lock: the
\* tests, and after the answer of the file system the assignments.
MountTest(t) ==
  /\ t = Mounter
  /\ At(t, "idle")
  /\ entry["M1"] = None
  /\ \E f \in fds[t] :
       /\ f[2] = MountDir
       /\ MountOn(f[1]) = {}
       /\ Children(f[1]) = {}
       /\ SetWalk(t, [v |-> f[1], last |-> FALSE])
  /\ Go(t, "mount")
  /\ UNCHANGED <<vent, mlock, vlock, entry, fds>>

MountSet(t) ==
  LET v == walk[t].v IN
  /\ At(t, "mount")
  /\ entry' = [entry EXCEPT !["M1"] = v]
  /\ vent' = [vent EXCEPT ![Fresh] = NewVent(v, "/", RootId, "M1", <<>>, TRUE, 1)]
  /\ SetWalk(t, None)
  /\ Go(t, "idle")
  /\ UNCHANGED <<mlock, vlock, fds>>

-----------------------------------------------------------------------------

VfsStep(t) ==
  \/ vfs_acquire(t) \/ LockMount(t) \/ Segment(t) \/ Cross(t) \/ LockVent(t)
  \/ FollowLink(t) \/ AcquireVnode(t) \/ Count(t)
  \/ vfs_release(t) \/ ReleaseOpen(t) \/ ReleaseRef(t) \/ ReleaseTrim(t)
  \/ MountTest(t) \/ MountSet(t)

VfsNext == \E t \in Actors : VfsStep(t)

-----------------------------------------------------------------------------

\* vfs_real_path: the names from the root, over the mount points.
RECURSIVE vfs_real_path(_)
vfs_real_path(v) ==
  LET e == IF vent[v].root /\ vent[v].from # None THEN entry[vent[v].from] ELSE v
  IN  IF vent[e].parent = None THEN <<>>
      ELSE Append(vfs_real_path(vent[e].parent), vent[e].name)

RECURSIVE Canonical(_, _, _)

\* Reference: the canonical form of a path, with the links of the first
\* file system followed; fuel bounds the number of links.
Canonical(done, path, fuel) ==
  IF path = <<>> THEN done
  ELSE LET name == Head(path)
           here == Append(done, name)
           links == {e \in Entries : e.to # <<>> /\ e.name = name /\ done = <<>>}
       IN  CASE name = "." -> Canonical(done, Tail(path), fuel)
             [] name = ".." -> Canonical(SubSeq(done, 1, Len(done) - 1),
                                         Tail(path), fuel)
             [] name \notin {".", ".."} /\ links # {} /\ fuel > 0 ->
                  Canonical(<<>>, (CHOOSE e \in links : TRUE).to \o Tail(path),
                            fuel - 1)
             [] OTHER -> Canonical(here, Tail(path), fuel)

\* No thread keeps a ventry that has been freed: neither the one its walk
\* is at, nor one it is about to release, nor one it holds a descriptor of.
\* (Two threads at the same name break this, see the README.)
NoDangling ==
  \A t \in Actors :
    /\ walk[t] # None => walk[t].v \in Live
    /\ \A f \in fds[t] : f[1] \in Live

\* The reference count of a ventry counts its cached children, the
\* descriptors for it and the releases that have only lowered the open count
\* (and one for a root); the open count counts the descriptors.
RefExact ==
  \A v \in Live :
    LET held == Cardinality({x \in Actors \X UNION {fds[t] : t \in Actors} :
                               x[2] \in fds[x[1]] /\ x[2][1] = v})
        late == Cardinality({t \in Actors :
                   vpc[t] \in {"rel_open", "rel_ref"} /\ walk[t].v = v})
        gone == Cardinality({t \in Actors : vpc[t] = "rel_ref" /\ walk[t].v = v})
    IN  /\ vent[v].ref = Cardinality(Children(v)) + held + late
                         + (IF vent[v].root THEN 1 ELSE 0)
        /\ HasVnode(v) => vent[v].open = held + late - gone

\* A descriptor is for the file its path names: its real path is the
\* canonical form of the path it was acquired by, over cached names, links
\* and the mount point.
ResolvesRight ==
  \A t \in Actors : \A f \in fds[t] :
    f[1] \in Live => vfs_real_path(f[1]) = Canonical(<<>>, f[2], MaxLinks)

=============================================================================
