-------------------------------- MODULE Mounts --------------------------------
(***************************************************************************)
(* From a path to a node: the mount points of kernel/kernel/vfs/core.c and *)
(* the device file system, kernel/kernel/fs/devfs*.c, whose nodes the      *)
(* registry of character devices, kernel/kernel/char/registry.c, makes.    *)
(* A path is a sequence of characters, and the comparisons are those of    *)
(* kernel/utils: kstrcmp compares over the length of its first argument.   *)
(* A kpanic, or an access through a null pointer, stops the kernel.        *)
(***************************************************************************)
EXTENDS Integers, Sequences

CONSTANTS
  MountPoints,    \* the paths that file systems are mounted at
  DeviceNames,    \* the names that devices are registered with
  Paths,          \* the paths that are looked up
  MaxNodeRefs     \* bound: references to one device node

ASSUME MountsAssumption ==
  DOMAIN MountPoints \cup DeviceNames \cup Paths \subseteq Seq(STRING)

VARIABLES
  mounts,         \* vfs_mounts, newest first: path and file system
  devices,        \* devfs_nodes, newest first: name and index
  devRefs,        \* ref of each device node, by index
  handle_seq,     \* devfs_inode_seq
  stopped

mountVars == <<mounts, devices, devRefs, handle_seq, stopped>>

Sep == "/"
kstrcmp(p1, p2) == Len(p1) <= Len(p2) /\ \A i \in 1..Len(p1) : p1[i] = p2[i]
EndsInSep(path) == path # <<>> /\ path[Len(path)] = Sep

MountsInit ==
  /\ mounts = <<>> /\ devices = <<>> /\ devRefs = <<>>
  /\ handle_seq = 2 /\ stopped = FALSE

Stop == stopped' = TRUE /\ UNCHANGED <<mounts, devices, devRefs, handle_seq>>

-----------------------------------------------------------------------------

\* The root is mounted at "".  The character in front of "" is then taken for
\* its last one; what the linker put there may be a separator.
vfs_mount(point, fs) ==
  LET path == IF point = <<Sep>> THEN <<>> ELSE point IN
  /\ ~stopped
  /\ \/ path = <<>> /\ Stop
     \/ EndsInSep(path) /\ Stop
     \/ /\ ~EndsInSep(path)
        /\ IF \E i \in DOMAIN mounts : kstrcmp(path, mounts[i].path) THEN Stop
           ELSE /\ mounts' = <<[path |-> path, fs |-> fs]>> \o mounts
                /\ UNCHANGED <<devices, devRefs, handle_seq, stopped>>

\* Mutation: a path matches wherever the mount point's name goes on.
MatchAnyway(m, path) ==
  LET min == IF Len(m.path) < Len(path) THEN Len(m.path) ELSE Len(path) IN
  SubSeq(path, 1, min) = SubSeq(m.path, 1, min)

\* The condition under which vfs_get stops at a mount.
MountMatches(m, path) ==
  LET min == IF Len(m.path) < Len(path) THEN Len(m.path) ELSE Len(path) IN
  /\ SubSeq(path, 1, min) = SubSeq(m.path, 1, min)
  /\ Len(path) = min \/ path[min + 1] = Sep

\* vfs_get: the first mount that matches, and the rest of the path.
NoMount == [fs |-> "none", rest |-> <<>>]
FindMount(path) ==
  LET found == {i \in DOMAIN mounts : MountMatches(mounts[i], path)}
      i == CHOOSE j \in found : \A k \in found : j <= k IN
  IF found = {} THEN NoMount
  ELSE [fs |-> mounts[i].fs, rest |-> SubSeq(path, Len(mounts[i].path) + 1, Len(path))]

-----------------------------------------------------------------------------

\* Index i + 1 of the code is at place i of devRefs.
devfs_register_node(name) ==
  /\ devices' = <<[name |-> name, index |-> handle_seq - 1]>> \o devices
  /\ devRefs' = Append(devRefs, 0)
  /\ handle_seq' = handle_seq + 1

cdev_register(name) ==
  /\ ~stopped
  /\ IF \E i \in DOMAIN devices : kstrcmp(devices[i].name, name) THEN Stop
     ELSE devfs_register_node(name) /\ UNCHANGED <<mounts, stopped>>

NoDevice == 0
DeviceByName(name) ==
  LET found == {i \in DOMAIN devices : kstrcmp(name, devices[i].name)} IN
  IF found = {} THEN NoDevice
  ELSE devices[CHOOSE j \in found : \A k \in found : j <= k].index

\* vfs_get of a path in the device file system: devfs_get_root counts nothing,
\* devfs_get_by_path wants a name after the separator and counts.
devfs_get(path) ==
  LET rest == FindMount(path).rest
      d == DeviceByName(Tail(rest)) IN
  /\ ~stopped /\ FindMount(path).fs = "devfs" /\ rest # <<>>
  /\ IF EndsInSep(rest) THEN Stop
     ELSE /\ d # NoDevice /\ devRefs[d] < MaxNodeRefs
          /\ devRefs' = [devRefs EXCEPT ![d] = @ + 1]
          /\ UNCHANGED <<mounts, devices, handle_seq, stopped>>

\* devfs_root_get_leaf_node: device n of the list, counted.
devfs_root_get_leaf_node(n) ==
  LET d == devices[n].index IN
  /\ ~stopped /\ n \in DOMAIN devices /\ devRefs[d] < MaxNodeRefs
  /\ devRefs' = [devRefs EXCEPT ![d] = @ + 1]
  /\ UNCHANGED <<mounts, devices, handle_seq, stopped>>

devfs_put(d) ==
  /\ ~stopped /\ devRefs[d] > 0
  /\ devRefs' = [devRefs EXCEPT ![d] = @ - 1]
  /\ UNCHANGED <<mounts, devices, handle_seq, stopped>>

\* devfs_put of the root, which has no data of its own.
devfs_put_root ==
  /\ ~stopped /\ \E path \in Paths : FindMount(path).fs = "devfs" /\ FindMount(path).rest = <<>>
  /\ Stop

MountsNext ==
  \/ \E p \in DOMAIN MountPoints : vfs_mount(p, MountPoints[p])
  \/ \E name \in DeviceNames : cdev_register(name)
  \/ \E path \in Paths : devfs_get(path)
  \/ \E n \in 1..Len(devices) : devfs_root_get_leaf_node(n)
  \/ \E d \in DOMAIN devRefs : devfs_put(d)
  \/ devfs_put_root

MountsSpec == MountsInit /\ [][MountsNext]_mountVars

-----------------------------------------------------------------------------

\* The mount whose directory the path is in, if any: the longest of them.
Inside(m, path) ==
  /\ kstrcmp(m.path, path)
  /\ Len(path) > Len(m.path) => path[Len(m.path) + 1] = Sep
Home(path) ==
  LET homes == {i \in DOMAIN mounts : Inside(mounts[i], path)} IN
  IF homes = {} THEN "none"
  ELSE mounts[CHOOSE i \in homes : \A j \in homes : Len(mounts[j].path) <= Len(mounts[i].path)].fs

\* The mounts below the path, whose own paths it starts.
Below(path) == {i \in DOMAIN mounts : kstrcmp(path, mounts[i].path) /\ path # mounts[i].path}

(* A path leads to the file system mounted closest above it, whatever else  *)
(* is mounted and in whatever order it could be: vfs_mount refuses to mount *)
(* a directory after one below it, and vfs_get looks at the newest first.   *)
(* The exception is a path that starts the path of a mount: vfs_get         *)
(* compares over the shorter of the two, so that it always takes the newest *)
(* mount below the path instead ("/" leads into "/dev" as soon as that is   *)
(* mounted).                                                                *)
NearestMount ==
  \A path \in Paths :
    FindMount(path).fs =
      IF Below(path) = {} THEN Home(path)
      ELSE mounts[CHOOSE i \in Below(path) : \A j \in Below(path) : i <= j].fs

(* Every device is found by its name and has an index of its own.  A name   *)
(* may start with another one: cdev_register refuses it when the shorter    *)
(* one was there before, and the newest device is looked at first.          *)
DeviceFoundByName ==
  \A i \in DOMAIN devices :
    /\ \A j \in DOMAIN devices : devices[j].index = devices[i].index => i = j
    /\ DeviceByName(devices[i].name) = devices[i].index

(* Mounts and devices together: a path leads to what is mounted above it,   *)
(* unless something is mounted below it, and a name to its device.          *)
PathsResolve == NearestMount /\ DeviceFoundByName

=============================================================================
