------------------------------ MODULE BpfLoad -------------------------------
(***************************************************************************)
(* Commands that load eBPF objects (lib/bpf.c) at the same time.  A        *)
(* command attaches the maps of its object one by one: a map pinned in the *)
(* bpf file system is taken over, another one is created and then pinned.  *)
(* Maps of maps wait for a second round; after it the inner maps are put   *)
(* into them, and the programs of the sections <map>/<key> into the arrays *)
(* of the tail calls.                                                      *)
(***************************************************************************)
EXTENDS Integers, Sequences

CONSTANTS Loaders,  \* the commands
          Objects   \* the objects that they load

\* A map: where it is pinned, what it is created as (type and size), its id,
\* and for an inner map the index in the maps that have its id as inner_id.
BpfMap(n, p, t, size, id, inner, idx) ==
  [name |-> n, pinning |-> p, spec |-> <<t, size>>, id |-> id, inner_id |-> inner, inner_idx |-> idx]

\* A section is the slot <<map id, key>> of its name, or <<>> for "classifier".
Object(uid, maps, sections) == [uid |-> uid, maps |-> maps, sections |-> sections]

ASSUME BpfAssumption ==
  \A obj \in Objects : /\ DOMAIN obj.maps = 1..Len(obj.maps) /\ Len(obj.maps) \in Nat
                       /\ DOMAIN obj.sections \subseteq Nat

VARIABLES
  fs,       \* the bpf file system: the map pinned at a path
  kinds,    \* the maps of the kernel by number: what each was created as
  held,     \* and what it holds, by key
  loader    \* the commands

\* A command has its object and the section to attach, fds (0: not attached
\* yet, -1: left for the second round), the maps it made, the calls of
\* bpf_map_update() it has made, and the commands that had finished before it
\* began.
bpfVars == <<fs, kinds, held, loader>>

-----------------------------------------------------------------------------
bpf_is_map_in_map_type(map) == map.spec[1] = "maps"

\* bpf_pinning lists the pinning "custom" and not the pinning "unlisted".
bpf_custom_pinning(pinning) == pinning = "custom"
bpf_no_pinning(pinning) ==
  pinning \notin {"object", "global"} /\ (pinning = "none" \/ ~bpf_custom_pinning(pinning))
bpf_make_pathname(obj, map) ==
  CASE map.pinning = "object" -> <<obj.uid, map.name>>
    [] map.pinning = "global" -> <<"globals", map.name>>
    [] OTHER -> <<"subpath", map.name>>

\* A map of this kind is pinned where this one would be.
bpf_probe_pinned(obj, map) == ~bpf_no_pinning(map.pinning) /\ bpf_make_pathname(obj, map) \in DOMAIN fs

\* The mutant lets a pinned map be of any size.
bpf_map_selfcheck_type(fd, map) == kinds[fd][1] = map.spec[1]
bpf_map_selfcheck_pinned(fd, map) == kinds[fd] = map.spec

\* The first map with an id is attached.
bpf_find_map_id(me, id) ==
  \E i \in DOMAIN me.obj.maps :
    /\ me.obj.maps[i].id = id /\ me.fds[i] >= 0
    /\ \A k \in 1..(i - 1) : me.obj.maps[k].id # id

Put(table, key, value) == [k \in DOMAIN table \cup {key} |-> IF k = key THEN value ELSE table[k]]
Set(l, me) == loader' = [loader EXCEPT ![l] = me]
LoadFails(l) == Set(l, [loader[l] EXCEPT !.pc = "failed"]) /\ UNCHANGED <<fs, kinds, held>>
Attached(me, fd) == [me EXCEPT !.fds[me.i] = fd, !.i = @ + 1, !.pc = "probe"]

\* bpf_map_attach() up to the creation, for the next map of the round.
Probing(l) == loader[l].pc = "probe" /\ loader[l].i <= Len(loader[l].obj.maps)
MapAt(l) == loader[l].obj.maps[loader[l].i]
PathAt(l) == bpf_make_pathname(loader[l].obj, MapAt(l))
SecondRound(l) == loader[l].round = 2

\* The second round has no part for a map that is attached.
PassOverMap(l) ==
  /\ Probing(l) /\ SecondRound(l) /\ loader[l].fds[loader[l].i] > 0
  /\ Set(l, [loader[l] EXCEPT !.i = @ + 1])
  /\ UNCHANGED <<fs, kinds, held>>

bpf_map_attach(l) ==
  LET map == MapAt(l)
  IN /\ Probing(l) /\ ~(SecondRound(l) /\ loader[l].fds[loader[l].i] > 0)
     /\ \/ /\ bpf_probe_pinned(loader[l].obj, map)
           /\ IF bpf_map_selfcheck_pinned(fs[PathAt(l)], map)
              THEN Set(l, Attached(loader[l], fs[PathAt(l)])) /\ UNCHANGED <<fs, kinds, held>>
              ELSE LoadFails(l)
        \/ /\ ~bpf_probe_pinned(loader[l].obj, map) /\ bpf_is_map_in_map_type(map) /\ ~SecondRound(l)
           /\ IF map.inner_id # 0
              THEN /\ Set(l, [Attached(loader[l], -1) EXCEPT !.have_map_in_map = TRUE])
                   /\ UNCHANGED <<fs, kinds, held>>
              ELSE LoadFails(l)
        \/ /\ ~bpf_probe_pinned(loader[l].obj, map) /\ (bpf_is_map_in_map_type(map) => SecondRound(l))
           /\ IF bpf_is_map_in_map_type(map) => bpf_find_map_id(loader[l], map.inner_id)
              THEN Set(l, [loader[l] EXCEPT !.pc = "create"]) /\ UNCHANGED <<fs, kinds, held>>
              ELSE LoadFails(l)

\* bpf_map_create() and bpf_place_pinned(): a path that is taken by now is
\* no error.
bpf_place_pinned(l, fd) ==
  fs' = IF bpf_no_pinning(MapAt(l).pinning) \/ PathAt(l) \in DOMAIN fs THEN fs ELSE Put(fs, PathAt(l), fd)

bpf_map_create(l) ==
  LET fd == Len(kinds) + 1
  IN /\ loader[l].pc = "create"
     /\ \/ LoadFails(l)
        \/ /\ Set(l, [Attached(loader[l], fd) EXCEPT !.made = @ \cup {fd}])
           /\ kinds' = Append(kinds, MapAt(l).spec)
           /\ held' = Put(held, fd, <<>>)
           /\ bpf_place_pinned(l, fd)

bpf_second_round(l) ==
  /\ loader[l].pc = "probe" /\ loader[l].i > Len(loader[l].obj.maps)
  /\ Set(l, IF loader[l].round = 1 /\ loader[l].have_map_in_map
            THEN [loader[l] EXCEPT !.round = 2, !.i = 1]
            ELSE [loader[l] EXCEPT !.pc = "fill"])
  /\ UNCHANGED <<fs, kinds, held>>

-----------------------------------------------------------------------------
\* The calls of bpf_map_update() in their order.  <<1, i, j>>: the last loop
\* of bpf_maps_attach_all() puts map i into map j.
InnerMaps(me) ==
  LET maps == me.obj.maps
      Fits(i, j) == /\ maps[i].id # 0 /\ maps[i].inner_id = 0 /\ maps[i].inner_idx # -1
                    /\ bpf_is_map_in_map_type(maps[j]) /\ maps[j].inner_id = maps[i].id
  IN {u \in {1} \X (DOMAIN maps) \X (DOMAIN maps) : me.have_map_in_map /\ Fits(u[2], u[3])}

\* <<2, k, i>>: the program of section k goes into array i, the first one
\* with the id that the section names.
bpf_find_map_by_id(me, id) ==
  LET Is(i) == me.obj.maps[i].id = id /\ me.obj.maps[i].spec[1] = "progs"
  IN {i \in DOMAIN me.obj.maps : Is(i) /\ \A k \in 1..(i - 1) : ~Is(k)}

\* The sections not done yet, less those skipped.
Sections(me, skip) ==
  {u \in {2} \X (DOMAIN me.obj.sections \ skip) \X (DOMAIN me.obj.maps) :
     me.obj.sections[u[2]] # <<>> /\ u[3] \in bpf_find_map_by_id(me, me.obj.sections[u[2]][1])}

\* The mutant's loop ends one section early.
bpf_fill_all_but_last(me) == Sections(me, {me.section, Len(me.obj.sections)})
bpf_fill_prog_arrays(me) == Sections(me, {me.section})

Todo(me) == (InnerMaps(me) \cup bpf_fill_prog_arrays(me)) \ me.done
Before(u, v) == u[1] < v[1] \/ (u[1] = v[1] /\ (u[2] < v[2] \/ (u[2] = v[2] /\ u[3] < v[3])))

KeyOf(me, u) == IF u[1] = 1 THEN me.obj.maps[u[2]].inner_idx ELSE me.obj.sections[u[2]][2]
ValueOf(me, u) == IF u[1] = 1 THEN me.fds[u[2]] ELSE me.obj.uid
\* bpf_map_update(), one call after the other; a key past the end is refused,
\* and a program may be.
bpf_map_update(l) ==
  LET me == loader[l]
  IN /\ me.pc = "fill"
     /\ \/ LoadFails(l)
        \/ /\ Todo(me) = {}
           /\ Set(l, [me EXCEPT !.pc = "loaded"])
           /\ UNCHANGED <<fs, kinds, held>>
        \/ \E u \in Todo(me) :
             /\ \A v \in Todo(me) : u = v \/ Before(u, v)
             /\ KeyOf(me, u) < kinds[me.fds[u[3]]][2]
             /\ held' = [held EXCEPT ![me.fds[u[3]]] = Put(@, KeyOf(me, u), ValueOf(me, u))]
             /\ Set(l, [me EXCEPT !.done = @ \cup {u}])
             /\ UNCHANGED <<fs, kinds>>

-----------------------------------------------------------------------------
Finished == {l \in Loaders : loader[l].pc \in {"loaded", "failed"}}

\* bpf_obj_open() begins; the section to attach is one of the object's.
bpf_obj_open(l) ==
  /\ loader[l].pc = "idle"
  /\ \E obj \in Objects : \E section \in DOMAIN obj.sections :
       Set(l, [obj |-> obj, section |-> section, pc |-> "probe", i |-> 1, round |-> 1, done |-> {},
               fds |-> [i \in DOMAIN obj.maps |-> 0], have_map_in_map |-> FALSE, made |-> {}, after |-> Finished])
  /\ UNCHANGED <<fs, kinds, held>>

BpfInit == fs = <<>> /\ kinds = <<>> /\ held = <<>> /\ loader = [l \in Loaders |-> [pc |-> "idle"]]
BpfNext ==
  \E l \in Loaders : \/ bpf_obj_open(l) \/ PassOverMap(l) \/ bpf_map_attach(l) \/ bpf_map_create(l)
                     \/ bpf_second_round(l) \/ bpf_map_update(l)
BpfSpec == BpfInit /\ [][BpfNext]_bpfVars

-----------------------------------------------------------------------------
\* One of two commands had ended, or has not begun, when the other began.
Apart(k, l) ==
  \/ loader[k].pc = "idle" \/ k \in loader[l].after
  \/ l \in loader[k].after

\* A command that begins after another one has loaded its object shares each
\* map that both pin at one path, and the map is what its own object declares:
\* bpf_map_attach() takes over what is pinned or gives up.  The other one had
\* the file system for itself: of two commands that overlap each may keep a
\* map of its own, since the one that pins last is told EEXIST and goes on
\* with a map nobody else sees.
BpfMapsShared ==
  \A m \in Loaders : loader[m].pc = "loaded" =>
    \A l \in loader[m].after : (loader[l].pc = "loaded" /\ \A k \in Loaders \ {l} : Apart(k, l)) =>
      LET a == loader[l]
          b == loader[m]
      IN \A i \in DOMAIN a.obj.maps, j \in DOMAIN b.obj.maps :
           /\ ~bpf_no_pinning(a.obj.maps[i].pinning) /\ ~bpf_no_pinning(b.obj.maps[j].pinning)
           /\ bpf_make_pathname(a.obj, a.obj.maps[i]) = bpf_make_pathname(b.obj, b.obj.maps[j])
           => a.fds[i] = b.fds[j] /\ kinds[b.fds[j]] = b.obj.maps[j].spec

\* When a command has loaded its object, each map of maps it created holds the
\* inner maps meant for it and each array of tail calls a program for every
\* section that names one of its keys, but for the section that was attached.
BpfTablesFilled ==
  \A l \in Loaders : loader[l].pc = "loaded" =>
    LET me == loader[l]
        maps == me.obj.maps
    IN /\ \A i, j \in DOMAIN maps :
            /\ me.fds[j] \in me.made /\ bpf_is_map_in_map_type(maps[j]) /\ maps[j].inner_id = maps[i].id
            /\ maps[i].id # 0 /\ maps[i].inner_id = 0 /\ maps[i].inner_idx # -1
            => maps[i].inner_idx \in DOMAIN held[me.fds[j]]
       /\ \A k \in DOMAIN me.obj.sections \ {me.section} : \A i \in DOMAIN maps :
            /\ maps[i].spec[1] = "progs" /\ me.obj.sections[k] # <<>> /\ me.obj.sections[k][1] = maps[i].id
            /\ \A h \in DOMAIN maps : maps[h].id = maps[i].id => h = i
            => me.obj.sections[k][2] \in DOMAIN held[me.fds[i]]
=============================================================================
