--------------------------- MODULE KeyIndex_proofs --------------------------
(***************************************************************************)
(* What a persistent key index says is of its source, for any dictionary,  *)
(* any number of handles, of edits and of builds: a build that reports     *)
(* success, an index that opens, the rows a query finds and the keys a     *)
(* scan visits.  A query that no edit overtakes finds all there is:        *)
(* ProgressInv says of one under way that it has found what there is among *)
(* the rows it has looked at.                                              *)
(*                                                                         *)
(* The last part is about the layout of an index file (IndexLayout), for   *)
(* any row counts, text lengths, options and damaged fields: FormatInv says *)
(* what the builder has computed and written so far.                       *)
(***************************************************************************)
EXTENDS KeyIndex, IndexLayout, TLAPS, FiniteSetTheorems, SequenceTheorems

Stamps == [len : Nat, time : Nat]

\* Stamps do not come back: every stamp the source has had is at most as new as
\* the one it has.
SourceInv ==
    /\ source \in [rows : Contents, len : Nat, time : Nat, edits : Nat, shown : BOOLEAN]
    /\ truth = [s \in DOMAIN truth |-> truth[s]]
    /\ DOMAIN truth \subseteq Stamps
    /\ \A s \in DOMAIN truth : s.time <= source.time
    /\ Stamp \in DOMAIN truth /\ source.rows \in truth[Stamp]

\* The block in a handle's slot is one the source has had since it was opened.
SlotSound(slot, contents) ==
    slot.block \in Blocks => \E content \in contents : content[slot.block] = slot.version

HandleInv ==
    /\ seen \in [Handles -> SUBSET Contents]
    /\ opened \in [Handles -> Stamps \cup {None}]
    /\ cache = [h \in Handles |-> cache[h]]
    /\ \A h \in Handles :
          /\ SlotSound(cache[h], seen[h])
          /\ opened[h] = None => seen[h] = {}
          /\ opened[h] # None =>
                /\ opened[h].time <= source.time
                /\ source.rows \in seen[h]
                /\ source.shown /\ opened[h] = Stamp => seen[h] \subseteq {source.rows}

\* As long as a fresh handle's source has kept its stamp, so have its rows.
BuildInv ==
    build.phase # "idle" =>
        /\ build = [phase |-> build.phase, handle |-> build.handle, before |-> build.before,
                    block |-> build.block, rows |-> build.rows, fresh |-> build.fresh]
        /\ build.phase \in {"scan", "write", "check"}
        /\ build.handle \in Handles /\ opened[build.handle] # None
        /\ build.before \in DOMAIN truth
        /\ build.fresh => opened[build.handle] = build.before
        /\ build.phase = "scan" =>
              /\ build.rows \in Seq(Versions) /\ build.block = Len(build.rows)
              /\ source.shown /\ build.fresh /\ Stamp = build.before =>
                    \A b \in Blocks : b < build.block => build.rows[b + 1] = source.rows[b]
        /\ build.phase \in {"write", "check"} =>
              file # NoFile /\ file.stamp = build.before /\ file.fresh = build.fresh
        /\ build.phase = "check" => file.parts = AllParts /\ file.synced

FileInv ==
    file # NoFile =>
        /\ file = [parts |-> file.parts, stamp |-> file.stamp, synced |-> file.synced,
                   damaged |-> file.damaged, fresh |-> file.fresh, rows |-> file.rows]
        /\ file.parts \in 0..AllParts
        /\ file.stamp \in DOMAIN truth
        /\ source.shown /\ file.fresh /\ Stamp = file.stamp => file.rows = source.rows

IndexInv ==
    /\ index = [h \in Handles |-> index[h]]
    /\ \A h \in Handles : index[h] # None =>
          /\ opened[h] # None
          /\ file # NoFile /\ file.parts = AllParts /\ index[h].stamp = file.stamp
          /\ source.shown /\ file.fresh => file.rows \in truth[file.stamp]

\* What a question asks of a key.
Matches(ask, key) ==
    /\ ask.op = "variants" => key.folded = ask.key.folded
    /\ ask.op = "locate" => key.norm = ask.key.norm

\* The keys a query has taken match its question and are the source's.
KeysSound(keys, ask, contents) ==
    \A o \in DOMAIN keys :
        Matches(ask, keys[o]) /\ \E content \in contents : KeyOf(o, content) = keys[o]

\* They have the texts and digests of these rows.
KeysOfRows(keys, rows) ==
    \A o \in DOMAIN keys :
        KeyOf(o, rows).norm = keys[o].norm /\ KeyOf(o, rows).digest = keys[o].digest

CallShape(c) ==
    /\ c = [tag |-> "call", ask |-> c.ask, range |-> c.range, pass |-> c.pass, at |-> c.at,
            exact |-> c.exact, others |-> c.others, picked |-> c.picked, keys |-> c.keys,
            during |-> c.during]
    /\ c.ask \in Asks
    /\ c.range \in Seq(Ordinals) /\ c.at \in DOMAIN c.range
    /\ DOMAIN c.keys \subseteq Ordinals
    /\ c.exact \in Seq(DOMAIN c.keys) /\ c.picked \in Seq(DOMAIN c.keys)

CallSound(h, c) ==
    /\ CallShape(c)
    /\ KeysSound(c.keys, c.ask, seen[h])
    /\ source.shown /\ AsNew(h) => seen[h] \subseteq c.during
    /\ source.shown /\ file.fresh => file.rows \in c.during
    /\ ~Garbled(h) => KeysOfRows(c.keys, file.rows)

CallInv ==
    /\ call = [h \in Handles |-> call[h]]
    /\ \A h \in Handles : call[h] # None => index[h] # None /\ CallSound(h, call[h])

ReturnInv ==
    returned.tag \in {"built", "found"} =>
        FreshBuildIsOfItsSource /\ FoundIsInSource /\ StampedRowsAreCurrent

IInv == SourceInv /\ HandleInv /\ BuildInv /\ FileInv /\ IndexInv /\ CallInv /\ ReturnInv

-----------------------------------------------------------------------------

\* Blocks and ordinals are numbered from 0 without gaps.
LEMMA Numbering ==
    /\ Cardinality(Ordinals) \in Nat
    /\ Ordinals \subseteq Nat /\ Blocks \subseteq Nat /\ -1 \notin Blocks
    /\ \A o \in Ordinals : BlockOf[o] \in Blocks
    /\ \A n \in Nat : n \notin Blocks => \A b \in Blocks : b < n
  <1>1. Cardinality(Ordinals) \in Nat
    BY KeyIndexAssumption, FS_CardinalityType
  <1>2. IsFiniteSet(Blocks)
    <2>1. [o \in Ordinals |-> BlockOf[o]] \in Surjection(Ordinals, Blocks)
      BY DEF Blocks, Surjection
    <2> QED BY <2>1, KeyIndexAssumption, FS_Surjection
  <1>3. Cardinality(Blocks) \in Nat
    BY <1>2, FS_CardinalityType
  <1>4. Blocks = 0..(Cardinality(Blocks) - 1) /\ Ordinals = 0..(Cardinality(Ordinals) - 1)
    BY KeyIndexAssumption
  <1>5. \A o \in Ordinals : BlockOf[o] \in Blocks
    BY DEF Blocks
  <1>6. ASSUME NEW m \in Nat, NEW S, S = 0..(m - 1)
        PROVE  /\ S \subseteq Nat /\ -1 \notin S
               /\ \A n \in Nat : n \notin S => \A b \in S : b < n
    BY <1>6
  <1> QED BY <1>1, <1>3, <1>4, <1>5, <1>6

\* The record of a stamp is no "none".
LEMMA StampIsSome == \A s \in Stamps : s # None
  <1> SUFFICES ASSUME NEW s \in Stamps, s = None PROVE FALSE
    OBVIOUS
  <1>1. DOMAIN s = {"len", "time"}
    BY DEF Stamps
  <1>2. DOMAIN s = {"tag"}
    BY DEF None
  <1> QED BY <1>1, <1>2

LEMMA StampType == ASSUME SourceInv PROVE Stamp \in Stamps /\ Stamp.time = source.time /\ Stamp.len = source.len
  BY DEF SourceInv, Stamp, Stamps

-----------------------------------------------------------------------------

(***************************************************************************)
(* What a step does not touch stays as it is.                              *)
(***************************************************************************)

LEMMA SourceFrame == ASSUME SourceInv, UNCHANGED <<source, truth>> PROVE SourceInv'
  BY DEF SourceInv, Stamp

LEMMA HandleFrame == ASSUME HandleInv, UNCHANGED <<source, seen, opened, cache>> PROVE HandleInv'
  BY DEF HandleInv, Stamp

LEMMA BuildFrame ==
    ASSUME BuildInv, UNCHANGED <<source, truth, opened, build, file>>
    PROVE  BuildInv'
  BY DEF BuildInv, Stamp

LEMMA FileFrame == ASSUME FileInv, UNCHANGED <<source, truth, file>> PROVE FileInv'
  BY DEF FileInv, Stamp

LEMMA IndexFrame ==
    ASSUME IndexInv, UNCHANGED <<source, truth, opened, file, index>>
    PROVE  IndexInv'
  BY DEF IndexInv

LEMMA CallSoundFrame ==
    ASSUME NEW h, NEW c, CallSound(h, c), UNCHANGED <<source, opened, file, index>>, seen'[h] = seen[h]
    PROVE  CallSound(h, c)'
  BY DEF CallSound, AsNew, Garbled

LEMMA CallFrame ==
    ASSUME CallInv, UNCHANGED <<source, seen, opened, file, index, call>>
    PROVE  CallInv'
  BY CallSoundFrame DEF CallInv

LEMMA NothingReturned == ASSUME returned' = None PROVE ReturnInv'
  BY DEF ReturnInv, None

-----------------------------------------------------------------------------

\* decode_key_block: whether from the slot or from the source, the version is one
\* the source has had since the handle was opened.
LEMMA DecodeSound ==
    ASSUME HandleInv, NEW h \in Handles, opened[h] # None, NEW b \in Blocks,
           NEW d \in DecodeKeyBlock(h, b)
    PROVE  /\ SlotSound(d.slot, seen[h])
           /\ d.ok => \E content \in seen[h] : content[b] = d.version
  <1>1. SlotSound(cache[h], seen[h]) /\ source.rows \in seen[h]
    BY DEF HandleInv
  <1>2. SlotSound(EmptyCache, seen[h])
    BY Numbering DEF SlotSound, EmptyCache
  <1>3. CASE cache[h].block = b
    BY <1>1, <1>3 DEF DecodeKeyBlock, SlotSound
  <1>4. CASE cache[h].block # b
    BY <1>1, <1>2, <1>4 DEF DecodeKeyBlock, SlotSound
  <1> QED BY <1>3, <1>4

\* A decode only touches the slot of its handle.
LEMMA DecodeKeepsHandles ==
    ASSUME HandleInv, NEW h \in Handles, opened[h] # None, NEW b \in Blocks,
           NEW d \in DecodeKeyBlock(h, b), cache' = [cache EXCEPT ![h] = d.slot],
           UNCHANGED <<source, seen, opened>>
    PROVE  HandleInv'
  <1>1. SlotSound(d.slot, seen[h])
    BY DecodeSound
  <1>2. cache' = [g \in Handles |-> cache'[g]] /\ \A g \in Handles : SlotSound(cache'[g], seen[g])
    BY <1>1 DEF HandleInv
  <1> QED BY <1>2 DEF HandleInv, Stamp

-----------------------------------------------------------------------------

LEMMA InitSound == Init => IInv
  <1> SUFFICES ASSUME Init PROVE IInv
    OBVIOUS
  <1>1. PICK v \in Versions :
          source = [rows |-> [b \in Blocks |-> v], len |-> 0, time |-> 0,
                    edits |-> 0, shown |-> TRUE]
    BY DEF Init
  <1>2. Stamp = [len |-> 0, time |-> 0] /\ truth = [s \in {Stamp} |-> {source.rows}]
    BY <1>1 DEF Init, Stamp
  <1>3. SourceInv
    BY <1>1, <1>2 DEF SourceInv, Stamps, Contents
  <1>4. HandleInv
    BY Numbering DEF Init, HandleInv, SlotSound, EmptyCache
  <1>5. BuildInv /\ FileInv
    BY DEF Init, BuildInv, FileInv, NoBuild
  <1>6. IndexInv /\ CallInv /\ ReturnInv
    BY DEF Init, IndexInv, CallInv, ReturnInv, None
  <1> QED BY <1>3, <1>4, <1>5, <1>6 DEF IInv

\* MdxFile::open: the handle has seen the source as it is.
LEMMA OpenSourceSound ==
    ASSUME IInv, NEW h \in Handles, OpenSource(h)
    PROVE  IInv'
  <1>1. /\ UNCHANGED <<source, truth, cache, build, file, index, call>> /\ opened[h] = None
        /\ opened' = [opened EXCEPT ![h] = Stamp] /\ seen' = [seen EXCEPT ![h] = {source.rows}]
        /\ returned' = None
    BY DEF OpenSource
  <1>2. SourceInv' /\ FileInv' /\ ReturnInv'
    BY <1>1, SourceFrame, FileFrame, NothingReturned DEF IInv
  <1>3. /\ seen' = [g \in Handles |-> IF g = h THEN {source.rows} ELSE seen[g]]
        /\ opened' = [g \in Handles |-> IF g = h THEN Stamp ELSE opened[g]]
    BY <1>1 DEF IInv, HandleInv
  <1>4. Stamp \in Stamps /\ Stamp.time = source.time /\ source.rows \in Contents
    BY StampType DEF IInv, SourceInv
  <1>5. HandleInv'
    <2>1. seen' \in [Handles -> SUBSET Contents] /\ opened' \in [Handles -> Stamps \cup {None}]
      BY <1>3, <1>4 DEF IInv, HandleInv
    <2>2. cache' = [g \in Handles |-> cache'[g]]
      BY <1>1 DEF IInv, HandleInv
    <2>3. ASSUME NEW g \in Handles
          PROVE  /\ SlotSound(cache'[g], seen'[g])
                 /\ opened'[g] = None => seen'[g] = {}
                 /\ opened'[g] # None =>
                      /\ opened'[g].time <= source.time
                      /\ source.rows \in seen'[g]
                      /\ source.shown /\ opened'[g] = Stamp => seen'[g] \subseteq {source.rows}
      <3>1. CASE g = h
        <4>1. SlotSound(cache[h], {})
          BY <1>1 DEF IInv, HandleInv
        <4>2. SlotSound(cache[h], {source.rows})
          BY <4>1 DEF SlotSound
        <4> QED BY <1>1, <1>3, <1>4, <3>1, <4>2, StampIsSome, SMT DEF IInv, SourceInv
      <3>2. CASE g # h
        BY <1>1, <1>3, <3>2 DEF IInv, HandleInv
      <3> QED BY <3>1, <3>2
    <2> QED BY <1>1, <2>1, <2>2, <2>3 DEF HandleInv, Stamp
  <1>6. BuildInv'
    BY <1>1, <1>3 DEF IInv, BuildInv, Stamp
  <1>7. IndexInv'
    BY <1>1, <1>3 DEF IInv, IndexInv
  <1>8. CallInv'
    <2>1. ASSUME NEW g \in Handles, call[g] # None
          PROVE  index[g] # None /\ CallSound(g, call[g])'
      <3>1. index[g] # None /\ opened[g] # None /\ CallSound(g, call[g])
        BY <2>1 DEF IInv, CallInv, IndexInv
      <3>2. g # h /\ seen'[g] = seen[g] /\ opened'[g] = opened[g]
        BY <1>1, <1>3, <3>1
      <3> QED BY <1>1, <3>1, <3>2 DEF CallSound, AsNew, Garbled
    <2> QED BY <1>1, <2>1 DEF IInv, CallInv
  <1> QED BY <1>2, <1>5, <1>6, <1>7, <1>8 DEF IInv

\* An edit gives the source a stamp that it has never had, or is not shown by it.
LEMMA EditedSound ==
    ASSUME IInv, NEW rows \in Contents, NEW stamp \in Stamps, Edited(rows, stamp),
           stamp = Stamp \/ stamp.time > source.time
    PROVE  IInv'
  <1>1. /\ source' = [rows |-> rows, len |-> stamp.len, time |-> stamp.time,
                      edits |-> source.edits + 1, shown |-> source.shown /\ stamp # Stamp]
        /\ truth' = [s \in DOMAIN truth \cup {stamp} |->
                        (IF s \in DOMAIN truth THEN truth[s] ELSE {})
                        \cup (IF s = stamp THEN {rows} ELSE {})]
        /\ seen' = [h \in Handles |-> IF opened[h] = None THEN {} ELSE seen[h] \cup {rows}]
        /\ call' = [h \in Handles |-> IF call[h] = None THEN None
                                       ELSE [call[h] EXCEPT !.during = @ \cup {rows}]]
        /\ returned' = None
        /\ UNCHANGED <<cache, opened, build, file, index>>
    BY DEF Edited
  <1>2. /\ source'.rows = rows /\ source'.time = stamp.time /\ Stamp' = stamp
        /\ source'.shown => source.shown /\ stamp.time > source.time
        /\ source.time \in Nat /\ stamp.time \in Nat /\ source.time <= stamp.time
    <2>1. source'.rows = rows /\ source'.time = stamp.time /\ source'.len = stamp.len
          /\ (source'.shown => source.shown /\ stamp # Stamp)
      BY <1>1
    <2>2. Stamp' = stamp
      BY <2>1 DEF Stamp, Stamps
    <2>3. source.time \in Nat /\ Stamp.time = source.time
      BY StampType DEF IInv, SourceInv
    <2> QED BY <2>1, <2>2, <2>3 DEF Stamps
  <1>3. /\ DOMAIN truth' = DOMAIN truth \cup {stamp} /\ rows \in truth'[stamp]
        /\ \A s \in DOMAIN truth : truth[s] \subseteq truth'[s]
    BY <1>1
  <1>4. \A s \in DOMAIN truth : s \in Stamps /\ s.time <= source.time
    BY DEF IInv, SourceInv
  <1>5. source'.shown => stamp \notin DOMAIN truth
    BY <1>2, <1>4 DEF Stamps
  <1>6. SourceInv'
    <2>1. source' \in [rows : Contents, len : Nat, time : Nat, edits : Nat, shown : BOOLEAN]
      BY <1>1 DEF IInv, SourceInv, Stamps
    <2>2. \A s \in DOMAIN truth' : s \in Stamps /\ s.time <= source'.time
      BY <1>2, <1>3, <1>4 DEF Stamps
    <2>3. truth' = [s \in DOMAIN truth' |-> truth'[s]]
      BY <1>1
    <2> QED BY <1>2, <1>3, <2>1, <2>2, <2>3 DEF SourceInv
  <1>7. HandleInv'
    <2>1. seen' \in [Handles -> SUBSET Contents]
      BY <1>1 DEF IInv, HandleInv
    <2>2. ASSUME NEW g \in Handles
          PROVE  /\ SlotSound(cache[g], seen'[g])
                 /\ opened[g] = None => seen'[g] = {}
                 /\ opened[g] # None =>
                      /\ opened[g].time <= source'.time
                      /\ source'.rows \in seen'[g]
                      /\ source'.shown /\ opened[g] = stamp => seen'[g] \subseteq {source'.rows}
      <3>1. /\ SlotSound(cache[g], seen[g])
            /\ opened[g] = None => seen[g] = {}
            /\ opened[g] # None => opened[g] \in Stamps /\ opened[g].time <= source.time
        BY DEF IInv, HandleInv
      <3>2. seen'[g] = IF opened[g] = None THEN {} ELSE seen[g] \cup {rows}
        BY <1>1
      <3>3. SlotSound(cache[g], seen'[g])
        BY <3>1, <3>2 DEF SlotSound
      <3>4. opened[g] # None => /\ opened[g].time <= source'.time
                                /\ source'.shown => opened[g] # stamp
        BY <1>2, <3>1 DEF Stamps
      <3> QED BY <1>2, <3>1, <3>2, <3>3, <3>4
    <2> QED BY <1>1, <1>2, <2>1, <2>2 DEF IInv, HandleInv
  <1>8. BuildInv'
    <2> SUFFICES ASSUME build.phase # "idle" PROVE BuildInv'
      BY <1>1 DEF BuildInv
    <2>1. build.before \in DOMAIN truth
      BY DEF IInv, BuildInv
    <2>2. source'.shown => Stamp' # build.before
      BY <1>2, <1>5, <2>1
    <2> QED BY <1>1, <1>3, <2>1, <2>2 DEF IInv, BuildInv
  <1>9. FileInv' /\ IndexInv'
    <2>1. file # NoFile => file.stamp \in DOMAIN truth
      BY DEF IInv, FileInv
    <2>2. source'.shown /\ file # NoFile => Stamp' # file.stamp
      BY <1>2, <1>5, <2>1
    <2>3. FileInv'
      BY <1>1, <1>3, <2>1, <2>2 DEF IInv, FileInv
    <2>4. IndexInv'
      BY <1>1, <1>2, <1>3, <2>1 DEF IInv, IndexInv
    <2> QED BY <2>3, <2>4
  <1>10. CallInv'
    <2>1. ASSUME NEW g \in Handles, call'[g] # None
          PROVE  index[g] # None /\ CallSound(g, call[g])'
      <3> DEFINE c == call[g]
                 d == call'[g]
      <3>1. c # None /\ index[g] # None /\ CallSound(g, c) /\ opened[g] # None
        BY <1>1, <2>1 DEF IInv, CallInv, IndexInv
      <3>2. d = [c EXCEPT !.during = @ \cup {rows}]
        BY <1>1, <3>1
      <3> HIDE DEF c, d
      <3>3. /\ d.ask = c.ask /\ d.range = c.range /\ d.at = c.at /\ d.exact = c.exact
            /\ d.picked = c.picked /\ d.keys = c.keys /\ d.during = c.during \cup {rows}
            /\ CallShape(d)
        <4>1. CallShape(c)
          BY <3>1 DEF CallSound
        <4>2. c = [tag |-> "call", ask |-> c.ask, range |-> c.range, pass |-> c.pass, at |-> c.at,
                   exact |-> c.exact, others |-> c.others, picked |-> c.picked, keys |-> c.keys,
                   during |-> c.during]
          BY <4>1 DEF CallShape
        <4>3. d = [tag |-> "call", ask |-> c.ask, range |-> c.range, pass |-> c.pass, at |-> c.at,
                   exact |-> c.exact, others |-> c.others, picked |-> c.picked, keys |-> c.keys,
                   during |-> c.during \cup {rows}]
          BY ONLY <3>2, <4>2
        <4>4. /\ d.ask = c.ask /\ d.range = c.range /\ d.at = c.at /\ d.exact = c.exact
              /\ d.picked = c.picked /\ d.keys = c.keys /\ d.during = c.during \cup {rows}
              /\ d.pass = c.pass /\ d.others = c.others
          BY ONLY <4>3
        <4>5. d = [tag |-> "call", ask |-> d.ask, range |-> d.range, pass |-> d.pass, at |-> d.at,
                   exact |-> d.exact, others |-> d.others, picked |-> d.picked, keys |-> d.keys,
                   during |-> d.during]
          BY ONLY <4>3, <4>4
        <4> QED BY <4>1, <4>4, <4>5 DEF CallShape
      <3>4. seen'[g] = seen[g] \cup {rows}
        BY <1>1, <3>1
      <3>5. KeysSound(d.keys, d.ask, seen'[g])
        BY <3>1, <3>3, <3>4 DEF CallSound, KeysSound
      <3>6. source'.shown /\ AsNew(g)' => seen'[g] \subseteq d.during
        BY <1>1, <1>2, <3>1, <3>3, <3>4 DEF CallSound, AsNew
      <3>7. source'.shown /\ file'.fresh => file'.rows \in d.during
        BY <1>1, <1>2, <3>1, <3>3 DEF CallSound
      <3>8. ~Garbled(g)' => KeysOfRows(d.keys, file'.rows)
        BY <1>1, <3>1, <3>3 DEF CallSound, Garbled
      <3> QED BY <3>1, <3>3, <3>5, <3>6, <3>7, <3>8 DEF CallSound, d
    <2>2. call' = [g \in Handles |-> call'[g]]
      BY <1>1
    <2> QED BY <1>1, <2>1, <2>2 DEF CallInv
  <1>11. ReturnInv'
    BY <1>1, NothingReturned
  <1> QED BY <1>6, <1>7, <1>8, <1>9, <1>10, <1>11 DEF IInv

LEMMA EditSound == ASSUME IInv, Edit \/ EditSilently PROVE IInv'
  <1>1. /\ source.rows \in Contents /\ source.len \in Nat /\ source.time \in Nat
        /\ Stamp \in Stamps
    BY StampType DEF IInv, SourceInv
  <1>2. ASSUME NEW b \in Blocks, NEW v \in Versions, NEW grow \in {0, 1},
               Edited([source.rows EXCEPT ![b] = v],
                      [len |-> source.len + grow, time |-> source.time + 1])
        PROVE  IInv'
    <2>1. [source.rows EXCEPT ![b] = v] \in Contents
      BY <1>1 DEF Contents
    <2>2. [len |-> source.len + grow, time |-> source.time + 1] \in Stamps
      BY <1>1 DEF Stamps
    <2>3. [len |-> source.len + grow, time |-> source.time + 1].time > source.time
      BY <1>1
    <2> QED BY <1>2, <2>1, <2>2, <2>3, EditedSound
  <1>3. ASSUME NEW b \in Blocks, NEW v \in Versions, Edited([source.rows EXCEPT ![b] = v], Stamp)
        PROVE  IInv'
    <2>1. [source.rows EXCEPT ![b] = v] \in Contents
      BY <1>1 DEF Contents
    <2> QED BY <1>1, <1>3, <2>1, EditedSound
  <1> QED BY <1>2, <1>3 DEF Edit, EditSilently

LEMMA OtherReadSound ==
    ASSUME IInv, NEW h \in Handles, NEW b \in Blocks, OtherRead(h, b)
    PROVE  IInv'
  <1>1. /\ UNCHANGED <<source, truth, seen, opened, build, file, index, call>> /\ returned' = None
        /\ opened[h] # None
        /\ \E d \in DecodeKeyBlock(h, b) : cache' = [cache EXCEPT ![h] = d.slot]
    BY DEF OtherRead
  <1>2. HandleInv'
    BY <1>1, DecodeKeepsHandles DEF IInv
  <1> QED BY <1>1, <1>2, SourceFrame, BuildFrame, FileFrame, IndexFrame, CallFrame,
             NothingReturned DEF IInv

-----------------------------------------------------------------------------

\* build_index takes the identity of the source before its first row.
LEMMA StartBuildSound ==
    ASSUME IInv, NEW h \in Handles, StartBuild(h)
    PROVE  IInv'
  <1>1. /\ UNCHANGED <<source, truth, seen, cache, opened, file, index, call>> /\ returned' = None
        /\ opened[h] # None
        /\ build' = [phase |-> "scan", handle |-> h, before |-> Stamp, block |-> 0, rows |-> <<>>,
                     fresh |-> opened[h] = Stamp]
    BY DEF StartBuild
  <1>2. Stamp \in DOMAIN truth
    BY DEF IInv, SourceInv
  <1>3. /\ build'.phase = "scan" /\ build'.handle = h /\ build'.before = Stamp /\ build'.block = 0
        /\ build'.rows = <<>> /\ build'.fresh = (opened[h] = Stamp)
    BY <1>1
  <1>4. \A b \in Blocks : ~(b < 0)
    BY Numbering
  <1>5. BuildInv'
    <2>1. build'.fresh => opened[h] = Stamp
      BY <1>3
    <2>2. build'.rows \in Seq(Versions) /\ Len(build'.rows) = 0
      BY <1>3
    <2>3. build' = [phase |-> build'.phase, handle |-> build'.handle, before |-> build'.before,
                    block |-> build'.block, rows |-> build'.rows, fresh |-> build'.fresh]
      BY <1>1
    <2>4. \A b \in Blocks : ~(b < build'.block)
      BY <1>3, <1>4
    <2> QED BY <1>1, <1>2, <1>3, <2>1, <2>2, <2>3, <2>4 DEF BuildInv
  <1> QED BY <1>1, <1>5, SourceFrame, HandleFrame, FileFrame, IndexFrame, CallFrame,
             NothingReturned DEF IInv

\* A build that ends leaves everything else as it is.
LEMMA NoBuildSound ==
    ASSUME BuildInv, build' = NoBuild PROVE BuildInv'
  BY DEF BuildInv, NoBuild

\* A block is decoded for a build.  While a fresh handle's source keeps its stamp,
\* slot and source have the same rows.
LEMMA BuildBlockSound ==
    ASSUME IInv, BuildBlock
    PROVE  IInv'
  <1> DEFINE h == build.handle
             b == build.block
  <1>1. build.phase = "scan" /\ b \in Blocks /\ b \in Nat
    BY Numbering DEF BuildBlock
  <1>2. /\ h \in Handles /\ opened[h] # None /\ build.before \in DOMAIN truth
        /\ build.fresh => opened[h] = build.before
        /\ build = [phase |-> build.phase, handle |-> build.handle, before |-> build.before,
                    block |-> build.block, rows |-> build.rows, fresh |-> build.fresh]
        /\ build.rows \in Seq(Versions) /\ build.block = Len(build.rows)
        /\ source.shown /\ build.fresh /\ Stamp = build.before =>
             \A a \in Blocks : a < build.block => build.rows[a + 1] = source.rows[a]
    BY <1>1 DEF IInv, BuildInv
  <1>3. PICK d \in DecodeKeyBlock(h, b) :
          /\ cache' = [cache EXCEPT ![h] = d.slot]
          /\ IF d.ok
             THEN /\ build' = [build EXCEPT !.block = @ + 1, !.rows = Append(@, d.version)]
                  /\ returned' = None
                  /\ UNCHANGED <<source, truth, seen, opened, file, index, call>>
             ELSE FailBuild
    BY DEF BuildBlock
  <1>4. /\ returned' = None /\ UNCHANGED <<source, truth, seen, opened, file, index, call>>
        /\ build' = NoBuild \/ d.ok
    BY <1>3 DEF FailBuild
  <1>5. HandleInv'
    BY <1>1, <1>2, <1>3, <1>4, DecodeKeepsHandles DEF IInv
  <1>6. CASE ~d.ok
    BY <1>4, <1>5, <1>6, NoBuildSound, SourceFrame, FileFrame, IndexFrame, CallFrame,
       NothingReturned DEF IInv
  <1>7. CASE d.ok
    <2>1. PICK content \in seen[h] : content[b] = d.version
      BY <1>1, <1>2, <1>7, DecodeSound DEF IInv
    <2>2. d.version \in Versions
      BY <1>1, <1>2, <2>1 DEF IInv, HandleInv, Contents
    <2>3. build' = [build EXCEPT !.block = @ + 1, !.rows = Append(@, d.version)]
      BY <1>3, <1>7
    <2>4. build' = [phase |-> "scan", handle |-> h, before |-> build.before, block |-> b + 1,
                    rows |-> Append(build.rows, d.version), fresh |-> build.fresh]
      BY <1>1, <1>2, <2>3
    <2>5. /\ build'.phase = "scan" /\ build'.handle = h /\ build'.before = build.before
          /\ build'.block = b + 1 /\ build'.rows = Append(build.rows, d.version)
          /\ build'.fresh = build.fresh
      BY <2>4
    <2>6. /\ Append(build.rows, d.version) \in Seq(Versions)
          /\ Len(Append(build.rows, d.version)) = b + 1
          /\ \A i \in 1..b : Append(build.rows, d.version)[i] = build.rows[i]
          /\ Append(build.rows, d.version)[b + 1] = d.version
      BY <1>2, <2>2, AppendProperties
    <2>7. ASSUME source.shown, build.fresh, Stamp = build.before
          PROVE  \A a \in Blocks : a < b + 1 =>
                    Append(build.rows, d.version)[a + 1] = source.rows[a]
      <3>1. content = source.rows
        BY <1>2, <2>1, <2>7 DEF IInv, HandleInv
      <3>2. ASSUME NEW a \in Blocks, a < b + 1
            PROVE  Append(build.rows, d.version)[a + 1] = source.rows[a]
        <4>1. a \in Nat
          BY Numbering
        <4>2. CASE a < b
          BY <1>1, <1>2, <2>6, <2>7, <4>1, <4>2
        <4>3. CASE a = b
          BY <2>1, <2>6, <3>1, <4>3
        <4>4. a < b \/ a = b
          <5> HIDE DEF b
          <5> QED BY <1>1, <3>2, <4>1
        <4> QED BY <4>2, <4>3, <4>4
      <3> QED BY <3>2
    <2>8. BuildInv'
      <3>1. Stamp' = Stamp
        BY <1>4 DEF Stamp
      <3>2. build' = [phase |-> build'.phase, handle |-> build'.handle, before |-> build'.before,
                      block |-> build'.block, rows |-> build'.rows, fresh |-> build'.fresh]
        BY <2>4
      <3> QED BY <1>2, <1>4, <2>5, <2>6, <2>7, <3>1, <3>2 DEF BuildInv
    <2> QED BY <1>4, <1>5, <2>8, SourceFrame, FileFrame, IndexFrame, CallFrame,
               NothingReturned DEF IInv
  <1> QED BY <1>6, <1>7

\* No index is open, and no query is under way, where there is no file.
LEMMA NoFileNoIndex ==
    ASSUME IInv, file = NoFile
    PROVE  \A h \in Handles : index[h] = None /\ call[h] = None
  BY DEF IInv, IndexInv, CallInv

\* The path is created: the file is of the rows and the stamp of its build.
LEMMA CreateFileSound ==
    ASSUME IInv, CreateFile
    PROVE  IInv'
  <1>1. /\ UNCHANGED <<source, truth, seen, cache, opened, index, call>> /\ returned' = None
        /\ build.phase = "scan" /\ build.block \notin Blocks /\ file = NoFile
        /\ build' = [build EXCEPT !.phase = "write"]
        /\ file' = [parts |-> 0, stamp |-> build.before, synced |-> FALSE, damaged |-> FALSE,
                    fresh |-> build.fresh, rows |-> [b \in Blocks |-> build.rows[b + 1]]]
    BY DEF CreateFile
  <1>2. /\ build.handle \in Handles /\ opened[build.handle] # None
        /\ build.before \in DOMAIN truth
        /\ build.fresh => opened[build.handle] = build.before
        /\ build = [phase |-> build.phase, handle |-> build.handle, before |-> build.before,
                    block |-> build.block, rows |-> build.rows, fresh |-> build.fresh]
        /\ build.rows \in Seq(Versions) /\ build.block = Len(build.rows)
        /\ source.shown /\ build.fresh /\ Stamp = build.before =>
             \A a \in Blocks : a < build.block => build.rows[a + 1] = source.rows[a]
    BY <1>1 DEF IInv, BuildInv
  <1>3. /\ file'.parts = 0 /\ file'.stamp = build.before /\ file'.fresh = build.fresh
        /\ file'.rows = [b \in Blocks |-> build.rows[b + 1]]
        /\ file' = [parts |-> file'.parts, stamp |-> file'.stamp, synced |-> file'.synced,
                    damaged |-> file'.damaged, fresh |-> file'.fresh, rows |-> file'.rows]
    BY <1>1
  <1>4. file' # NoFile
    <2>1. "stamp" \in DOMAIN file' /\ "stamp" \notin DOMAIN NoFile
      BY <1>1 DEF NoFile
    <2> QED BY <2>1
  <1>5. \A b \in Blocks : b < build.block
    BY <1>1, <1>2, Numbering
  <1>6. Stamp' = Stamp
    BY <1>1 DEF Stamp
  <1>7. FileInv'
    <2>1. ASSUME source.shown, build.fresh, Stamp = build.before
          PROVE  file'.rows = source.rows
      <3>1. source.rows \in [Blocks -> Versions]
        BY DEF IInv, SourceInv, Contents
      <3> QED BY <1>2, <1>3, <1>5, <2>1, <3>1
    <2> QED BY <1>1, <1>2, <1>3, <1>6, <2>1 DEF FileInv, AllParts
  <1>8. BuildInv'
    <2>1. build' = [phase |-> "write", handle |-> build.handle, before |-> build.before,
                    block |-> build.block, rows |-> build.rows, fresh |-> build.fresh]
      BY <1>1, <1>2
    <2>2. /\ build'.phase = "write" /\ build'.handle = build.handle
          /\ build'.before = build.before /\ build'.fresh = build.fresh
          /\ build' = [phase |-> build'.phase, handle |-> build'.handle, before |-> build'.before,
                       block |-> build'.block, rows |-> build'.rows, fresh |-> build'.fresh]
      BY <2>1
    <2> QED BY <1>1, <1>2, <1>3, <1>4, <2>2 DEF BuildInv
  <1>9. IndexInv' /\ CallInv'
    BY <1>1, NoFileNoIndex DEF IInv, IndexInv, CallInv
  <1> QED BY <1>1, <1>7, <1>8, <1>9, SourceFrame, HandleFrame, NothingReturned DEF IInv

\* The file keeps rows, stamp and freshness and does not lose a part that an open
\* index relies on.
FileGrows ==
    /\ file' = [parts |-> file'.parts, stamp |-> file'.stamp, synced |-> file'.synced,
                damaged |-> file'.damaged, fresh |-> file'.fresh, rows |-> file'.rows]
    /\ file'.stamp = file.stamp /\ file'.fresh = file.fresh /\ file'.rows = file.rows
    /\ file'.damaged = file.damaged
    /\ file'.parts \in 0..AllParts /\ (file.parts = AllParts => file'.parts = AllParts)

LEMMA FileGrowsSound ==
    ASSUME IInv, file # NoFile, FileGrows,
           UNCHANGED <<source, truth, seen, cache, opened, index, call>>, returned' = None
    PROVE  /\ file' # NoFile
           /\ SourceInv' /\ HandleInv' /\ FileInv' /\ IndexInv' /\ CallInv' /\ ReturnInv'
  <1>1. file' # NoFile
    <2>1. "stamp" \in DOMAIN file' /\ "stamp" \notin DOMAIN NoFile
      BY DEF NoFile, FileGrows
    <2> QED BY <2>1
  <1>2. SourceInv' /\ HandleInv' /\ ReturnInv'
    BY SourceFrame, HandleFrame, NothingReturned DEF IInv
  <1>3. FileInv'
    BY DEF IInv, FileInv, FileGrows, Stamp
  <1>4. IndexInv'
    BY <1>1 DEF IInv, IndexInv, FileGrows
  <1>5. CallInv'
    <2>1. ASSUME NEW h \in Handles, NEW c, CallSound(h, c) PROVE CallSound(h, c)'
      BY <2>1 DEF CallSound, AsNew, Garbled, FileGrows
    <2> QED BY <2>1 DEF IInv, CallInv
  <1> QED BY <1>1, <1>2, <1>3, <1>4, <1>5

LEMMA WriteSound ==
    ASSUME IInv, WritePart \/ SyncFile
    PROVE  IInv'
  <1>0. /\ UNCHANGED <<source, truth, seen, cache, opened, index, call>> /\ returned' = None
        /\ build.phase = "write"
    BY DEF WritePart, SyncFile
  <1>1. /\ file # NoFile /\ file.stamp = build.before /\ file.fresh = build.fresh
        /\ build.handle \in Handles /\ opened[build.handle] # None
        /\ build.before \in DOMAIN truth
        /\ build.fresh => opened[build.handle] = build.before
        /\ build = [phase |-> build.phase, handle |-> build.handle, before |-> build.before,
                    block |-> build.block, rows |-> build.rows, fresh |-> build.fresh]
    BY <1>0 DEF IInv, BuildInv
  <1>2. /\ file = [parts |-> file.parts, stamp |-> file.stamp, synced |-> file.synced,
                   damaged |-> file.damaged, fresh |-> file.fresh, rows |-> file.rows]
        /\ file.parts \in 0..AllParts
    BY <1>1 DEF IInv, FileInv
  <1>3. CASE WritePart
    <2>1. file.parts < AllParts /\ file' = [file EXCEPT !.parts = @ + 1] /\ build' = build
      BY <1>3 DEF WritePart
    <2>2. file' = [parts |-> file.parts + 1, stamp |-> file.stamp, synced |-> file.synced,
                   damaged |-> file.damaged, fresh |-> file.fresh, rows |-> file.rows]
      BY <1>2, <2>1
    <2>3. file'.parts = file.parts + 1 /\ FileGrows
      BY <1>2, <2>1, <2>2 DEF FileGrows, AllParts
    <2>4. BuildInv'
      BY <1>0, <1>1, <2>1, <2>3, FileGrowsSound DEF BuildInv, FileGrows
    <2> QED BY <1>0, <1>1, <2>3, <2>4, FileGrowsSound DEF IInv
  <1>4. CASE SyncFile
    <2>1. /\ file.parts = AllParts /\ file' = [file EXCEPT !.synced = TRUE]
          /\ build' = [build EXCEPT !.phase = "check"]
      BY <1>4 DEF SyncFile
    <2>2. file' = [parts |-> file.parts, stamp |-> file.stamp, synced |-> TRUE,
                   damaged |-> file.damaged, fresh |-> file.fresh, rows |-> file.rows]
      BY <1>2, <2>1
    <2>3. file'.parts = file.parts /\ file'.synced = TRUE /\ FileGrows
      BY <1>2, <2>1, <2>2 DEF FileGrows, AllParts
    <2>4. build' = [phase |-> "check", handle |-> build.handle, before |-> build.before,
                    block |-> build.block, rows |-> build.rows, fresh |-> build.fresh]
      BY <1>1, <2>1
    <2>5. /\ build'.phase = "check" /\ build'.handle = build.handle
          /\ build'.before = build.before /\ build'.fresh = build.fresh
          /\ build' = [phase |-> build'.phase, handle |-> build'.handle, before |-> build'.before,
                       block |-> build'.block, rows |-> build'.rows, fresh |-> build'.fresh]
      BY <2>4
    <2>6. BuildInv'
      BY <1>0, <1>1, <2>1, <2>3, <2>5, FileGrowsSound DEF BuildInv, FileGrows
    <2> QED BY <1>0, <1>1, <2>3, <2>6, FileGrowsSound DEF IInv
  <1> QED BY <1>3, <1>4

\* The build looks at the source once more and reports: the stamp is what it was
\* before the first row, so a fresh handle's rows are the source's.
LEMMA EndBuildSound ==
    ASSUME IInv, EndBuild
    PROVE  IInv'
  <1>1. /\ UNCHANGED <<source, truth, seen, cache, opened, file, index, call>>
        /\ build.phase = "check" /\ build' = NoBuild
        /\ returned' = IF SourceUnchanged
                       THEN [tag |-> "built", stamp |-> build.before, rows |-> file.rows,
                             fresh |-> build.fresh,
                             durable |-> file.parts = AllParts /\ file.synced]
                       ELSE [tag |-> "source changed"]
    BY DEF EndBuild
  <1>2. /\ build.before \in DOMAIN truth /\ file # NoFile /\ file.stamp = build.before
        /\ file.fresh = build.fresh /\ file.parts = AllParts /\ file.synced
    BY <1>1 DEF IInv, BuildInv
  <1>3. ReturnInv'
    <2>1. CASE ~SourceUnchanged
      BY <1>1, <2>1 DEF ReturnInv
    <2>2. CASE SourceUnchanged
      <3>1. returned' = [tag |-> "built", stamp |-> build.before, rows |-> file.rows,
                         fresh |-> build.fresh,
                         durable |-> file.parts = AllParts /\ file.synced]
        BY <1>1, <2>2
      <3>2. /\ returned'.tag = "built" /\ returned'.stamp = build.before
            /\ returned'.rows = file.rows /\ returned'.fresh = build.fresh
            /\ returned'.durable = (file.parts = AllParts /\ file.synced)
        BY <3>1
      <3>3. returned'.durable
        BY <1>2, <3>2
      <3>4. Stamp = build.before
        <4>1. build.before # None
          BY <1>2, StampIsSome DEF IInv, SourceInv
        <4> QED BY <2>2, <4>1 DEF SourceUnchanged, SourceIdentity
      <3>5. source.shown /\ build.fresh => file.rows \in truth[build.before]
        BY <1>2, <3>4 DEF IInv, FileInv, SourceInv
      <3>6. FreshBuildIsOfItsSource'
        BY <1>1, <3>2, <3>3, <3>5 DEF FreshBuildIsOfItsSource, BuildIsOfItsSource
      <3> QED BY <3>2, <3>6 DEF ReturnInv, FoundIsInSource, StampedRowsAreCurrent
    <2> QED BY <2>1, <2>2
  <1> QED BY <1>1, <1>3, NoBuildSound, SourceFrame, HandleFrame, FileFrame, IndexFrame,
             CallFrame DEF IInv

LEMMA AbortBuildSound ==
    ASSUME IInv, AbortBuild
    PROVE  IInv'
  <1>1. /\ UNCHANGED <<source, truth, seen, cache, opened, file, index, call>>
        /\ build' = NoBuild /\ returned' = None
    BY DEF AbortBuild, FailBuild
  <1> QED BY <1>1, NoBuildSound, SourceFrame, HandleFrame, FileFrame, IndexFrame, CallFrame,
             NothingReturned DEF IInv

\* The process dies: what is left is the source and a file that, damaged or short,
\* has the rows and the stamp that it had.
LEMMA CrashSound ==
    ASSUME IInv, Crash
    PROVE  IInv'
  <1>1. /\ UNCHANGED <<source, truth>> /\ returned' = None /\ build' = NoBuild
        /\ seen' = [h \in Handles |-> {}] /\ cache' = [h \in Handles |-> EmptyCache]
        /\ opened' = [h \in Handles |-> None] /\ index' = [h \in Handles |-> None]
        /\ call' = [h \in Handles |-> None]
    BY DEF Crash
  <1>2. HandleInv'
    BY <1>1, Numbering DEF HandleInv, SlotSound, EmptyCache
  <1>3. IndexInv' /\ CallInv'
    BY <1>1 DEF IndexInv, CallInv
  <1>4. FileInv'
    <2>1. CASE file' = file
      BY <1>1, <2>1, FileFrame DEF IInv
    <2>2. CASE /\ file # NoFile
               /\ \/ file' = [file EXCEPT !.damaged = TRUE]
                  \/ \E p \in 0..(file.parts - 1) : file' = [file EXCEPT !.parts = p]
      <3>1. /\ file = [parts |-> file.parts, stamp |-> file.stamp, synced |-> file.synced,
                       damaged |-> file.damaged, fresh |-> file.fresh, rows |-> file.rows]
            /\ file.parts \in 0..AllParts
            /\ file.stamp \in DOMAIN truth
            /\ source.shown /\ file.fresh /\ Stamp = file.stamp => file.rows = source.rows
        BY <2>2 DEF IInv, FileInv
      <3>2. PICK parts, damaged :
              /\ parts \in 0..AllParts
              /\ file' = [parts |-> parts, stamp |-> file.stamp, synced |-> file.synced,
                          damaged |-> damaged, fresh |-> file.fresh, rows |-> file.rows]
        <4>1. CASE file' = [file EXCEPT !.damaged = TRUE]
          <5>1. file' = [parts |-> file.parts, stamp |-> file.stamp, synced |-> file.synced,
                         damaged |-> TRUE, fresh |-> file.fresh, rows |-> file.rows]
            BY <3>1, <4>1
          <5> QED BY <3>1, <5>1
        <4>2. ASSUME NEW p \in 0..(file.parts - 1), file' = [file EXCEPT !.parts = p]
              PROVE  \E parts, damaged :
                       /\ parts \in 0..AllParts
                       /\ file' = [parts |-> parts, stamp |-> file.stamp, synced |-> file.synced,
                                   damaged |-> damaged, fresh |-> file.fresh, rows |-> file.rows]
          <5>1. file' = [parts |-> p, stamp |-> file.stamp, synced |-> file.synced,
                         damaged |-> file.damaged, fresh |-> file.fresh, rows |-> file.rows]
            BY <3>1, <4>2
          <5>2. p \in 0..AllParts
            BY <3>1 DEF AllParts
          <5> QED BY <5>1, <5>2
        <4> QED BY <2>2, <4>1, <4>2
      <3>3. /\ file'.stamp = file.stamp /\ file'.fresh = file.fresh /\ file'.rows = file.rows
            /\ file'.parts = parts /\ file'.parts \in 0..AllParts
            /\ file' = [parts |-> file'.parts, stamp |-> file'.stamp, synced |-> file'.synced,
                        damaged |-> file'.damaged, fresh |-> file'.fresh, rows |-> file'.rows]
        BY <3>2
      <3> QED BY <1>1, <3>1, <3>3 DEF FileInv, Stamp
    <2> QED BY <2>1, <2>2 DEF Crash
  <1> QED BY <1>1, <1>2, <1>3, <1>4, NoBuildSound, SourceFrame, NothingReturned DEF IInv

LEMMA DiscardSound ==
    ASSUME IInv, Discard
    PROVE  IInv'
  <1>1. /\ UNCHANGED <<source, truth, seen, cache, opened, build>> /\ returned' = None
        /\ build = NoBuild /\ file' = NoFile /\ index' = [h \in Handles |-> None]
        /\ call' = [h \in Handles |-> None]
    BY DEF Discard
  <1>2. FileInv' /\ IndexInv' /\ CallInv'
    BY <1>1 DEF FileInv, IndexInv, CallInv
  <1> QED BY <1>1, <1>2, NoBuildSound, SourceFrame, HandleFrame, NothingReturned DEF IInv

-----------------------------------------------------------------------------

\* open_key_index: the file is complete and of the stamp the source has now.
LEMMA OpenIndexSound ==
    ASSUME IInv, NEW h \in Handles, NEW verify, NEW expected, OpenIndex(h, verify, expected)
    PROVE  IInv'
  <1>1. /\ UNCHANGED <<source, truth, seen, cache, opened, build, file, call>> /\ returned' = None
        /\ opened[h] # None /\ index[h] = None /\ file # NoFile /\ file.parts = AllParts
        /\ file.stamp = Stamp
        /\ index' = [index EXCEPT ![h] = [tag |-> "index", stamp |-> file.stamp, verify |-> verify]]
    BY DEF OpenIndex, FileComplete, DictionaryMatches
  <1>2. source.shown /\ file.fresh => file.rows \in truth[file.stamp]
    BY <1>1 DEF IInv, FileInv, SourceInv
  <1>3. /\ index' = [g \in Handles |-> index'[g]]
        /\ index'[h].stamp = file.stamp /\ \A g \in Handles \ {h} : index'[g] = index[g]
    BY <1>1 DEF IInv, IndexInv
  <1>4. IndexInv'
    <2>1. ASSUME NEW g \in Handles, index'[g] # None
          PROVE  /\ opened[g] # None
                 /\ file # NoFile /\ file.parts = AllParts /\ index'[g].stamp = file.stamp
                 /\ source.shown /\ file.fresh => file.rows \in truth[file.stamp]
      <3>1. CASE g = h
        BY <1>1, <1>2, <1>3, <3>1
      <3>2. CASE g # h
        BY <1>1, <1>3, <2>1, <3>2 DEF IInv, IndexInv
      <3> QED BY <3>1, <3>2
    <2> QED BY <1>1, <1>3, <2>1 DEF IndexInv
  <1>5. CallInv'
    <2>1. ASSUME NEW g \in Handles, call[g] # None
          PROVE  index'[g] # None /\ CallSound(g, call[g])'
      <3>1. index[g] # None /\ CallSound(g, call[g]) /\ g # h
        BY <1>1, <2>1 DEF IInv, CallInv
      <3>2. index'[g] = index[g]
        BY <1>3, <3>1
      <3> QED BY <1>1, <3>1, <3>2 DEF CallSound, AsNew, Garbled
    <2> QED BY <1>1, <2>1 DEF IInv, CallInv
  <1> QED BY <1>1, <1>4, <1>5, SourceFrame, HandleFrame, BuildFrame, FileFrame,
             NothingReturned DEF IInv

\* A question about one key looks for the normalized text of that key; a page is
\* asked for by numbers.
LEMMA AskShape ==
    ASSUME NEW ask \in Asks
    PROVE  /\ ask.op \in {"locate", "variants"} => ask.key \in Queries /\ ask.norms = {ask.key.norm}
           /\ ask.window.offset \in Nat /\ ask.window.limit \in Nat
  <1>1. ASSUME NEW op \in {"locate", "variants"}, NEW q \in Queries, NEW w \in Windows,
               ask = [op |-> op, key |-> q, norms |-> {q.norm}, window |-> w]
        PROVE  /\ ask.key \in Queries /\ ask.norms = {ask.key.norm}
               /\ ask.window.offset \in Nat /\ ask.window.limit \in Nat
    BY <1>1, KeyIndexAssumption
  <1>2. ASSUME NEW p, ask = [op |-> "prefix", norms |-> p, window |-> Whole]
                      \/ ask = [op |-> "scan", norms |-> p, window |-> Whole]
        PROVE  /\ ask.op \notin {"locate", "variants"}
               /\ ask.window.offset \in Nat /\ ask.window.limit \in Nat
    BY <1>2, Numbering DEF Whole
  <1> QED BY <1>1, <1>2 DEF Asks

\* What a search finds, also in a damaged index, are ordinals of the dictionary.
LEMMA SearchFindsOrdinals ==
    ASSUME NEW h, NEW norms, NEW range \in SearchResults(h, norms)
    PROVE  range \in Seq(Ordinals)
  <1>1. CASE range \in IndexOrder(Matching(norms, file.rows), file.rows)
    <2> DEFINE S == Matching(norms, file.rows)
    <2>1. S \subseteq Ordinals
      BY DEF Matching
    <2>2. Cardinality(S) \in Nat
      BY <2>1, KeyIndexAssumption, FS_Subset, FS_CardinalityType
    <2>3. range \in [1..Cardinality(S) -> S]
      BY <1>1 DEF IndexOrder
    <2> HIDE DEF S
    <2> QED BY <2>1, <2>2, <2>3
  <1>2. ASSUME NEW n \in 0..MaxGarbled, range \in [1..n -> Ordinals] PROVE range \in Seq(Ordinals)
    BY <1>2 DEF MaxGarbled
  <1> QED BY <1>1, <1>2 DEF SearchResults

LEMMA PhysicalOrderOfOrdinals == PhysicalOrder \in Seq(Ordinals)
  <1> DEFINE n == Cardinality(Ordinals)
  <1>1. n \in Nat /\ Ordinals = 0..(n - 1)
    BY Numbering, KeyIndexAssumption
  <1> HIDE DEF n
  <1>2. [k \in 1..n |-> k - 1] \in Seq(0..(n - 1))
    BY <1>1
  <1> QED BY <1>1, <1>2 DEF PhysicalOrder, n

\* A query returns or goes on with a sound call: nothing else changes for it.
LEMMA CallReplaced ==
    ASSUME IInv, NEW h \in Handles, NEW c, call' = [call EXCEPT ![h] = c],
           c = None \/ (index[h] # None /\ CallSound(h, c)),
           UNCHANGED <<source, seen, opened, file, index>>
    PROVE  CallInv'
  <1>1. /\ call' = [g \in Handles |-> call'[g]]
        /\ \A g \in Handles : call'[g] = IF g = h THEN c ELSE call[g]
    BY DEF IInv, CallInv
  <1>2. ASSUME NEW g \in Handles, call'[g] # None
        PROVE  index'[g] # None /\ CallSound(g, call[g])'
    <2>1. PICK d : d = call'[g]
      OBVIOUS
    <2>2. index[g] # None /\ CallSound(g, d)
      BY <1>1, <1>2, <2>1 DEF IInv, CallInv
    <2>3. CallSound(g, d)'
      BY <2>2, CallSoundFrame
    <2> QED BY <2>1, <2>2, <2>3
  <1> QED BY <1>1, <1>2 DEF CallInv

\* The stamp is compared and the index searched: a query begins on a source that a
\* fresh handle's index, and a handle as new as the index, agree with.
LEMMA BeginQuerySound ==
    ASSUME IInv, NEW h \in Handles, NEW ask \in Asks, BeginQuery(h, ask)
    PROVE  IInv'
  <1>1. /\ UNCHANGED <<source, truth, seen, cache, opened, build, file, index>>
        /\ index[h] # None
    BY DEF BeginQuery
  <1>2. SourceInv' /\ HandleInv' /\ BuildInv' /\ FileInv' /\ IndexInv'
    BY <1>1, SourceFrame, HandleFrame, BuildFrame, FileFrame, IndexFrame DEF IInv
  <1>3. CASE Return(h, Rejected)
    <2>1. CallInv'
      BY <1>1, <1>3, CallReplaced DEF Return
    <2>2. ReturnInv'
      BY <1>3 DEF Return, Rejected, ReturnInv
    <2> QED BY <1>2, <2>1, <2>2 DEF IInv
  <1>4. CASE Return(h, Answer(h, ask, {source.rows}, 0, <<>>, <<>>))
    <2>1. CallInv'
      BY <1>1, <1>4, CallReplaced DEF Return
    <2>2. ReturnInv'
      BY <1>4 DEF Return, Answer, ReturnInv
    <2> QED BY <1>2, <2>1, <2>2 DEF IInv
  <1>5. ASSUME DictionaryMatches(h, index[h].stamp),
               NEW range \in IF ask.op = "scan" THEN {PhysicalOrder} ELSE SearchResults(h, ask.norms),
               range # <<>>,
               Continue(h, [tag |-> "call", ask |-> ask, range |-> range, pass |-> 1,
                            at |-> 1, exact |-> <<>>, others |-> 0, picked |-> <<>>,
                            keys |-> <<>>, during |-> {source.rows}])
        PROVE  IInv'
    <2>1. PICK c : c = [tag |-> "call", ask |-> ask, range |-> range, pass |-> 1,
                        at |-> 1, exact |-> <<>>, others |-> 0, picked |-> <<>>,
                        keys |-> <<>>, during |-> {source.rows}]
      OBVIOUS
    <2>2. range \in Seq(Ordinals) /\ 1 \in DOMAIN range
      <3>1. range \in Seq(Ordinals)
        BY <1>5, SearchFindsOrdinals, PhysicalOrderOfOrdinals
      <3> QED BY <1>5, <3>1
    <2>3. /\ c.ask = ask /\ c.range = range /\ c.at = 1 /\ c.exact = <<>> /\ c.picked = <<>>
          /\ c.keys = <<>> /\ c.during = {source.rows}
      BY <2>1
    <2>4. DOMAIN c.keys = {}
      BY <2>3
    <2>5. c.exact \in Seq(DOMAIN c.keys) /\ c.picked \in Seq(DOMAIN c.keys)
      BY <2>3
    <2>6. c = [tag |-> "call", ask |-> c.ask, range |-> c.range, pass |-> c.pass, at |-> c.at,
               exact |-> c.exact, others |-> c.others, picked |-> c.picked, keys |-> c.keys,
               during |-> c.during]
      BY <2>1
    <2>7. CallShape(c)
      BY <2>2, <2>3, <2>4, <2>5, <2>6 DEF CallShape
    <2>8. KeysSound(c.keys, c.ask, seen[h]) /\ KeysOfRows(c.keys, file.rows)
      BY <2>4 DEF KeysSound, KeysOfRows
    <2>9. Stamp = index[h].stamp /\ index[h].stamp = file.stamp /\ file # NoFile /\ opened[h] # None
      BY <1>1, <1>5 DEF DictionaryMatches, IInv, IndexInv
    <2>10. source.shown /\ AsNew(h) => seen[h] \subseteq c.during
      BY <2>3, <2>9 DEF AsNew, IInv, HandleInv
    <2>11. source.shown /\ file.fresh => file.rows \in c.during
      BY <2>3, <2>9 DEF IInv, FileInv
    <2>12. CallSound(h, c)
      BY <2>7, <2>8, <2>10, <2>11 DEF CallSound
    <2>13. CallInv'
      BY <1>1, <1>5, <2>1, <2>12, CallReplaced DEF Continue
    <2>14. ReturnInv'
      BY <1>5, NothingReturned DEF Continue
    <2> QED BY <1>2, <2>13, <2>14 DEF IInv
  <1>6. CASE Return(h, [tag |-> "empty"])
    <2>1. CallInv'
      BY <1>1, <1>6, CallReplaced DEF Return
    <2>2. ReturnInv'
      BY <1>6 DEF Return, ReturnInv
    <2> QED BY <1>2, <2>1, <2>2 DEF IInv
  <1> QED BY <1>3, <1>4, <1>5, <1>6 DEF BeginQuery

LEMMA MinOfTwo ==
    ASSUME NEW m \in Int, NEW n \in Int
    PROVE  Min({m, n}) \in Int /\ Min({m, n}) <= m /\ Min({m, n}) <= n
  <1>1. \E x \in {m, n} : \A y \in {m, n} : x <= y
    <2>1. CASE m <= n
      BY <2>1
    <2>2. CASE n <= m
      BY <2>2
    <2> QED BY <2>1, <2>2
  <1>2. Min({m, n}) \in {m, n} /\ \A y \in {m, n} : Min({m, n}) <= y
    BY <1>1 DEF Min
  <1> QED BY <1>2

\* A page of some rows has only such rows.
LEMMA PageOfRows ==
    ASSUME NEW S, NEW rows \in Seq(S), NEW window, window.offset \in Nat, window.limit \in Nat
    PROVE  Page(rows, window) \in Seq(S)
  <1> DEFINE m == window.offset + 1
             n == Min({Len(rows), window.offset + window.limit})
  <1>1. Len(rows) \in Nat /\ window.offset + window.limit \in Int
    OBVIOUS
  <1>2. n \in Int /\ n <= Len(rows)
    <2> DEFINE p == Len(rows)
               q == window.offset + window.limit
    <2>1. p \in Int /\ q \in Int
      BY <1>1
    <2> HIDE DEF p, q
    <2>2. Min({p, q}) \in Int /\ Min({p, q}) <= p
      BY <2>1, MinOfTwo
    <2> QED BY ONLY <2>2 DEF p, q, n
  <1>3. m \in Int /\ 1 <= m
    OBVIOUS
  <1> HIDE DEF m, n
  <1>4. \A i \in m..n : rows[i] \in S
    BY <1>1, <1>2, <1>3
  <1>5. SubSeq(rows, m, n) \in Seq(S)
    BY <1>2, <1>3, <1>4, SubSeqProperties
  <1> QED BY <1>5 DEF Page, m, n

\* The answer of a sound call: each row has a key of the source that matches and is
\* current.
LEMMA FoundSound ==
    ASSUME NEW h, NEW c, CallSound(h, c), returned' = Found(h, c),
           UNCHANGED <<source, seen, opened, file, index>>
    PROVE  ReturnInv'
  <1> DEFINE exactOnly == c.ask.op = "locate" /\ c.exact # <<>>
             rows == IF exactOnly THEN c.exact ELSE c.exact \o c.picked
             total == IF c.ask.op = "variants" THEN Len(c.exact) + c.others ELSE Len(rows)
             K == DOMAIN c.keys
  <1>1. CallShape(c)
    BY DEF CallSound
  <1>2. c.exact \in Seq(K) /\ c.picked \in Seq(K) /\ c.ask \in Asks
    BY <1>1 DEF CallShape
  <1>3. rows \in Seq(K)
    <2>1. c.exact \o c.picked \in Seq(K)
      BY <1>2, ConcatProperties
    <2> QED BY <1>2, <2>1
  <1>4. Page(rows, c.ask.window) \in Seq(K)
    BY <1>2, <1>3, AskShape, PageOfRows
  <1>5. returned' = Answer(h, c.ask, c.during, total, Page(rows, c.ask.window), c.keys)
    BY DEF Found
  <1> HIDE DEF rows, total
  <1>6. /\ returned'.handle = h /\ returned'.ask = c.ask /\ returned'.during = c.during
        /\ returned'.rows = Page(rows, c.ask.window) /\ returned'.keys = c.keys
        /\ returned'.fresh = file.fresh /\ returned'.intact = ~Garbled(h)
        /\ returned'.tag \in {"absent", "found"}
    BY <1>5 DEF Answer
  <1>7. \A k \in DOMAIN returned'.rows : returned'.rows[k] \in K
    BY <1>4, <1>6
  <1>8. /\ KeysSound(c.keys, c.ask, seen[h])
        /\ source.shown /\ AsNew(h) => seen[h] \subseteq c.during
        /\ source.shown /\ file.fresh => file.rows \in c.during
        /\ ~Garbled(h) => KeysOfRows(c.keys, file.rows)
    BY DEF CallSound
  <1>9. FoundIsInSource'
    <2>1. ASSUME NEW k \in DOMAIN returned'.rows
          PROVE  LET o == returned'.rows[k] IN
                 /\ Matches(c.ask, c.keys[o])
                 /\ \E content \in seen[h] : KeyOf(o, content) = c.keys[o]
      BY <1>7, <1>8 DEF KeysSound
    <2> QED BY <1>6, <2>1 DEF FoundIsInSource, Matches
  <1>10. StampedRowsAreCurrent'
    <2>1. ASSUME source.shown, AsNew(h), NEW k \in DOMAIN returned'.rows
          PROVE  LET o == returned'.rows[k] IN
                 \E content \in c.during : KeyOf(o, content) = c.keys[o]
      BY <1>7, <1>8, <2>1 DEF KeysSound
    <2>2. ASSUME source.shown, file.fresh, ~Garbled(h), NEW k \in DOMAIN returned'.rows
          PROVE  LET o == returned'.rows[k] IN
                 \E content \in c.during : /\ KeyOf(o, content).norm = c.keys[o].norm
                                           /\ KeyOf(o, content).digest = c.keys[o].digest
      BY <1>7, <1>8, <2>2 DEF KeysOfRows
    <2>3. (AsNew(returned.handle))' => AsNew(h)
      BY <1>6 DEF AsNew
    <2>4. source'.shown /\ AsNew(returned.handle)' => RowsAreCurrent'
      BY <1>6, <2>1, <2>3 DEF RowsAreCurrent
    <2>5. ASSUME source'.shown, returned'.fresh, returned'.intact,
                 NEW k \in DOMAIN returned'.rows
          PROVE  \E content \in returned'.during :
                     LET now == KeyOf(returned'.rows[k], content)
                         visited == returned'.keys[returned'.rows[k]]
                     IN  now.norm = visited.norm /\ now.digest = visited.digest
      <3>1. source.shown /\ file.fresh /\ ~Garbled(h)
        BY <1>6, <2>5
      <3>2. PICK content \in c.during :
              /\ KeyOf(returned'.rows[k], content).norm = c.keys[returned'.rows[k]].norm
              /\ KeyOf(returned'.rows[k], content).digest = c.keys[returned'.rows[k]].digest
        BY ONLY <2>2, <3>1, k \in DOMAIN returned'.rows
      <3>3. content \in returned'.during /\ c.keys = returned'.keys
        BY <1>6
      <3> QED BY ONLY <3>2, <3>3
    <2> QED BY <2>4, <2>5 DEF StampedRowsAreCurrent
  <1> QED BY <1>6, <1>9, <1>10 DEF ReturnInv, FreshBuildIsOfItsSource

LEMMA MovedFields ==
    ASSUME NEW c, CallShape(c), NEW at, NEW pass
    PROVE  [c EXCEPT !.at = at, !.pass = pass] =
             [tag |-> "call", ask |-> c.ask, range |-> c.range, pass |-> pass, at |-> at,
              exact |-> c.exact, others |-> c.others, picked |-> c.picked, keys |-> c.keys,
              during |-> c.during]
  <1>1. c = [tag |-> "call", ask |-> c.ask, range |-> c.range, pass |-> c.pass, at |-> c.at,
             exact |-> c.exact, others |-> c.others, picked |-> c.picked, keys |-> c.keys,
             during |-> c.during]
    BY DEF CallShape
  <1>2. PICK d : d = [c EXCEPT !.at = at, !.pass = pass]
    OBVIOUS
  <1>3. PICK e : e = [c EXCEPT !.at = at]
    OBVIOUS
  <1>4. e = [tag |-> "call", ask |-> c.ask, range |-> c.range, pass |-> c.pass, at |-> at,
             exact |-> c.exact, others |-> c.others, picked |-> c.picked, keys |-> c.keys,
             during |-> c.during]
    BY ONLY <1>1, <1>3
  <1>5. d = [e EXCEPT !.pass = pass]
    BY ONLY <1>1, <1>2, <1>3
  <1>6. d = [tag |-> "call", ask |-> c.ask, range |-> c.range, pass |-> pass, at |-> at,
             exact |-> c.exact, others |-> c.others, picked |-> c.picked, keys |-> c.keys,
             during |-> c.during]
    BY ONLY <1>4, <1>5
  <1> QED BY <1>2, <1>6

\* A call moved to another row or to its second pass is as sound as it was.
LEMMA CallMoved ==
    ASSUME NEW h, NEW c, CallSound(h, c), NEW at \in DOMAIN c.range, NEW pass, NEW d,
           d = [c EXCEPT !.at = at, !.pass = pass]
    PROVE  CallSound(h, d)
  <1>1. CallShape(c)
    BY DEF CallSound
  <1>2. d = [tag |-> "call", ask |-> c.ask, range |-> c.range, pass |-> pass, at |-> at,
             exact |-> c.exact, others |-> c.others, picked |-> c.picked, keys |-> c.keys,
             during |-> c.during]
    BY <1>1, MovedFields
  <1>3. /\ d.ask = c.ask /\ d.range = c.range /\ d.at = at /\ d.exact = c.exact
        /\ d.picked = c.picked /\ d.keys = c.keys /\ d.during = c.during
        /\ d = [tag |-> "call", ask |-> d.ask, range |-> d.range, pass |-> d.pass, at |-> d.at,
                exact |-> d.exact, others |-> d.others, picked |-> d.picked, keys |-> d.keys,
                during |-> d.during]
    BY ONLY <1>2
  <1>4. CallShape(d)
    BY <1>1, <1>3 DEF CallShape
  <1> QED BY <1>3, <1>4 DEF CallSound

\* After a row the query goes on, begins its second pass, or answers.
LEMMA AdvanceSound ==
    ASSUME IInv, NEW h \in Handles, index[h] # None, NEW c, CallSound(h, c), Advance(h, c),
           UNCHANGED <<source, seen, opened, file, index>>
    PROVE  CallInv' /\ ReturnInv'
  <1>0. c.range \in Seq(Ordinals) /\ c.at \in DOMAIN c.range /\ CallShape(c)
    BY DEF CallSound, CallShape
  <1>1. CASE ~Last(c) /\ Continue(h, [c EXCEPT !.at = @ + 1])
    <2>1. PICK d : d = [c EXCEPT !.at = @ + 1]
      OBVIOUS
    <2>2. c.at + 1 \in DOMAIN c.range
      BY <1>0, <1>1 DEF Last
    <2>3. d = [c EXCEPT !.at = c.at + 1, !.pass = c.pass]
      BY <1>0, <2>1 DEF CallShape
    <2>4. CallSound(h, d)
      BY <2>2, <2>3, CallMoved
    <2> QED BY <1>1, <2>1, <2>4, CallReplaced, NothingReturned DEF Continue
  <1>2. CASE Continue(h, [c EXCEPT !.at = 1, !.pass = 2])
    <2>1. PICK d : d = [c EXCEPT !.at = 1, !.pass = 2]
      OBVIOUS
    <2>2. 1 \in DOMAIN c.range
      BY <1>0
    <2>3. CallSound(h, d)
      BY <2>1, <2>2, CallMoved
    <2> QED BY <1>2, <2>1, <2>3, CallReplaced, NothingReturned DEF Continue
  <1>3. CASE Return(h, Found(h, c))
    BY <1>3, CallReplaced, FoundSound DEF Return
  <1> QED BY <1>1, <1>2, <1>3 DEF Advance

\* What the classification of a row changes in a call.
TakenKeys(c, o, key) ==
    IF Picks(c, key) \/ (c.pass = 1 /\ IsExact(c, key))
    THEN [p \in DOMAIN c.keys \cup {o} |-> IF p = o THEN key ELSE c.keys[p]] ELSE c.keys

ExactAfter(c, o, key) == IF c.pass = 1 /\ IsExact(c, key) THEN Append(c.exact, o) ELSE c.exact

OthersAfter(c, key) ==
    IF c.pass = 1 /\ c.ask.op = "variants" /\ IsVariant(c, key) THEN c.others + 1 ELSE c.others

PickedAfter(c, o, key) == IF Picks(c, key) THEN Append(c.picked, o) ELSE c.picked

LEMMA ClassifiedFields ==
    ASSUME NEW c, CallShape(c), NEW o, NEW key
    PROVE  Classified(c, o, key) =
             [tag |-> "call", ask |-> c.ask, range |-> c.range, pass |-> c.pass, at |-> c.at,
              exact |-> ExactAfter(c, o, key), others |-> OthersAfter(c, key),
              picked |-> PickedAfter(c, o, key), keys |-> TakenKeys(c, o, key),
              during |-> c.during]
  <1> DEFINE exact == ExactAfter(c, o, key)
             others == OthersAfter(c, key)
             picked == PickedAfter(c, o, key)
             ks == TakenKeys(c, o, key)
             d == Classified(c, o, key)
  <1>1. c = [tag |-> "call", ask |-> c.ask, range |-> c.range, pass |-> c.pass, at |-> c.at,
             exact |-> c.exact, others |-> c.others, picked |-> c.picked, keys |-> c.keys,
             during |-> c.during]
    BY DEF CallShape
  <1>2. d = [c EXCEPT !.exact = exact, !.others = others, !.picked = picked, !.keys = ks]
    BY DEF Classified, ExactAfter, OthersAfter, PickedAfter, TakenKeys
  <1> HIDE DEF exact, others, picked, ks, d
  <1>3. d = [tag |-> "call", ask |-> c.ask, range |-> c.range, pass |-> c.pass, at |-> c.at,
              exact |-> exact, others |-> others, picked |-> picked, keys |-> ks,
              during |-> c.during]
    <2>1. PICK e : e = [c EXCEPT !.exact = exact]
      OBVIOUS
    <2>2. e = [tag |-> "call", ask |-> c.ask, range |-> c.range, pass |-> c.pass, at |-> c.at,
               exact |-> exact, others |-> c.others, picked |-> c.picked, keys |-> c.keys,
               during |-> c.during]
      BY ONLY <1>1, <2>1
    <2>3. PICK f : f = [e EXCEPT !.others = others]
      OBVIOUS
    <2>4. f = [tag |-> "call", ask |-> c.ask, range |-> c.range, pass |-> c.pass, at |-> c.at,
               exact |-> exact, others |-> others, picked |-> c.picked, keys |-> c.keys,
               during |-> c.during]
      BY ONLY <2>2, <2>3
    <2>5. PICK g : g = [f EXCEPT !.picked = picked]
      OBVIOUS
    <2>6. g = [tag |-> "call", ask |-> c.ask, range |-> c.range, pass |-> c.pass, at |-> c.at,
               exact |-> exact, others |-> others, picked |-> picked, keys |-> c.keys,
               during |-> c.during]
      BY ONLY <2>4, <2>5
    <2>7. d = [g EXCEPT !.keys = ks]
      BY ONLY <1>1, <1>2, <2>1, <2>3, <2>5
    <2> QED BY ONLY <2>6, <2>7
  <1> QED BY <1>3 DEF exact, others, picked, ks, d

\* verified_source_key and the classification of a row: a key that is taken is the
\* source's, matches the question, and has the text and digest of its row.
LEMMA ClassifiedSound ==
    ASSUME SourceInv, HandleInv, NEW h \in Handles, NEW c, CallSound(h, c), NEW o \in Ordinals,
           NEW content \in seen[h], NEW key, key = KeyOf(o, content),
           NEW row \in IndexRow(h, o), row # Unreadable, Verified(c.ask, row, key)
    PROVE  CallSound(h, Classified(c, o, key))
  <1> DEFINE taken == Picks(c, key) \/ (c.pass = 1 /\ IsExact(c, key))
             keys == [p \in DOMAIN c.keys \cup {o} |-> IF p = o THEN key ELSE c.keys[p]]
             d == Classified(c, o, key)
  <1>1. /\ CallShape(c) /\ KeysSound(c.keys, c.ask, seen[h])
        /\ ~Garbled(h) => KeysOfRows(c.keys, file.rows)
    BY DEF CallSound
  <1>2. /\ c = [tag |-> "call", ask |-> c.ask, range |-> c.range, pass |-> c.pass, at |-> c.at,
                exact |-> c.exact, others |-> c.others, picked |-> c.picked, keys |-> c.keys,
                during |-> c.during]
        /\ c.ask \in Asks /\ DOMAIN c.keys \subseteq Ordinals
        /\ c.exact \in Seq(DOMAIN c.keys) /\ c.picked \in Seq(DOMAIN c.keys)
        /\ c.range \in Seq(Ordinals) /\ c.at \in DOMAIN c.range
    BY <1>1 DEF CallShape
  <1>3. key \in AllKeys
    <2>1. content \in Contents /\ BlockOf[o] \in Blocks
      BY Numbering DEF HandleInv
    <2>2. content[BlockOf[o]] \in Versions
      BY <2>1 DEF Contents
    <2> QED BY <2>2 DEF KeyOf, AllKeys
  <1>4. taken => Matches(c.ask, key)
    <2>1. ASSUME taken, c.ask.op = "variants" PROVE key.folded = c.ask.key.folded
      <3>1. c.ask.key \in Queries
        BY <1>2, <2>1, AskShape
      <3>2. CASE IsVariant(c, key)
        BY <3>2 DEF IsVariant
      <3>3. CASE IsExact(c, key)
        BY <1>3, <3>1, <3>3, KeyTextAssumption DEF IsExact
      <3> QED BY <2>1, <3>2, <3>3 DEF Picks
    <2>2. ASSUME c.ask.op = "locate" PROVE key.norm = c.ask.key.norm
      BY <1>2, <2>2, AskShape DEF Verified
    <2> QED BY <2>1, <2>2 DEF Matches
  <1>5. ~Garbled(h) => KeyOf(o, file.rows).norm = key.norm /\ KeyOf(o, file.rows).digest = key.digest
    BY DEF IndexRow, Verified
  <1>6. /\ DOMAIN keys = DOMAIN c.keys \cup {o} /\ keys[o] = key
        /\ \A p \in DOMAIN c.keys : p # o => keys[p] = c.keys[p]
    OBVIOUS
  <1> HIDE DEF keys
  <1> DEFINE exact == ExactAfter(c, o, key)
             others == OthersAfter(c, key)
             picked == PickedAfter(c, o, key)
             ks == TakenKeys(c, o, key)
  <1>7. ks = IF taken THEN keys ELSE c.keys
    BY DEF TakenKeys, keys
  <1>8. DOMAIN ks \subseteq Ordinals /\ KeysSound(ks, c.ask, seen[h])
        /\ (~Garbled(h) => KeysOfRows(ks, file.rows))
    <2>1. CASE ~taken
      BY <1>1, <1>2, <1>7, <2>1
    <2>2. CASE taken
      <3>1. ks = keys
        BY <1>7, <2>2
      <3>2. DOMAIN keys \subseteq Ordinals
        BY <1>2, <1>6
      <3>3. KeysSound(keys, c.ask, seen[h])
        BY <1>1, <1>4, <1>6, <2>2 DEF KeysSound
      <3>4. ~Garbled(h) => KeysOfRows(keys, file.rows)
        BY <1>1, <1>5, <1>6 DEF KeysOfRows
      <3> QED BY <3>1, <3>2, <3>3, <3>4
    <2> QED BY <2>1, <2>2
  <1>9. exact \in Seq(DOMAIN ks) /\ picked \in Seq(DOMAIN ks)
    <2>1. CASE ~taken
      BY <1>2, <1>7, <2>1 DEF ExactAfter, PickedAfter
    <2>2. CASE taken
      <3>1. ks = keys
        BY <1>7, <2>2
      <3>2. o \in DOMAIN keys /\ c.exact \in Seq(DOMAIN keys) /\ c.picked \in Seq(DOMAIN keys)
        BY <1>2, <1>6
      <3>3. Append(c.exact, o) \in Seq(DOMAIN keys) /\ Append(c.picked, o) \in Seq(DOMAIN keys)
        BY <3>2, AppendProperties
      <3> QED BY <3>1, <3>2, <3>3 DEF ExactAfter, PickedAfter
    <2> QED BY <2>1, <2>2
  <1> HIDE DEF exact, others, picked, ks, d
  <1>10. d = [tag |-> "call", ask |-> c.ask, range |-> c.range, pass |-> c.pass, at |-> c.at,
              exact |-> exact, others |-> others, picked |-> picked, keys |-> ks,
              during |-> c.during]
    BY <1>1, ClassifiedFields DEF exact, others, picked, ks, d
  <1>11. /\ d.ask = c.ask /\ d.range = c.range /\ d.at = c.at /\ d.exact = exact
         /\ d.picked = picked /\ d.keys = ks /\ d.during = c.during
         /\ d = [tag |-> "call", ask |-> d.ask, range |-> d.range, pass |-> d.pass, at |-> d.at,
                 exact |-> d.exact, others |-> d.others, picked |-> d.picked, keys |-> d.keys,
                 during |-> d.during]
    BY ONLY <1>10
  <1>12. CallShape(d)
    BY <1>2, <1>8, <1>9, <1>11 DEF CallShape
  <1>13. CallSound(h, d)
    BY <1>8, <1>11, <1>12 DEF CallSound
  <1> QED BY <1>13 DEF d

\* One row of a query.
LEMMA QueryRowSound ==
    ASSUME IInv, NEW h \in Handles, QueryRow(h)
    PROVE  IInv'
  <1>c. PICK c : c = call[h]
    OBVIOUS
  <1> DEFINE o == c.range[c.at]
  <1>0. UNCHANGED <<source, truth, seen, opened, build, file, index>> /\ c # None
    BY <1>c DEF QueryRow
  <1>1. index[h] # None /\ CallSound(h, c) /\ opened[h] # None
    BY <1>c, <1>0 DEF IInv, CallInv, IndexInv
  <1>2. o \in Ordinals /\ BlockOf[o] \in Blocks
    BY <1>1, Numbering DEF CallSound, CallShape
  <1>3. SourceInv' /\ BuildInv' /\ FileInv' /\ IndexInv'
    BY <1>0, SourceFrame, BuildFrame, FileFrame, IndexFrame DEF IInv
  <1>4. PICK row \in IndexRow(h, o) :
        \/ row = Unreadable /\ Return(h, Rejected) /\ UNCHANGED cache
        \/ row # Unreadable /\ Skips(c, row) /\ Advance(h, c) /\ UNCHANGED cache
        \/ /\ row # Unreadable /\ ~Skips(c, row)
           /\ \E d \in DecodeKeyBlock(h, BlockOf[o]) :
                /\ cache' = [cache EXCEPT ![h] = d.slot]
                /\ \/ ~d.ok /\ Return(h, [tag |-> "io"])
                   \/ d.ok /\ LET key == Keys[d.version][o] IN
                        IF Verified(c.ask, row, key) THEN Advance(h, Classified(c, o, key))
                        ELSE Return(h, Rejected)
    BY <1>c DEF QueryRow
  <1>5. ASSUME NEW a, Return(h, a), a.tag \notin {"built", "found"}
        PROVE  CallInv' /\ ReturnInv'
    <2>1. CallInv'
      BY <1>0, <1>5, CallReplaced DEF Return
    <2>2. ReturnInv'
      BY <1>5 DEF Return, ReturnInv
    <2> QED BY <2>1, <2>2
  <1>6. Return(h, Rejected) => CallInv' /\ ReturnInv'
    BY <1>5 DEF Rejected
  <1>7. UNCHANGED cache => HandleInv'
    BY <1>0, HandleFrame DEF IInv
  <1>8. CASE row = Unreadable /\ Return(h, Rejected) /\ UNCHANGED cache
    BY <1>3, <1>6, <1>7, <1>8 DEF IInv
  <1>9. CASE Advance(h, c) /\ UNCHANGED cache
    BY <1>0, <1>1, <1>3, <1>7, <1>9, AdvanceSound DEF IInv
  <1>10. ASSUME row # Unreadable, NEW d \in DecodeKeyBlock(h, BlockOf[o]),
                cache' = [cache EXCEPT ![h] = d.slot],
                \/ ~d.ok /\ Return(h, [tag |-> "io"])
                \/ d.ok /\ LET key == Keys[d.version][o] IN
                     IF Verified(c.ask, row, key) THEN Advance(h, Classified(c, o, key))
                     ELSE Return(h, Rejected)
         PROVE  IInv'
    <2>1. HandleInv'
      BY <1>0, <1>1, <1>2, <1>10, DecodeKeepsHandles DEF IInv
    <2>2. CASE Return(h, [tag |-> "io"])
      BY <1>3, <1>5, <2>1, <2>2 DEF IInv
    <2>3. CASE Return(h, Rejected)
      BY <1>3, <1>6, <2>1, <2>3 DEF IInv
    <2>4. CASE d.ok /\ Verified(c.ask, row, Keys[d.version][o])
               /\ Advance(h, Classified(c, o, Keys[d.version][o]))
      <3>1. PICK content \in seen[h] : content[BlockOf[o]] = d.version
        BY <1>1, <1>2, <2>4, DecodeSound DEF IInv
      <3>2. Keys[d.version][o] = KeyOf(o, content)
        BY <3>1 DEF KeyOf
      <3>3. CallSound(h, Classified(c, o, Keys[d.version][o]))
        BY <1>1, <1>2, <1>4, <1>10, <2>4, <3>2, ClassifiedSound DEF IInv
      <3>4. CallInv' /\ ReturnInv'
        BY <1>0, <1>1, <2>4, <3>3, AdvanceSound
      <3> QED BY <1>3, <2>1, <3>4 DEF IInv
    <2> QED BY <1>10, <2>2, <2>3, <2>4
  <1> QED BY <1>4, <1>8, <1>9, <1>10

LEMMA StutterSound == ASSUME IInv, UNCHANGED vars PROVE IInv'
  <1>1. UNCHANGED <<source, truth, seen, cache, opened, build, file, index, call, returned>>
    BY DEF vars
  <1>2. ReturnInv'
    BY <1>1 DEF IInv, ReturnInv, FreshBuildIsOfItsSource, BuildIsOfItsSource, FoundIsInSource,
                StampedRowsAreCurrent, RowsAreCurrent, AsNew
  <1> QED BY <1>1, <1>2, SourceFrame, HandleFrame, BuildFrame, FileFrame, IndexFrame, CallFrame
          DEF IInv

LEMMA StepSound == IInv /\ [Next]_vars => IInv'
  <1> SUFFICES ASSUME IInv, [Next]_vars PROVE IInv'
    OBVIOUS
  <1>1. CASE Edit \/ EditSilently
    BY <1>1, EditSound
  <1>2. ASSUME NEW h \in Handles, OpenSource(h) PROVE IInv'
    BY <1>2, OpenSourceSound
  <1>3. ASSUME NEW h \in Handles, NEW b \in Blocks, OtherRead(h, b) PROVE IInv'
    BY <1>3, OtherReadSound
  <1>4. ASSUME NEW h \in Handles, StartBuild(h) PROVE IInv'
    BY <1>4, StartBuildSound
  <1>5. ASSUME NEW h \in Handles, NEW verify \in Policies, NEW expected \in DOMAIN truth,
               OpenIndex(h, verify, expected)
        PROVE  IInv'
    BY <1>5, OpenIndexSound
  <1>6. ASSUME NEW h \in Handles, NEW ask \in Asks, BeginQuery(h, ask) PROVE IInv'
    BY <1>6, BeginQuerySound
  <1>7. ASSUME NEW h \in Handles, QueryRow(h) PROVE IInv'
    BY <1>7, QueryRowSound
  <1>8. CASE BuildBlock
    BY <1>8, BuildBlockSound
  <1>9. CASE CreateFile
    BY <1>9, CreateFileSound
  <1>10. CASE WritePart \/ SyncFile
    BY <1>10, WriteSound
  <1>11. CASE EndBuild
    BY <1>11, EndBuildSound
  <1>12. CASE AbortBuild
    BY <1>12, AbortBuildSound
  <1>13. CASE Crash
    BY <1>13, CrashSound
  <1>14. CASE Discard
    BY <1>14, DiscardSound
  <1>15. CASE UNCHANGED vars
    BY <1>15, StutterSound
  <1> QED BY <1>1, <1>2, <1>3, <1>4, <1>5, <1>6, <1>7, <1>8, <1>9, <1>10, <1>11, <1>12,
             <1>13, <1>14, <1>15 DEF Next

-----------------------------------------------------------------------------

\* build_key_index: for any number of handles and edits, a build that reports success
\* has left a complete and synced file, and a fresh handle's has the rows the source
\* had under the stamp reported where edits move the stamp.
THEOREM BuildsAreOfTheirSource == Spec => []FreshBuildIsOfItsSource
  <1>1. IInv => FreshBuildIsOfItsSource
    BY DEF IInv, ReturnInv, FreshBuildIsOfItsSource
  <1> QED BY InitSound, StepSound, <1>1, PTL DEF Spec

\* open_key_index: what an interrupted, failed or overtaken build leaves does not open.
THEOREM OpenIndexesAreOfTheirSource == Spec => []OpenIsOfItsSource
  <1>1. IInv => OpenIsOfItsSource
    BY DEF IInv, IndexInv, OpenIsOfItsSource
  <1> QED BY InitSound, StepSound, <1>1, PTL DEF Spec

\* locate_with_key_index and the like: every row found has a key that the source has
\* had since the handle was opened and that matches, whatever the index file holds.
THEOREM FoundRowsAreInTheSource == Spec => []FoundIsInSource
  <1>1. IInv => FoundIsInSource
    BY DEF IInv, ReturnInv, FoundIsInSource
  <1> QED BY InitSound, StepSound, <1>1, PTL DEF Spec

\* verified_source_key: the keys that a lookup, a prefix search or a scan returns are
\* the source's while it ran, for a handle as new as its index; for an older one, up to
\* the digest.
THEOREM StampedAnswersAreCurrent == Spec => []StampedRowsAreCurrent
  <1>1. IInv => StampedRowsAreCurrent
    BY DEF IInv, ReturnInv, StampedRowsAreCurrent
  <1> QED BY InitSound, StepSound, <1>1, PTL DEF Spec

-----------------------------------------------------------------------------
(***************************************************************************)
(* That answers are complete.  The order of the index is a strict one, so  *)
(* a set of rows has one enumeration in it; what a query has collected is  *)
(* the enumeration of what it was to collect from the rows behind it.      *)
(***************************************************************************)

Before(p, o, content) ==
    \/ KeyOf(p, content).norm < KeyOf(o, content).norm
    \/ KeyOf(p, content).norm = KeyOf(o, content).norm /\ p < o

RawMatches(ask, rows) == {o \in Ordinals : KeyOf(o, rows).raw = ask.key.raw}

CaseVariants(ask, rows) ==
    {o \in Ordinals : KeyOf(o, rows).raw # ask.key.raw /\ KeyOf(o, rows).folded = ask.key.folded}

\* The members of T among the first n rows of range.
Taken(range, n, T) == {range[i] : i \in 1..n} \cap T

\* What a locate and a case-variant search have collected after n rows of the pass.
LocateProgress(c, n, rows) ==
    LET raw == RawMatches(c.ask, rows) IN
    \/ c.pass = 1 /\ c.picked = <<>> /\ c.exact \in IndexOrder(Taken(c.range, n, raw), rows)
    \/ /\ c.pass = 2 /\ c.exact = <<>> /\ Taken(c.range, Len(c.range), raw) = {}
       /\ c.picked = SubSeq(c.range, 1, n)

VariantsProgress(c, n, rows) ==
    LET raw == RawMatches(c.ask, rows)
        variants == CaseVariants(c.ask, rows)
        counted(m) == /\ c.exact \in IndexOrder(Taken(c.range, m, raw), rows)
                      /\ \E v \in IndexOrder(Taken(c.range, m, variants), rows) : Len(v) = c.others
    IN
    \/ c.pass = 1 /\ c.picked = <<>> /\ counted(n)
    \/ /\ c.pass = 2 /\ counted(Len(c.range))
       /\ c.picked \in IndexOrder(Taken(c.range, n, variants), rows)

Progress(c, n, rows) ==
    /\ c.range \in IF c.ask.op = "scan" THEN {PhysicalOrder}
                   ELSE IndexOrder(Matching(c.ask.norms, rows), rows)
    /\ c.ask.op \in {"prefix", "scan"} =>
          c.pass = 1 /\ c.exact = <<>> /\ c.picked = SubSeq(c.range, 1, n)
    /\ c.ask.op = "locate" => LocateProgress(c, n, rows)
    /\ c.ask.op = "variants" => VariantsProgress(c, n, rows)

\* The query runs on the source that its index and its handle are of.
Undisturbed(h, during) ==
    source.shown /\ AsNew(h) /\ file.fresh /\ ~Garbled(h) /\ during = {file.rows}

ProgressInv ==
    \A h \in Handles : call[h] # None /\ Undisturbed(h, call[h].during) =>
        Progress(call[h], call[h].at - 1, file.rows)

CompleteInv == ProgressInv /\ AnswersComplete

LEMMA KeysOfContents ==
    ASSUME NEW content \in Contents, NEW o \in Ordinals
    PROVE  KeyOf(o, content) \in AllKeys /\ KeyOf(o, content).norm \in Int /\ o \in Nat
  <1>1. content[BlockOf[o]] \in Versions
    BY Numbering DEF Contents
  <1>2. KeyOf(o, content) \in AllKeys
    BY <1>1 DEF KeyOf, AllKeys
  <1> QED BY <1>2, Numbering, KeyTextAssumption

\* The order of the index: normalized text, then ordinal.
LEMMA BeforeIsStrict ==
    ASSUME NEW content \in Contents, NEW p \in Ordinals, NEW o \in Ordinals
    PROVE  ~Before(p, p, content) /\ ~(Before(p, o, content) /\ Before(o, p, content))
  <1>1. KeyOf(p, content).norm \in Int /\ KeyOf(o, content).norm \in Int /\ p \in Nat /\ o \in Nat
    BY KeysOfContents
  <1> QED BY <1>1 DEF Before

LEMMA SetsOfRows ==
    ASSUME NEW T, T \subseteq Ordinals
    PROVE  IsFiniteSet(T) /\ Cardinality(T) \in Nat
  BY KeyIndexAssumption, FS_Subset, FS_CardinalityType

LEMMA OrderShape ==
    ASSUME NEW T, T \subseteq Ordinals, NEW content, NEW rows
    PROVE  rows \in IndexOrder(T, content) <=>
             /\ rows \in [1..Cardinality(T) -> T]
             /\ \A i, j \in 1..Cardinality(T) : i < j => Before(rows[i], rows[j], content)
  BY DEF IndexOrder, Before

LEMMA OrderIsSeq ==
    ASSUME NEW T, T \subseteq Ordinals, NEW content, NEW rows \in IndexOrder(T, content)
    PROVE  rows \in Seq(Ordinals) /\ rows \in Seq(T) /\ Len(rows) = Cardinality(T)
           /\ DOMAIN rows = 1..Cardinality(T)
  <1>1. Cardinality(T) \in Nat
    BY SetsOfRows
  <1>2. rows \in [1..Cardinality(T) -> T]
    BY OrderShape
  <1> DEFINE n == Cardinality(T)
  <1> HIDE DEF n
  <1>3. rows \in [1..n -> T] /\ n \in Nat
    BY <1>1, <1>2 DEF n
  <1>4. rows \in Seq(T) /\ rows \in Seq(Ordinals) /\ Len(rows) = n /\ DOMAIN rows = 1..n
    BY <1>3
  <1> QED BY <1>4 DEF n

\* An enumeration in order leaves no row out.
LEMMA OrderCovers ==
    ASSUME NEW content \in Contents, NEW T, T \subseteq Ordinals, NEW rows \in IndexOrder(T, content)
    PROVE  \A x \in T : \E i \in 1..Cardinality(T) : rows[i] = x
  <1> DEFINE n == Cardinality(T)
  <1>1. IsFiniteSet(T) /\ n \in Nat
    BY SetsOfRows
  <1>2. rows \in [1..n -> T] /\ \A i, j \in 1..n : i < j => Before(rows[i], rows[j], content)
    BY OrderShape
  <1>3. \A i, j \in 1..n : rows[i] = rows[j] => i = j
    <2> SUFFICES ASSUME NEW i \in 1..n, NEW j \in 1..n, rows[i] = rows[j], i # j PROVE FALSE
      OBVIOUS
    <2>1. rows[i] \in Ordinals
      BY <1>2
    <2>2. Before(rows[i], rows[i], content)
      <3>1. i < j \/ j < i
        OBVIOUS
      <3> QED BY <3>1, <1>2
    <2> QED BY <2>1, <2>2, BeforeIsStrict
  <1>4. rows \in Injection(1..n, T)
    BY <1>2, <1>3 DEF Injection, IsInjective
  <1>5. Cardinality(1..n) = n
    <2>1. n \in Int /\ 1 \in Int /\ (IF 1 > n THEN 0 ELSE n - 1 + 1) = n
      BY <1>1
    <2> QED BY <2>1, FS_Interval
  <1>6. rows \in Surjection(1..n, T)
    BY <1>1, <1>4, <1>5, FS_Injection
  <1> QED BY <1>6 DEF Surjection

\* In an enumeration each row has as many rows of the set before it as its place says.
LEMMA OrderRank ==
    ASSUME NEW content \in Contents, NEW T, T \subseteq Ordinals, NEW rows \in IndexOrder(T, content),
           NEW i \in 1..Cardinality(T)
    PROVE  Cardinality({x \in T : Before(x, rows[i], content)}) = i - 1
  <1> DEFINE n == Cardinality(T)
             P == {x \in T : Before(x, rows[i], content)}
             f == [j \in 1..(i - 1) |-> rows[j]]
  <1>1. n \in Nat /\ i \in 1..n
    BY SetsOfRows
  <1>2. rows \in [1..n -> T] /\ \A k, j \in 1..n : k < j => Before(rows[k], rows[j], content)
    BY OrderShape
  <1>3. \A x \in T : \E j \in 1..n : rows[j] = x
    BY OrderCovers
  <1> HIDE DEF n
  <1>4. \A k, j \in 1..n : rows[k] = rows[j] => k = j
    <2> SUFFICES ASSUME NEW k \in 1..n, NEW j \in 1..n, rows[k] = rows[j], k # j PROVE FALSE
      OBVIOUS
    <2>1. rows[k] \in Ordinals
      BY <1>2
    <2>2. k < j \/ j < k
      OBVIOUS
    <2> QED BY <2>1, <2>2, <1>2, BeforeIsStrict
  <1>5. \A j \in 1..(i - 1) : j \in 1..n /\ j < i
    BY <1>1
  <1>6. f \in [1..(i - 1) -> P]
    BY <1>1, <1>2, <1>5
  <1>7. \A x \in P : \E j \in 1..(i - 1) : f[j] = x
    <2> TAKE x \in P
    <2>1. PICK j \in 1..n : rows[j] = x
      BY <1>3
    <2>2. x \in Ordinals /\ rows[i] \in Ordinals /\ Before(x, rows[i], content)
      BY <1>1, <1>2
    <2>3. j # i
      BY <2>1, <2>2, BeforeIsStrict
    <2>4. ~(i < j)
      BY <1>1, <1>2, <2>1, <2>2, BeforeIsStrict
    <2>5. j \in 1..(i - 1)
      BY <1>1, <2>3, <2>4
    <2> QED BY <2>1, <2>5
  <1>8. \A k, j \in 1..(i - 1) : f[k] = f[j] => k = j
    BY <1>4, <1>5
  <1>9. f \in Bijection(1..(i - 1), P)
    BY <1>6, <1>7, <1>8 DEF Bijection, Injection, Surjection, IsInjective
  <1>10. IsFiniteSet(1..(i - 1)) /\ Cardinality(1..(i - 1)) = i - 1
    <2>1. 1 \in Int /\ i - 1 \in Int /\ (IF 1 > i - 1 THEN 0 ELSE (i - 1) - 1 + 1) = i - 1
      BY <1>1
    <2> QED BY <2>1, FS_Interval
  <1>11. Cardinality(P) = Cardinality(1..(i - 1))
    BY <1>9, <1>10, FS_Bijection DEF ExistsBijection
  <1> QED BY <1>10, <1>11

\* The enumeration of a set that has what is before its members begins that of the
\* whole.
LEMMA OrderPrefix ==
    ASSUME NEW content \in Contents, NEW U, U \subseteq Ordinals, NEW T, T \subseteq U,
           \A x \in T, y \in U : Before(y, x, content) => y \in T,
           NEW rows \in IndexOrder(T, content), NEW all \in IndexOrder(U, content)
    PROVE  /\ Cardinality(T) \in Nat /\ Cardinality(U) \in Nat /\ Cardinality(T) <= Cardinality(U)
           /\ \A i \in 1..Cardinality(T) : rows[i] = all[i]
  <1>1. T \subseteq Ordinals
    OBVIOUS
  <1>2. Cardinality(T) \in Nat /\ Cardinality(U) \in Nat /\ Cardinality(T) <= Cardinality(U)
    <2>1. IsFiniteSet(U) /\ Cardinality(T) \in Nat /\ Cardinality(U) \in Nat
      BY <1>1, SetsOfRows
    <2>2. T \in SUBSET U
      OBVIOUS
    <2> QED BY <2>1, <2>2, FS_Subset
  <1>3. ASSUME NEW i \in 1..Cardinality(T) PROVE rows[i] = all[i]
    <2>1. rows[i] \in T
      <3>1. rows \in [1..Cardinality(T) -> T]
        BY <1>1, OrderShape
      <3> QED BY <3>1
    <2>2. PICK j \in 1..Cardinality(U) : all[j] = rows[i]
      BY <2>1, OrderCovers
    <2>3. {x \in T : Before(x, rows[i], content)} = {x \in U : Before(x, all[j], content)}
      <3>1. ASSUME NEW x \in T, Before(x, rows[i], content) PROVE x \in U /\ Before(x, all[j], content)
        BY <2>2, <3>1
      <3>2. ASSUME NEW x \in U, Before(x, all[j], content) PROVE x \in T /\ Before(x, rows[i], content)
        BY <2>1, <2>2, <3>2
      <3> QED BY <3>1, <3>2
    <2>4. Cardinality({x \in T : Before(x, rows[i], content)}) = i - 1
      BY <1>1, <1>3, OrderRank
    <2>5. Cardinality({x \in U : Before(x, all[j], content)}) = j - 1
      BY OrderRank
    <2>6. i - 1 = j - 1
      BY <2>3, <2>4, <2>5
    <2>7. i = j
      BY <2>6
    <2> QED BY <2>2, <2>7
  <1> QED BY <1>2, <1>3

\* There is one enumeration.
LEMMA OrderUnique ==
    ASSUME NEW content \in Contents, NEW T, T \subseteq Ordinals, NEW rows \in IndexOrder(T, content)
    PROVE  (CHOOSE r \in IndexOrder(T, content) : TRUE) = rows
  <1> DEFINE q == CHOOSE r \in IndexOrder(T, content) : TRUE
  <1>1. q \in IndexOrder(T, content)
    OBVIOUS
  <1> HIDE DEF q
  <1>2. \A i \in 1..Cardinality(T) : rows[i] = q[i]
    BY <1>1, OrderPrefix
  <1>3. rows \in [1..Cardinality(T) -> T] /\ q \in [1..Cardinality(T) -> T]
    BY <1>1, OrderShape
  <1>4. q = rows
    <2> DEFINE D == 1..Cardinality(T)
    <2>1. q \in [D -> T] /\ rows \in [D -> T] /\ \A i \in D : rows[i] = q[i]
      BY <1>2, <1>3
    <2> HIDE DEF D
    <2> QED BY ONLY <2>1
  <1> QED BY <1>4 DEF q

LEMMA EmptyOrder == \A content : <<>> \in IndexOrder({}, content) /\ IndexOrder({}, content) = {<<>>}
  <1> TAKE content
  <1>1. Cardinality({}) = 0
    BY FS_EmptySet
  <1>2. ASSUME NEW rows PROVE rows \in IndexOrder({}, content) <=> rows = <<>>
    <2>1. rows \in IndexOrder({}, content) <=> rows \in [1..0 -> {}]
      BY <1>1, OrderShape
    <2>2. ASSUME rows \in [1..0 -> {}] PROVE rows = <<>>
      <3>1. rows \in Seq({}) /\ Len(rows) = 0
        BY <2>2
      <3> QED BY <3>1, EmptySeq
    <2>3. <<>> \in [1..0 -> {}]
      OBVIOUS
    <2> QED BY <2>1, <2>2, <2>3
  <1> QED BY <1>2

\* A row behind all others is the last of the enumeration.
LEMMA OrderAppend ==
    ASSUME NEW content, NEW T, T \subseteq Ordinals, NEW rows \in IndexOrder(T, content),
           NEW o \in Ordinals, o \notin T, \A x \in T : Before(x, o, content)
    PROVE  Append(rows, o) \in IndexOrder(T \cup {o}, content)
  <1> DEFINE n == Cardinality(T)
             q == Append(rows, o)
  <1>1. n \in Nat /\ Cardinality(T \cup {o}) = n + 1
    BY SetsOfRows, FS_AddElement
  <1>2. rows \in [1..n -> T] /\ \A i, j \in 1..n : i < j => Before(rows[i], rows[j], content)
    BY OrderShape
  <1> HIDE DEF n
  <1>3. Len(rows) = n /\ rows \in Seq(T \cup {o})
    BY <1>1, <1>2
  <1>4. /\ q \in Seq(T \cup {o}) /\ Len(q) = n + 1
        /\ \A i \in 1..n : q[i] = rows[i]
        /\ q[n + 1] = o
    <2>1. o \in T \cup {o}
      OBVIOUS
    <2> QED BY <1>1, <1>3, <2>1, AppendProperties
  <1> HIDE DEF q
  <1>5. q \in [1..(n + 1) -> T \cup {o}]
    BY <1>1, <1>4
  <1>6. \A i, j \in 1..(n + 1) : i < j => Before(q[i], q[j], content)
    <2> TAKE i, j \in 1..(n + 1)
    <2> HAVE i < j
    <2>1. i \in 1..n
      BY <1>1
    <2>2. CASE j = n + 1
      BY <1>2, <1>4, <2>1, <2>2
    <2>3. CASE j \in 1..n
      BY <1>2, <1>4, <2>1, <2>3
    <2> QED BY <1>1, <2>2, <2>3
  <1>7. T \cup {o} \subseteq Ordinals
    OBVIOUS
  <1>8. q \in IndexOrder(T \cup {o}, content)
    BY <1>1, <1>5, <1>6, <1>7, OrderShape
  <1> QED BY <1>8 DEF q

-----------------------------------------------------------------------------

\* What a pass has taken grows by the row it looks at, or not.
LEMMA TakenStep ==
    ASSUME NEW content \in Contents, NEW S, S \subseteq Ordinals, NEW range \in IndexOrder(S, content),
           NEW T, NEW n \in 1..Len(range), NEW rows \in IndexOrder(Taken(range, n - 1, T), content)
    PROVE  /\ range[n] \in T => Append(rows, range[n]) \in IndexOrder(Taken(range, n, T), content)
           /\ range[n] \notin T => rows \in IndexOrder(Taken(range, n, T), content)
  <1> DEFINE m == Cardinality(S)
             U == Taken(range, n - 1, T)
             o == range[n]
  <1>1. m \in Nat /\ Len(range) = m
    BY SetsOfRows, OrderIsSeq
  <1>2. range \in [1..m -> S] /\ \A i, j \in 1..m : i < j => Before(range[i], range[j], content)
    BY OrderShape
  <1> HIDE DEF m
  <1>3. o \in Ordinals /\ \A i \in 1..(n - 1) : i \in 1..m /\ range[i] \in Ordinals /\ Before(range[i], o, content)
    BY <1>1, <1>2
  <1>4. U \subseteq Ordinals /\ \A x \in U : Before(x, o, content)
    BY <1>3 DEF Taken
  <1>5. o \notin U
    BY <1>3, <1>4, BeforeIsStrict
  <1>6. {range[i] : i \in 1..n} = {range[i] : i \in 1..(n - 1)} \cup {o}
    <2>1. \A i \in 1..n : i \in 1..(n - 1) \/ i = n
      BY <1>1
    <2>2. n \in 1..n /\ \A i \in 1..(n - 1) : i \in 1..n
      BY <1>1
    <2> QED BY <2>1, <2>2
  <1>7. CASE o \in T
    <2>1. Taken(range, n, T) = U \cup {o}
      BY <1>6, <1>7 DEF Taken
    <2>2. Append(rows, o) \in IndexOrder(U \cup {o}, content)
      <3> HIDE DEF U, o
      <3>1. rows \in IndexOrder(U, content)
        BY DEF U
      <3> QED BY <1>3, <1>4, <1>5, <3>1, OrderAppend
    <2> QED BY <1>7, <2>1, <2>2
  <1>8. CASE o \notin T
    <2>1. Taken(range, n, T) = U
      BY <1>6, <1>8 DEF Taken
    <2> QED BY <1>8, <2>1
  <1> QED BY <1>7, <1>8

LEMMA TakenNone == ASSUME NEW range, NEW T PROVE Taken(range, 0, T) = {}
  BY DEF Taken

\* A whole pass has looked at all of the rows.
LEMMA TakenAll ==
    ASSUME NEW content \in Contents, NEW S, S \subseteq Ordinals, NEW range \in IndexOrder(S, content), NEW T
    PROVE  Taken(range, Len(range), T) = S \cap T
  <1> DEFINE m == Cardinality(S)
  <1>1. m \in Nat /\ Len(range) = m
    BY SetsOfRows, OrderIsSeq
  <1>2. range \in [1..m -> S]
    BY OrderShape
  <1>3. \A x \in S : \E i \in 1..m : range[i] = x
    BY OrderCovers
  <1> HIDE DEF m
  <1>4. {range[i] : i \in 1..m} = S
    BY <1>2, <1>3
  <1> QED BY <1>1, <1>4 DEF Taken

\* What the first n rows give begins what all of them give.
LEMMA TakenPrefix ==
    ASSUME NEW content \in Contents, NEW S, S \subseteq Ordinals, NEW range \in IndexOrder(S, content),
           NEW T, NEW n \in 0..Len(range),
           NEW rows \in IndexOrder(Taken(range, n, T), content),
           NEW all \in IndexOrder(Taken(range, Len(range), T), content)
    PROVE  /\ rows \in Seq(Ordinals) /\ all \in Seq(Ordinals)
           /\ Len(rows) <= Len(all) /\ \A i \in 1..Len(rows) : rows[i] = all[i]
  <1> DEFINE m == Cardinality(S)
             P == Taken(range, n, T)
             U == Taken(range, Len(range), T)
  <1>1. m \in Nat /\ Len(range) = m
    BY SetsOfRows, OrderIsSeq
  <1>2. range \in [1..m -> S] /\ \A i, j \in 1..m : i < j => Before(range[i], range[j], content)
    BY OrderShape
  <1> HIDE DEF m
  <1>3. P \subseteq U
    <2>1. \A i \in 1..n : i \in 1..Len(range)
      BY <1>1
    <2> QED BY <2>1 DEF Taken
  <1>4. U \subseteq Ordinals
    BY <1>1, <1>2 DEF Taken
  <1>5. ASSUME NEW x \in P, NEW y \in U, Before(y, x, content) PROVE y \in P
    <2>1. PICK i \in 1..n : x = range[i]
      BY DEF Taken
    <2>2. PICK j \in 1..m : y = range[j] /\ y \in T
      BY <1>1 DEF Taken
    <2>3. i \in 1..m /\ x \in Ordinals /\ y \in Ordinals
      BY <1>1, <1>2, <2>1, <2>2
    <2>4. ~(i < j)
      <3>1. ~Before(x, y, content)
        BY <1>5, <2>3, BeforeIsStrict
      <3> QED BY <1>2, <2>1, <2>2, <2>3, <3>1
    <2>5. j \in 1..n
      BY <1>1, <2>1, <2>2, <2>3, <2>4
    <2> QED BY <2>2, <2>5 DEF Taken
  <1>6. P \subseteq Ordinals /\ rows \in IndexOrder(P, content) /\ all \in IndexOrder(U, content)
    BY <1>3, <1>4
  <1> HIDE DEF P, U
  <1>7. /\ Cardinality(P) \in Nat /\ Cardinality(U) \in Nat /\ Cardinality(P) <= Cardinality(U)
        /\ \A i \in 1..Cardinality(P) : rows[i] = all[i]
    BY <1>3, <1>4, <1>5, <1>6, OrderPrefix
  <1>8. /\ rows \in Seq(Ordinals) /\ Len(rows) = Cardinality(P)
        /\ all \in Seq(Ordinals) /\ Len(all) = Cardinality(U)
    BY <1>4, <1>6, OrderIsSeq
  <1> QED BY <1>7, <1>8

-----------------------------------------------------------------------------

LEMMA MinIs ==
    ASSUME NEW m \in Int, NEW n \in Int
    PROVE  Min({m, n}) = IF m <= n THEN m ELSE n
  <1>1. \E x \in {m, n} : \A y \in {m, n} : x <= y
    <2>1. CASE m <= n
      BY <2>1
    <2>2. CASE n <= m
      BY <2>2
    <2> QED BY <2>1, <2>2
  <1>2. Min({m, n}) \in {m, n} /\ \A y \in {m, n} : Min({m, n}) <= y
    BY <1>1 DEF Min
  <1> QED BY <1>2

LEMMA SubSeqSame ==
    ASSUME NEW S, NEW s, NEW t, NEW a \in Int, NEW b \in Int,
           \A i \in a..b : s[i] = t[i] /\ t[i] \in S
    PROVE  SubSeq(s, a, b) = SubSeq(t, a, b)
  <1> DEFINE u == SubSeq(s, a, b)
             v == SubSeq(t, a, b)
             k == IF a <= b THEN b - a + 1 ELSE 0
  <1>1. u \in Seq(S) /\ Len(u) = k /\ \A i \in 1..(b - a + 1) : u[i] = s[a + i - 1]
    BY SubSeqProperties
  <1>2. v \in Seq(S) /\ Len(v) = k /\ \A i \in 1..(b - a + 1) : v[i] = t[a + i - 1]
    BY SubSeqProperties
  <1> HIDE DEF u, v
  <1>3. \A i \in 1..k : i \in 1..(b - a + 1) /\ a + i - 1 \in a..b
    OBVIOUS
  <1>4. \A i \in 1..Len(u) : u[i] = v[i]
    BY <1>1, <1>2, <1>3
  <1>5. u = v
    BY <1>1, <1>2, <1>4, SeqEqual
  <1> QED BY <1>5 DEF u, v

\* A page of what has been collected is that page of everything, when nothing that
\* belongs on it is missing.
LEMMA PageOfBeginning ==
    ASSUME NEW rows \in Seq(Ordinals), NEW full \in Seq(Ordinals),
           Len(rows) <= Len(full), \A i \in 1..Len(rows) : rows[i] = full[i],
           NEW window, window.offset \in Nat, window.limit \in Nat,
           \/ Len(rows) = Len(full) \/ window.offset + window.limit <= Len(rows)
           \/ Len(full) <= window.offset \/ window.limit = 0
    PROVE  Page(rows, window) = Page(full, window)
  <1> DEFINE p == Len(rows)
             q == Len(full)
             off == window.offset
             e == window.offset + window.limit
             n == Min({p, e})
             m == Min({q, e})
  <1>1. p \in Nat /\ q \in Nat /\ off \in Nat /\ e \in Nat /\ off <= e /\ p <= q
        /\ (p = q \/ e <= p \/ q <= off \/ e = off)
    OBVIOUS
  <1>2. \A i \in 1..p : rows[i] = full[i] /\ full[i] \in Ordinals
    OBVIOUS
  <1>3. Page(rows, window) = SubSeq(rows, off + 1, n) /\ Page(full, window) = SubSeq(full, off + 1, m)
    BY DEF Page
  <1> HIDE DEF p, q, off, e
  <1>4. n = (IF p <= e THEN p ELSE e) /\ m = (IF q <= e THEN q ELSE e)
    BY <1>1, MinIs
  <1> HIDE DEF n, m
  <1>5. n \in Int /\ m \in Int /\ ((n = m /\ n <= p) \/ (n <= off /\ m <= off))
    BY ONLY <1>1, <1>4
  <1>6. CASE n = m /\ n <= p
    <2>1. \A i \in (off + 1)..n : i \in 1..p
      BY <1>1, <1>5, <1>6
    <2>2. SubSeq(rows, off + 1, n) = SubSeq(full, off + 1, n)
      <3> DEFINE a == off + 1
      <3>1. \A i \in a..n : rows[i] = full[i] /\ full[i] \in Ordinals
        BY <1>2, <2>1
      <3>2. a \in Int
        BY <1>1
      <3> HIDE DEF a
      <3>3. SubSeq(rows, a, n) = SubSeq(full, a, n)
        BY ONLY <1>5, <3>1, <3>2, SubSeqSame
      <3> QED BY <3>3 DEF a
    <2> QED BY <1>3, <1>6, <2>2
  <1>7. CASE n <= off /\ m <= off
    <2>1. SubSeq(rows, off + 1, n) = <<>> /\ SubSeq(full, off + 1, m) = <<>>
      <3>1. off + 1 \in Int /\ n < off + 1 /\ m < off + 1
        BY <1>1, <1>5, <1>7
      <3> QED BY <1>5, <3>1, SubSeqEmpty
    <2> QED BY <1>3, <2>1
  <1> QED BY <1>5, <1>6, <1>7

-----------------------------------------------------------------------------

(***************************************************************************)
(* The rows a question has, by the enumerations a query collects.          *)
(***************************************************************************)

LEMMA AskKinds ==
    ASSUME NEW ask \in Asks
    PROVE  /\ ask.op \in {"locate", "variants", "prefix", "scan"}
           /\ ask.op \in {"prefix", "scan"} => ask.window.offset = 0
  <1>1. ASSUME NEW op \in {"locate", "variants"}, NEW q \in Queries, NEW w \in Windows,
               ask = [op |-> op, key |-> q, norms |-> {q.norm}, window |-> w]
        PROVE  ask.op \in {"locate", "variants"}
    BY <1>1
  <1>2. ASSUME NEW p, ask = [op |-> "prefix", norms |-> p, window |-> Whole]
                      \/ ask = [op |-> "scan", norms |-> p, window |-> Whole]
        PROVE  ask.op \in {"prefix", "scan"} /\ ask.window.offset = 0
    BY <1>2 DEF Whole
  <1> QED BY <1>1, <1>2 DEF Asks

LEMMA MatchingRows == \A norms, content : Matching(norms, content) \subseteq Ordinals
  BY DEF Matching

LEMMA ExpectedOfScan == ASSUME NEW ask, NEW content, ask.op = "scan" PROVE Expected(ask, content) = PhysicalOrder
  BY DEF Expected

LEMMA ExpectedOfPrefix ==
    ASSUME NEW content \in Contents, NEW ask, ask.op = "prefix",
           NEW range \in IndexOrder(Matching(ask.norms, content), content)
    PROVE  Expected(ask, content) = range
  <1>1. (CHOOSE r \in IndexOrder(Matching(ask.norms, content), content) : TRUE) = range
    BY MatchingRows, OrderUnique
  <1> QED BY <1>1, Zenon DEF Expected

LEMMA ExpectedOfLocate ==
    ASSUME NEW content \in Contents, NEW ask, ask.op = "locate",
           NEW range \in IndexOrder(Matching(ask.norms, content), content),
           NEW e \in IndexOrder(Matching(ask.norms, content) \cap RawMatches(ask, content), content)
    PROVE  Expected(ask, content) =
             IF Matching(ask.norms, content) \cap RawMatches(ask, content) # {} THEN e ELSE range
  <1> DEFINE S == Matching(ask.norms, content)
             X == {o \in S : KeyOf(o, content).raw = ask.key.raw}
  <1>1. S \subseteq Ordinals
    BY MatchingRows
  <1>2. X = S \cap RawMatches(ask, content)
    BY <1>1 DEF RawMatches
  <1>3. (CHOOSE r \in IndexOrder(S, content) : TRUE) = range
    BY <1>1, OrderUnique
  <1>4. (CHOOSE r \in IndexOrder(X, content) : TRUE) = e
    <2>1. X \subseteq Ordinals /\ e \in IndexOrder(X, content)
      BY <1>1, <1>2
    <2> HIDE DEF X
    <2> QED BY <2>1, OrderUnique
  <1>5. Expected(ask, content) = IF X # {} THEN (CHOOSE r \in IndexOrder(X, content) : TRUE)
                                 ELSE (CHOOSE r \in IndexOrder(S, content) : TRUE)
    BY Zenon DEF Expected
  <1> HIDE DEF X, S
  <1>6. Expected(ask, content) = IF X # {} THEN e ELSE range
    BY <1>3, <1>4, <1>5
  <1> QED BY <1>2, <1>6 DEF S

LEMMA ExpectedOfVariants ==
    ASSUME NEW content \in Contents, NEW ask, ask.op = "variants",
           NEW e \in IndexOrder(Matching(ask.norms, content) \cap RawMatches(ask, content), content),
           NEW v \in IndexOrder(Matching(ask.norms, content) \cap CaseVariants(ask, content), content)
    PROVE  Expected(ask, content) = e \o v
  <1> DEFINE S == Matching(ask.norms, content)
             X == {o \in S : KeyOf(o, content).raw = ask.key.raw}
             Y == {o \in S \ X : KeyOf(o, content).folded = ask.key.folded}
  <1>1. S \subseteq Ordinals
    BY MatchingRows
  <1>2. X = S \cap RawMatches(ask, content) /\ Y = S \cap CaseVariants(ask, content)
    BY <1>1 DEF RawMatches, CaseVariants
  <1>3. X \subseteq Ordinals /\ Y \subseteq Ordinals
    BY <1>1
  <1>4. Expected(ask, content) = (CHOOSE r \in IndexOrder(X, content) : TRUE)
                                 \o (CHOOSE r \in IndexOrder(Y, content) : TRUE)
    BY Zenon DEF Expected
  <1>5. e \in IndexOrder(X, content) /\ v \in IndexOrder(Y, content)
    BY <1>2
  <1> HIDE DEF X, Y
  <1>6. (CHOOSE r \in IndexOrder(X, content) : TRUE) = e
    BY <1>3, <1>5, OrderUnique
  <1>7. (CHOOSE r \in IndexOrder(Y, content) : TRUE) = v
    BY <1>3, <1>5, OrderUnique
  <1> QED BY <1>4, <1>6, <1>7

-----------------------------------------------------------------------------

\* The answer a is right of these contents.
AnswerRight(a, content) ==
    LET rows == Expected(a.ask, content) IN
    /\ a.tag = "absent" => rows = <<>>
    /\ a.ask.op \in {"prefix", "scan"} => a.rows = SubSeq(rows, 1, Len(a.rows))
    /\ a.ask.op \in {"locate", "variants"} => a.rows = Page(rows, a.ask.window) /\ a.total = Len(rows)

LEMMA AnswerFields ==
    ASSUME NEW h, NEW ask, NEW during, NEW total, NEW rows, NEW keys
    PROVE  LET a == Answer(h, ask, during, total, rows, keys) IN
           /\ a.tag \in {"absent", "found"} /\ (a.tag = "absent" => total = 0)
           /\ a.handle = h /\ a.ask = ask /\ a.during = during /\ a.total = total /\ a.rows = rows
           /\ a.fresh = file.fresh /\ a.intact = ~Garbled(h)
  BY DEF Answer

\* A page that begins with the first row is a beginning.
LEMMA FirstPage ==
    ASSUME NEW rows \in Seq(Ordinals), NEW full \in Seq(Ordinals),
           Len(rows) <= Len(full), \A i \in 1..Len(rows) : rows[i] = full[i],
           NEW window, window.offset = 0, window.limit \in Nat
    PROVE  Page(rows, window) = SubSeq(full, 1, Len(Page(rows, window)))
  <1> DEFINE p == Len(rows)
             e == window.offset + window.limit
             n == Min({p, e})
             page == SubSeq(rows, 1, n)
  <1>1. p \in Nat /\ e \in Nat /\ p <= Len(full) /\ Len(full) \in Nat
    OBVIOUS
  <1>2. \A i \in 1..p : rows[i] = full[i] /\ rows[i] \in Ordinals /\ full[i] \in Ordinals
    OBVIOUS
  <1>3. Page(rows, window) = SubSeq(rows, window.offset + 1, n)
    BY DEF Page
  <1>4. window.offset + 1 = 1
    OBVIOUS
  <1>5. Page(rows, window) = page
    BY <1>3, <1>4
  <1> HIDE DEF p, e
  <1>6. n = IF p <= e THEN p ELSE e
    BY <1>1, MinIs
  <1> HIDE DEF n
  <1>7. n \in Nat /\ n <= p
    BY <1>1, <1>6
  <1>8. \A i \in 1..n : rows[i] = full[i] /\ rows[i] \in Ordinals /\ full[i] \in Ordinals
    BY <1>1, <1>2, <1>7
  <1>9. Len(page) = n
    <2>1. 1 \in Int /\ n \in Int /\ \A i \in 1..n : rows[i] \in Ordinals
      BY <1>7, <1>8
    <2>2. Len(page) = IF 1 <= n THEN n - 1 + 1 ELSE 0
      BY <2>1, SubSeqProperties
    <2> QED BY <1>7, <2>2
  <1>10. SubSeq(rows, 1, n) = SubSeq(full, 1, n)
    <2>1. 1 \in Int /\ n \in Int
      BY <1>7
    <2> QED BY <1>8, <2>1, SubSeqSame
  <1> QED BY <1>5, <1>9, <1>10

LEMMA BeginningOf ==
    ASSUME NEW S, NEW s \in Seq(S), NEW n \in 0..Len(s)
    PROVE  /\ SubSeq(s, 1, n) \in Seq(S) /\ Len(SubSeq(s, 1, n)) = n
           /\ \A i \in 1..n : SubSeq(s, 1, n)[i] = s[i]
  <1>1. 1 \in Int /\ n \in Int /\ \A i \in 1..n : s[i] \in S
    OBVIOUS
  <1>2. /\ SubSeq(s, 1, n) \in Seq(S)
        /\ Len(SubSeq(s, 1, n)) = IF 1 <= n THEN n - 1 + 1 ELSE 0
        /\ \A i \in 1..(n - 1 + 1) : SubSeq(s, 1, n)[i] = s[1 + i - 1]
    BY <1>1, SubSeqProperties
  <1>3. n - 1 + 1 = n /\ \A i \in 1..n : 1 + i - 1 = i
    OBVIOUS
  <1> QED BY <1>2, <1>3

LEMMA ConcatNothing == ASSUME NEW S, NEW s \in Seq(S) PROVE s \o <<>> = s /\ <<>> \o s = s
  BY ConcatEmptySeq

\* A prefix search and a scan may stop at any row: what they found is a beginning.
LEMMA ScanRight ==
    ASSUME NEW h, NEW c, CallShape(c), c.ask.op \in {"prefix", "scan"},
           NEW content \in Contents, Progress(c, c.at, content)
    PROVE  AnswerRight(Found(h, c), content)
  <1> DEFINE rows == SubSeq(c.range, 1, c.at)
             a == Found(h, c)
  <1>1. c.range \in Seq(Ordinals) /\ c.at \in 1..Len(c.range) /\ c.ask \in Asks
    BY DEF CallShape
  <1>2. c.exact = <<>> /\ c.picked = rows
    BY DEF Progress
  <1>3. /\ rows \in Seq(Ordinals) /\ Len(rows) = c.at /\ \A i \in 1..c.at : rows[i] = c.range[i]
        /\ c.at \in Nat /\ c.at > 0 /\ c.at <= Len(c.range)
    BY <1>1, BeginningOf
  <1>4. Expected(c.ask, content) = c.range
    <2>1. CASE c.ask.op = "scan"
      BY <2>1, ExpectedOfScan DEF Progress
    <2>2. CASE c.ask.op = "prefix"
      BY <2>2, ExpectedOfPrefix DEF Progress
    <2> QED BY <2>1, <2>2
  <1> HIDE DEF rows
  <1>5. c.exact \o c.picked = rows
    BY <1>2, <1>3, ConcatNothing
  <1>6. a = Answer(h, c.ask, c.during, Len(rows), Page(rows, c.ask.window), c.keys)
    BY <1>5 DEF Found
  <1>7. /\ a.ask = c.ask /\ a.rows = Page(rows, c.ask.window) /\ (a.tag = "absent" => Len(rows) = 0)
    BY <1>6, AnswerFields
  <1>8. Page(rows, c.ask.window) = SubSeq(c.range, 1, Len(Page(rows, c.ask.window)))
    <2>1. c.ask.window.offset = 0 /\ c.ask.window.limit \in Nat
      BY <1>1, AskKinds, AskShape
    <2> QED BY <1>1, <1>3, <2>1, FirstPage
  <1> HIDE DEF a
  <1>9. AnswerRight(a, content)
    BY <1>3, <1>4, <1>7, <1>8 DEF AnswerRight
  <1> QED BY <1>9 DEF a

\* locate answers with the raw matches, or with all rows when there is none.
LEMMA LocateRight ==
    ASSUME NEW h, NEW c, CallShape(c), c.ask.op = "locate",
           NEW content \in Contents, Progress(c, c.at, content), Over(c)
    PROVE  AnswerRight(Found(h, c), content)
  <1> DEFINE S == Matching(c.ask.norms, content)
             raw == RawMatches(c.ask, content)
             rows == IF c.exact # <<>> THEN c.exact ELSE c.exact \o c.picked
             a == Found(h, c)
  <1>1. c.range \in Seq(Ordinals) /\ c.at \in 1..Len(c.range) /\ c.ask \in Asks
    BY DEF CallShape
  <1>2. S \subseteq Ordinals /\ c.range \in IndexOrder(S, content)
    BY MatchingRows DEF Progress
  <1>3. c.at = Len(c.range) /\ ~SecondPass(c)
    BY DEF Over, Last
  <1>4. LocateProgress(c, Len(c.range), content)
    BY <1>3 DEF Progress
  <1>5. Taken(c.range, Len(c.range), raw) = S \cap raw
    BY <1>2, TakenAll
  <1>6. \/ c.exact # <<>> /\ c.exact \in IndexOrder(S \cap raw, content)
        \/ c.exact = <<>> /\ S \cap raw = {} /\ c.picked = c.range
    <2>1. CASE c.pass = 1 /\ c.exact \in IndexOrder(Taken(c.range, Len(c.range), raw), content)
      BY <1>3, <1>5, <2>1 DEF SecondPass, Last
    <2>2. CASE /\ c.pass = 2 /\ c.exact = <<>> /\ Taken(c.range, Len(c.range), raw) = {}
               /\ c.picked = SubSeq(c.range, 1, Len(c.range))
      BY <1>1, <1>5, <2>2, SubSeqFull
    <2> QED BY <1>4, <2>1, <2>2 DEF LocateProgress
  <1>7. rows \in Seq(Ordinals) /\ Len(rows) > 0 /\ Expected(c.ask, content) = rows
    <2>1. CASE c.exact # <<>> /\ c.exact \in IndexOrder(S \cap raw, content)
      <3>1. S \cap raw \subseteq Ordinals /\ S \cap raw # {}
        BY <1>2, <2>1, EmptyOrder
      <3>2. Expected(c.ask, content) = c.exact
        <4>1. Expected(c.ask, content) = IF S \cap raw # {} THEN c.exact ELSE c.range
          BY <1>2, <2>1, ExpectedOfLocate
        <4> QED BY <3>1, <4>1
      <3>3. c.exact \in Seq(Ordinals)
        BY <2>1, <3>1, OrderIsSeq
      <3>4. Len(c.exact) > 0
        BY <2>1, <3>3, EmptySeq
      <3> QED BY <2>1, <3>2, <3>3, <3>4
    <2>2. CASE c.exact = <<>> /\ S \cap raw = {} /\ c.picked = c.range
      <3>1. <<>> \in IndexOrder(S \cap raw, content)
        BY <2>2, EmptyOrder
      <3>2. Expected(c.ask, content) = c.range
        <4>1. Expected(c.ask, content) = IF S \cap raw # {} THEN <<>> ELSE c.range
          BY <1>2, <3>1, ExpectedOfLocate
        <4> QED BY <2>2, <4>1
      <3>3. rows = c.range
        BY <1>1, <2>2, ConcatNothing
      <3>4. Len(c.range) > 0
        BY <1>1
      <3> HIDE DEF rows
      <3> QED BY <1>1, <3>2, <3>3, <3>4
    <2> QED BY <1>6, <2>1, <2>2
  <1>8. a = Answer(h, c.ask, c.during, Len(rows), Page(rows, c.ask.window), c.keys)
    BY DEF Found
  <1> HIDE DEF rows
  <1>9. /\ a.ask = c.ask /\ a.rows = Page(rows, c.ask.window) /\ a.total = Len(rows)
        /\ (a.tag = "absent" => Len(rows) = 0)
    BY <1>8, AnswerFields
  <1> HIDE DEF a
  <1>10. AnswerRight(a, content)
    BY <1>7, <1>9 DEF AnswerRight
  <1> QED BY <1>10 DEF a

LEMMA TwoParts ==
    ASSUME NEW e \in Seq(Ordinals), NEW p \in Seq(Ordinals), NEW v \in Seq(Ordinals),
           Len(p) <= Len(v), \A i \in 1..Len(p) : p[i] = v[i]
    PROVE  /\ e \o p \in Seq(Ordinals) /\ Len(e \o p) = Len(e) + Len(p)
           /\ e \o v \in Seq(Ordinals) /\ Len(e \o v) = Len(e) + Len(v)
           /\ Len(e \o p) <= Len(e \o v)
           /\ \A i \in 1..Len(e \o p) : (e \o p)[i] = (e \o v)[i]
  <1> DEFINE rows == e \o p
             full == e \o v
  <1>1. /\ rows \in Seq(Ordinals) /\ Len(rows) = Len(e) + Len(p)
        /\ \A i \in 1..(Len(e) + Len(p)) : rows[i] = IF i <= Len(e) THEN e[i] ELSE p[i - Len(e)]
    BY ConcatProperties
  <1>2. /\ full \in Seq(Ordinals) /\ Len(full) = Len(e) + Len(v)
        /\ \A i \in 1..(Len(e) + Len(v)) : full[i] = IF i <= Len(e) THEN e[i] ELSE v[i - Len(e)]
    BY ConcatProperties
  <1>3. Len(e) \in Nat /\ Len(p) \in Nat /\ Len(v) \in Nat
    OBVIOUS
  <1> HIDE DEF rows, full
  <1>4. Len(rows) <= Len(full)
    BY <1>1, <1>2, <1>3
  <1>5. ASSUME NEW i \in 1..Len(rows) PROVE rows[i] = full[i]
    <2>1. i \in Nat /\ i \in 1..(Len(e) + Len(p)) /\ i \in 1..(Len(e) + Len(v))
      BY <1>1, <1>3
    <2>2. CASE i <= Len(e)
      <3>1. rows[i] = e[i]
        BY <1>1, <2>1, <2>2
      <3>2. full[i] = e[i]
        BY <1>2, <2>1, <2>2
      <3> QED BY <3>1, <3>2
    <2>3. CASE ~(i <= Len(e))
      <3>1. i - Len(e) \in 1..Len(p)
        BY <1>3, <2>1, <2>3
      <3>2. rows[i] = p[i - Len(e)]
        BY <1>1, <2>1, <2>3
      <3>3. full[i] = v[i - Len(e)]
        BY <1>2, <2>1, <2>3
      <3> QED BY <3>1, <3>2, <3>3
    <2> QED BY <2>2, <2>3
  <1> QED BY <1>1, <1>2, <1>4, <1>5 DEF rows, full

\* select_page stops when it has the page.
LEMMA PageReached ==
    ASSUME NEW exact \in Nat, NEW picked \in Nat, NEW others \in Nat, picked <= others,
           NEW off \in Nat, NEW lim \in Nat, NEW end,
           end = (IF exact + others <= off THEN 0
                  ELSE IF exact + others <= off + lim THEN exact + others ELSE off + lim),
           \/ picked = others
           \/ exact + picked = end
           \/ picked = 0 /\ ~(lim > 0 /\ end > exact)
    PROVE  \/ exact + picked = exact + others \/ off + lim <= exact + picked
           \/ exact + others <= off \/ lim = 0
  OBVIOUS

\* The page of select_page is that of all raw matches and case variants.
LEMMA VariantsRight ==
    ASSUME NEW h, NEW c, CallShape(c), c.ask.op = "variants",
           NEW content \in Contents, Progress(c, c.at, content), Over(c)
    PROVE  AnswerRight(Found(h, c), content)
  <1> DEFINE S == Matching(c.ask.norms, content)
             raw == RawMatches(c.ask, content)
             var == CaseVariants(c.ask, content)
             w == c.ask.window
             rows == c.exact \o c.picked
             total == Len(c.exact) + c.others
             a == Found(h, c)
  <1>1. c.range \in Seq(Ordinals) /\ c.at \in 1..Len(c.range) /\ c.ask \in Asks
    BY DEF CallShape
  <1>2. S \subseteq Ordinals /\ c.range \in IndexOrder(S, content)
    BY MatchingRows DEF Progress
  <1>3. VariantsProgress(c, c.at, content)
    BY DEF Progress
  <1>4. Taken(c.range, Len(c.range), raw) = S \cap raw /\ Taken(c.range, Len(c.range), var) = S \cap var
    BY <1>2, TakenAll
  <1>5. w.offset \in Nat /\ w.limit \in Nat
    BY <1>1, AskShape
  <1>6. c.exact \in IndexOrder(S \cap raw, content) /\ \E v \in IndexOrder(S \cap var, content) : Len(v) = c.others
    <2> DEFINE counted(m) == /\ c.exact \in IndexOrder(Taken(c.range, m, raw), content)
                             /\ \E v \in IndexOrder(Taken(c.range, m, var), content) : Len(v) = c.others
    <2>1. (c.pass = 1 /\ counted(c.at)) \/ (c.pass = 2 /\ counted(Len(c.range)))
      BY <1>3 DEF VariantsProgress
    <2>2. c.pass = 1 => c.at = Len(c.range)
      BY DEF Over, Last
    <2>3. counted(Len(c.range))
      <3> HIDE DEF counted
      <3> QED BY <2>1, <2>2
    <2> QED BY <1>4, <2>3
  <1>7. PICK v \in IndexOrder(S \cap var, content) : Len(v) = c.others
    BY <1>6
  <1> DEFINE full == c.exact \o v
  <1>8. Expected(c.ask, content) = full
    BY <1>6, ExpectedOfVariants
  <1>9. c.exact \in Seq(Ordinals) /\ v \in Seq(Ordinals)
    <2>1. S \cap raw \subseteq Ordinals /\ S \cap var \subseteq Ordinals
      BY <1>2
    <2> QED BY <1>6, <2>1, OrderIsSeq
  <1>10. /\ c.picked \in Seq(Ordinals) /\ Len(c.picked) <= Len(v)
         /\ \A i \in 1..Len(c.picked) : c.picked[i] = v[i]
    <2>1. CASE c.picked = <<>>
      BY <1>9, <2>1
    <2>2. CASE c.picked \in IndexOrder(Taken(c.range, c.at, var), content)
      <3>1. v \in IndexOrder(Taken(c.range, Len(c.range), var), content) /\ c.at \in 0..Len(c.range)
        BY <1>1, <1>4
      <3> HIDE DEF S, var
      <3> QED BY <1>2, <2>2, <3>1, TakenPrefix
    <2> QED BY <1>3, <2>1, <2>2 DEF VariantsProgress
  <1>11. c.others \in Nat /\ Len(c.exact) \in Nat /\ Len(c.picked) \in Nat /\ Len(c.picked) <= c.others
    <2>1. Len(v) \in Nat /\ Len(c.exact) \in Nat /\ Len(c.picked) \in Nat
      BY <1>9, <1>10
    <2> QED BY <1>7, <1>10, <2>1
  <1>12. /\ rows \in Seq(Ordinals) /\ Len(rows) = Len(c.exact) + Len(c.picked)
         /\ full \in Seq(Ordinals) /\ Len(full) = total
         /\ Len(rows) <= Len(full) /\ \A i \in 1..Len(rows) : rows[i] = full[i]
    <2>1. /\ rows \in Seq(Ordinals) /\ Len(rows) = Len(c.exact) + Len(c.picked)
          /\ full \in Seq(Ordinals) /\ Len(full) = Len(c.exact) + Len(v)
          /\ Len(rows) <= Len(full) /\ \A i \in 1..Len(rows) : rows[i] = full[i]
      BY <1>9, <1>10, TwoParts
    <2> HIDE DEF rows, full
    <2> QED BY <1>7, <2>1
  <1> HIDE DEF full
  <1>13. PageEnd(c) = IF total <= w.offset THEN 0
                      ELSE IF total <= w.offset + w.limit THEN total ELSE w.offset + w.limit
    <2>1. total \in Int /\ w.offset + w.limit \in Int
      BY <1>5, <1>11
    <2>2. Min({total, w.offset + w.limit}) = IF total <= w.offset + w.limit THEN total ELSE w.offset + w.limit
      <3> DEFINE x == w.offset + w.limit
      <3> HIDE DEF total, x
      <3>1. Min({total, x}) = IF total <= x THEN total ELSE x
        BY <2>1, MinIs DEF x
      <3> QED BY <3>1 DEF x
    <2> QED BY <2>2 DEF PageEnd
  <1>14. \/ Len(rows) = Len(full) \/ w.offset + w.limit <= Len(rows)
         \/ Len(full) <= w.offset \/ w.limit = 0
    <2>1. \/ Len(c.picked) = c.others
          \/ Len(c.exact) + Len(c.picked) = PageEnd(c)
          \/ Len(c.picked) = 0 /\ ~(w.limit > 0 /\ PageEnd(c) > Len(c.exact))
      <3>1. CASE c.pass = 1
        <4>1. c.picked = <<>> /\ ~(w.limit > 0 /\ PageEnd(c) > Len(c.exact))
          BY <1>3, <3>1 DEF VariantsProgress, Over, Last, SecondPass
        <4>2. Len(c.picked) = 0
          BY <4>1
        <4> QED BY <4>1, <4>2
      <3>2. CASE c.pass # 1 /\ c.at = Len(c.range)
        <4>1. c.pass = 1 \/ c.picked \in IndexOrder(Taken(c.range, c.at, var), content)
          BY <1>3 DEF VariantsProgress
        <4>2. c.picked \in IndexOrder(Taken(c.range, Len(c.range), var), content)
          BY <3>2, <4>1
        <4>3. c.picked \in IndexOrder(S \cap var, content) /\ S \cap var \subseteq Ordinals
          BY <1>2, <1>4, <4>2
        <4>4. Len(c.picked) = Len(v)
          BY <4>3, OrderIsSeq
        <4> QED BY <1>7, <4>4
      <3>3. CASE Len(rows) = PageEnd(c)
        BY <1>12, <3>3
      <3>4. (c.pass = 1) \/ (c.pass # 1 /\ c.at = Len(c.range)) \/ Len(rows) = PageEnd(c)
        BY DEF Over, Last
      <3> QED BY <3>1, <3>2, <3>3, <3>4
    <2> DEFINE ne == Len(c.exact)
               np == Len(c.picked)
               no == c.others
               off == w.offset
               lim == w.limit
               end == PageEnd(c)
    <2>2. /\ ne \in Nat /\ np \in Nat /\ no \in Nat /\ np <= no /\ off \in Nat /\ lim \in Nat
          /\ end = (IF ne + no <= off THEN 0 ELSE IF ne + no <= off + lim THEN ne + no ELSE off + lim)
          /\ (np = no \/ ne + np = end \/ (np = 0 /\ ~(lim > 0 /\ end > ne)))
      BY <1>5, <1>11, <1>13, <2>1
    <2>3. Len(rows) = ne + np /\ Len(full) = ne + no
      BY <1>12
    <2> HIDE DEF ne, np, no, off, lim, end
    <2>4. ne + np = ne + no \/ off + lim <= ne + np \/ ne + no <= off \/ lim = 0
      BY <2>2, PageReached
    <2> HIDE DEF rows
    <2>5. Len(rows) = Len(full) \/ off + lim <= Len(rows) \/ Len(full) <= off \/ lim = 0
      BY ONLY <2>3, <2>4
    <2> QED BY <2>5 DEF off, lim
  <1>15. a = Answer(h, c.ask, c.during, total, Page(rows, w), c.keys)
    BY DEF Found
  <1> HIDE DEF rows, full, total, w
  <1>16. Page(rows, w) = Page(full, w)
    BY <1>5, <1>12, <1>14, PageOfBeginning
  <1>17. /\ a.ask = c.ask /\ a.rows = Page(rows, w) /\ a.total = total /\ (a.tag = "absent" => total = 0)
    BY <1>15, AnswerFields
  <1>18. total = 0 => full = <<>>
    BY <1>12, EmptySeq
  <1> HIDE DEF a
  <1>19. AnswerRight(a, content)
    BY <1>8, <1>12, <1>16, <1>17, <1>18 DEF AnswerRight, w
  <1> QED BY <1>19 DEF a

-----------------------------------------------------------------------------

LEMMA ProgressSame ==
    ASSUME NEW c, NEW d, d.ask = c.ask, d.range = c.range, d.pass = c.pass, d.exact = c.exact,
           d.others = c.others, d.picked = c.picked, NEW n, NEW content, Progress(c, n, content)
    PROVE  Progress(d, n, content)
  BY DEF Progress, LocateProgress, VariantsProgress

LEMMA BeginningGrows ==
    ASSUME NEW S, NEW s \in Seq(S), NEW n \in 1..Len(s)
    PROVE  Append(SubSeq(s, 1, n - 1), s[n]) = SubSeq(s, 1, n)
  <1> DEFINE p == SubSeq(s, 1, n - 1)
             q == SubSeq(s, 1, n)
             r == Append(p, s[n])
  <1>1. n - 1 \in 0..Len(s) /\ n \in 0..Len(s) /\ n \in Nat /\ s[n] \in S
    OBVIOUS
  <1>2. p \in Seq(S) /\ Len(p) = n - 1 /\ \A i \in 1..(n - 1) : p[i] = s[i]
    BY <1>1, BeginningOf
  <1>3. q \in Seq(S) /\ Len(q) = n /\ \A i \in 1..n : q[i] = s[i]
    BY <1>1, BeginningOf
  <1> HIDE DEF p, q
  <1>4. r \in Seq(S) /\ Len(r) = n /\ r[n] = s[n] /\ \A i \in 1..(n - 1) : r[i] = p[i]
    BY <1>1, <1>2, AppendProperties
  <1> HIDE DEF r
  <1>5. \A i \in 1..n : i \in 1..(n - 1) \/ i = n
    BY <1>1
  <1>6. \A i \in 1..Len(r) : r[i] = q[i]
    BY <1>2, <1>3, <1>4, <1>5
  <1>7. r = q
    BY <1>3, <1>4, <1>6, SeqEqual
  <1> QED BY <1>7 DEF r, p, q

\* One more row of a prefix search or a scan.
LEMMA ScanStep ==
    ASSUME NEW c, CallShape(c), c.ask.op \in {"prefix", "scan"},
           NEW content \in Contents, Progress(c, c.at - 1, content), NEW key, NEW d,
           d = Classified(c, c.range[c.at], key)
    PROVE  Progress(d, c.at, content)
  <1> DEFINE o == c.range[c.at]
  <1>1. c.range \in Seq(Ordinals) /\ c.at \in 1..Len(c.range)
    BY DEF CallShape
  <1>2. d.ask = c.ask /\ d.range = c.range /\ d.pass = c.pass
        /\ d.exact = ExactAfter(c, o, key) /\ d.picked = PickedAfter(c, o, key)
    BY ClassifiedFields
  <1>3. d.exact = c.exact /\ d.picked = Append(c.picked, o)
    BY <1>2 DEF ExactAfter, PickedAfter, IsExact, Picks
  <1>4. d.picked = SubSeq(c.range, 1, c.at)
    <2>1. c.picked = SubSeq(c.range, 1, c.at - 1)
      BY DEF Progress
    <2> QED BY <1>1, <1>3, <2>1, BeginningGrows
  <1> QED BY <1>2, <1>3, <1>4 DEF Progress

\* One more row of a locate.
LEMMA LocateStep ==
    ASSUME NEW c, CallShape(c), c.ask.op = "locate",
           NEW content \in Contents, Progress(c, c.at - 1, content), NEW key, NEW d,
           d = Classified(c, c.range[c.at], key), key = KeyOf(c.range[c.at], content)
    PROVE  Progress(d, c.at, content)
  <1> DEFINE o == c.range[c.at]
             S == Matching(c.ask.norms, content)
             raw == RawMatches(c.ask, content)
  <1>1. c.range \in Seq(Ordinals) /\ c.at \in 1..Len(c.range) /\ o \in Ordinals
    BY DEF CallShape
  <1>2. d.ask = c.ask /\ d.range = c.range /\ d.pass = c.pass
        /\ d.exact = ExactAfter(c, o, key) /\ d.picked = PickedAfter(c, o, key)
    BY ClassifiedFields
  <1>3. S \subseteq Ordinals /\ c.range \in IndexOrder(S, content)
    BY MatchingRows DEF Progress
  <1>4. IsExact(c, key) <=> o \in raw
    BY <1>1 DEF IsExact, RawMatches
  <1>5. LocateProgress(d, c.at, content)
    <2>1. CASE c.pass = 1 /\ c.picked = <<>> /\ c.exact \in IndexOrder(Taken(c.range, c.at - 1, raw), content)
      <3>1. d.picked = <<>> /\ d.exact = IF o \in raw THEN Append(c.exact, o) ELSE c.exact
        BY <1>2, <1>4, <2>1 DEF PickedAfter, Picks, ExactAfter
      <3>2. d.exact \in IndexOrder(Taken(c.range, c.at, raw), content)
        <4> HIDE DEF S, raw
        <4> QED BY <1>1, <1>3, <2>1, <3>1, TakenStep
      <3> QED BY <1>2, <2>1, <3>1, <3>2 DEF LocateProgress
    <2>2. CASE /\ c.pass = 2 /\ c.exact = <<>> /\ Taken(c.range, Len(c.range), raw) = {}
               /\ c.picked = SubSeq(c.range, 1, c.at - 1)
      <3>0. c.pass # 1 /\ Picks(c, key)
        BY <2>2 DEF Picks
      <3>1. d.exact = c.exact /\ d.picked = Append(c.picked, o)
        BY <1>2, <3>0 DEF PickedAfter, ExactAfter
      <3>2. d.picked = SubSeq(c.range, 1, c.at)
        BY <1>1, <2>2, <3>1, BeginningGrows
      <3> QED BY <1>2, <2>2, <3>1, <3>2 DEF LocateProgress
    <2>3. LocateProgress(c, c.at - 1, content)
      BY DEF Progress
    <2> QED BY <2>1, <2>2, <2>3 DEF LocateProgress
  <1> QED BY <1>2, <1>5 DEF Progress

\* A row whose digest is not the query's has not its raw text.
LEMMA SkipStep ==
    ASSUME NEW c, CallShape(c), NEW content \in Contents, Progress(c, c.at - 1, content),
           Skips(c, KeyOf(c.range[c.at], content))
    PROVE  Progress(c, c.at, content)
  <1> DEFINE o == c.range[c.at]
             S == Matching(c.ask.norms, content)
             raw == RawMatches(c.ask, content)
  <1>1. c.range \in Seq(Ordinals) /\ c.at \in 1..Len(c.range) /\ o \in Ordinals /\ c.ask \in Asks
    BY DEF CallShape
  <1>2. c.ask.op = "locate" /\ c.pass = 1 /\ KeyOf(o, content).digest # c.ask.key.digest
    BY DEF Skips
  <1>3. o \notin raw
    <2>1. c.ask.key \in Queries /\ KeyOf(o, content) \in AllKeys
      BY <1>1, <1>2, AskShape, KeysOfContents
    <2>2. KeyOf(o, content).raw # c.ask.key.raw
      BY <1>2, <2>1, KeyTextAssumption
    <2> QED BY <2>2 DEF RawMatches
  <1>4. S \subseteq Ordinals /\ c.range \in IndexOrder(S, content)
    BY <1>2, MatchingRows DEF Progress
  <1>5. c.picked = <<>> /\ c.exact \in IndexOrder(Taken(c.range, c.at - 1, raw), content)
    BY <1>2 DEF Progress, LocateProgress
  <1>6. c.exact \in IndexOrder(Taken(c.range, c.at, raw), content)
    <2> HIDE DEF S, raw
    <2> QED BY <1>1, <1>3, <1>4, <1>5, TakenStep
  <1>7. LocateProgress(c, c.at, content)
    BY <1>2, <1>5, <1>6 DEF LocateProgress
  <1> QED BY <1>2, <1>7 DEF Progress

\* One more row of a case-variant search: its first pass counts, its second collects.
LEMMA VariantsStep ==
    ASSUME NEW c, CallShape(c), c.ask.op = "variants",
           NEW content \in Contents, Progress(c, c.at - 1, content), NEW key, NEW d,
           d = Classified(c, c.range[c.at], key), key = KeyOf(c.range[c.at], content)
    PROVE  Progress(d, c.at, content)
  <1> DEFINE o == c.range[c.at]
             S == Matching(c.ask.norms, content)
             raw == RawMatches(c.ask, content)
             var == CaseVariants(c.ask, content)
             n == c.at
             counted(m) == /\ c.exact \in IndexOrder(Taken(c.range, m, raw), content)
                           /\ \E v \in IndexOrder(Taken(c.range, m, var), content) : Len(v) = c.others
  <1>1. c.range \in Seq(Ordinals) /\ n \in 1..Len(c.range) /\ o \in Ordinals
    BY DEF CallShape
  <1>2. d.ask = c.ask /\ d.range = c.range /\ d.pass = c.pass /\ d.others = OthersAfter(c, key)
        /\ d.exact = ExactAfter(c, o, key) /\ d.picked = PickedAfter(c, o, key)
    BY ClassifiedFields
  <1>3. S \subseteq Ordinals /\ c.range \in IndexOrder(S, content)
    BY MatchingRows DEF Progress
  <1>4. (IsExact(c, key) <=> o \in raw) /\ (IsVariant(c, key) <=> o \in var)
    BY <1>1 DEF IsExact, IsVariant, RawMatches, CaseVariants
  <1>5. \/ c.pass = 1 /\ c.picked = <<>> /\ counted(n - 1)
        \/ /\ c.pass = 2 /\ counted(Len(c.range))
           /\ c.picked \in IndexOrder(Taken(c.range, n - 1, var), content)
    BY DEF Progress, VariantsProgress
  <1>6. VariantsProgress(d, n, content)
    <2>1. CASE c.pass = 1 /\ c.picked = <<>> /\ counted(n - 1)
      <3>1. /\ d.picked = <<>> /\ d.exact = IF o \in raw THEN Append(c.exact, o) ELSE c.exact
            /\ d.others = IF o \in var THEN c.others + 1 ELSE c.others
        BY <1>2, <1>4, <2>1 DEF PickedAfter, Picks, ExactAfter, OthersAfter
      <3>2. d.exact \in IndexOrder(Taken(c.range, n, raw), content)
        <4> HIDE DEF S, raw
        <4> QED BY <1>1, <1>3, <2>1, <3>1, TakenStep
      <3>3. PICK v \in IndexOrder(Taken(c.range, n - 1, var), content) : Len(v) = c.others
        BY <2>1
      <3> DEFINE u == IF o \in var THEN Append(v, o) ELSE v
      <3>4. u \in IndexOrder(Taken(c.range, n, var), content)
        <4> HIDE DEF S, var
        <4> QED BY <1>1, <1>3, <3>3, TakenStep
      <3>5. Len(u) = d.others
        <4>1. Taken(c.range, n - 1, var) \subseteq Ordinals
          BY DEF Taken, CaseVariants
        <4>2. v \in Seq(Ordinals)
          BY <4>1, OrderIsSeq
        <4> HIDE DEF var
        <4>3. Len(Append(v, o)) = Len(v) + 1
          BY <1>1, <4>2, AppendProperties
        <4> QED BY <3>1, <3>3, <4>3
      <3> HIDE DEF u
      <3>6. /\ d.pass = 1 /\ d.picked = <<>>
            /\ d.exact \in IndexOrder(Taken(d.range, n, RawMatches(d.ask, content)), content)
            /\ \E x \in IndexOrder(Taken(d.range, n, CaseVariants(d.ask, content)), content) : Len(x) = d.others
        BY <1>2, <2>1, <3>1, <3>2, <3>4, <3>5
      <3> QED BY <3>6 DEF VariantsProgress
    <2>2. CASE /\ c.pass = 2 /\ counted(Len(c.range))
               /\ c.picked \in IndexOrder(Taken(c.range, n - 1, var), content)
      <3>1. /\ d.exact = c.exact /\ d.others = c.others
            /\ d.picked = IF o \in var THEN Append(c.picked, o) ELSE c.picked
        BY <1>2, <1>4, <2>2 DEF PickedAfter, Picks, ExactAfter, OthersAfter
      <3>2. d.picked \in IndexOrder(Taken(c.range, n, var), content)
        <4> HIDE DEF S, var
        <4> QED BY <1>1, <1>3, <2>2, <3>1, TakenStep
      <3>3. /\ d.pass = 2
            /\ d.exact \in IndexOrder(Taken(d.range, Len(d.range), RawMatches(d.ask, content)), content)
            /\ \E x \in IndexOrder(Taken(d.range, Len(d.range), CaseVariants(d.ask, content)), content) : Len(x) = d.others
            /\ d.picked \in IndexOrder(Taken(d.range, n, CaseVariants(d.ask, content)), content)
        BY <1>2, <2>2, <3>1, <3>2
      <3> QED BY <3>3 DEF VariantsProgress
    <2> QED BY <1>5, <2>1, <2>2
  <1> QED BY <1>2, <1>6 DEF Progress

LEMMA ClassifiedStep ==
    ASSUME NEW c, CallShape(c), NEW content \in Contents, Progress(c, c.at - 1, content), NEW key,
           key = KeyOf(c.range[c.at], content)
    PROVE  Progress(Classified(c, c.range[c.at], key), c.at, content)
  <1>1. c.ask.op \in {"locate", "variants", "prefix", "scan"}
    BY AskKinds DEF CallShape
  <1> QED BY <1>1, ScanStep, LocateStep, VariantsStep

\* The second pass begins with what the first has counted.
LEMMA SecondPassStep ==
    ASSUME NEW c, CallShape(c), NEW content \in Contents, Progress(c, c.at, content), SecondPass(c),
           NEW d, d.ask = c.ask, d.range = c.range, d.pass = 2, d.exact = c.exact,
           d.others = c.others, d.picked = c.picked
    PROVE  Progress(d, 0, content)
  <1> DEFINE S == Matching(c.ask.norms, content)
             raw == RawMatches(c.ask, content)
             var == CaseVariants(c.ask, content)
  <1>1. c.pass = 1 /\ c.at = Len(c.range) /\ ((c.ask.op = "locate" /\ c.exact = <<>>) \/ c.ask.op = "variants")
    BY DEF SecondPass, Last
  <1>2. c.range \in Seq(Ordinals)
    BY DEF CallShape
  <1>3. CASE c.ask.op = "locate" /\ c.exact = <<>>
    <2>1. c.picked = <<>> /\ <<>> \in IndexOrder(Taken(c.range, Len(c.range), raw), content)
      BY <1>1, <1>3 DEF Progress, LocateProgress
    <2>2. Taken(c.range, Len(c.range), raw) = {}
      <3> DEFINE T == Taken(c.range, Len(c.range), raw)
      <3>1. T \subseteq Ordinals
        BY DEF Taken, RawMatches
      <3> HIDE DEF T
      <3>2. Cardinality(T) = 0
        <4>1. Len(<<>>) = Cardinality(T)
          BY <2>1, <3>1, OrderIsSeq DEF T
        <4> QED BY <4>1
      <3>3. T = {}
        BY <3>1, <3>2, SetsOfRows, FS_EmptySet
      <3> QED BY <3>3 DEF T
    <2>3. SubSeq(c.range, 1, 0) = <<>>
      BY SubSeqEmpty
    <2>4. LocateProgress(d, 0, content)
      BY <1>3, <2>1, <2>2, <2>3 DEF LocateProgress
    <2> QED BY <1>3, <2>4 DEF Progress
  <1>4. CASE c.ask.op = "variants"
    <2>1. /\ c.picked = <<>> /\ c.exact \in IndexOrder(Taken(c.range, Len(c.range), raw), content)
          /\ \E v \in IndexOrder(Taken(c.range, Len(c.range), var), content) : Len(v) = c.others
      BY <1>1, <1>4 DEF Progress, VariantsProgress
    <2>2. c.picked \in IndexOrder(Taken(c.range, 0, var), content)
      BY <2>1, TakenNone, EmptyOrder
    <2>3. /\ d.pass = 2
          /\ d.exact \in IndexOrder(Taken(d.range, Len(d.range), RawMatches(d.ask, content)), content)
          /\ \E x \in IndexOrder(Taken(d.range, Len(d.range), CaseVariants(d.ask, content)), content) : Len(x) = d.others
          /\ d.picked \in IndexOrder(Taken(d.range, 0, CaseVariants(d.ask, content)), content)
      BY <2>1, <2>2
    <2>4. VariantsProgress(d, 0, content)
      BY <2>3 DEF VariantsProgress
    <2> QED BY <1>4, <2>4 DEF Progress
  <1> QED BY <1>1, <1>3, <1>4

-----------------------------------------------------------------------------

\* A query that begins has collected nothing.
LEMMA FirstProgress ==
    ASSUME NEW c, NEW content, c.ask.op \in {"locate", "variants", "prefix", "scan"},
           c.range \in IF c.ask.op = "scan" THEN {PhysicalOrder}
                       ELSE IndexOrder(Matching(c.ask.norms, content), content),
           c.pass = 1, c.exact = <<>>, c.others = 0, c.picked = <<>>
    PROVE  Progress(c, 0, content)
  <1> DEFINE raw == RawMatches(c.ask, content)
             var == CaseVariants(c.ask, content)
  <1>1. /\ <<>> \in IndexOrder(Taken(c.range, 0, raw), content)
        /\ <<>> \in IndexOrder(Taken(c.range, 0, var), content)
    <2> HIDE DEF raw, var
    <2> QED BY TakenNone, EmptyOrder
  <1>2. c.ask.op = "locate" => LocateProgress(c, 0, content)
    BY <1>1 DEF LocateProgress
  <1>3. c.ask.op = "variants" => VariantsProgress(c, 0, content)
    <2>1. \E v \in IndexOrder(Taken(c.range, 0, var), content) : Len(v) = c.others
      <3>1. Len(<<>>) = 0
        OBVIOUS
      <3> QED BY <1>1, <3>1
    <2> QED BY <1>1, <2>1 DEF VariantsProgress
  <1>4. SubSeq(c.range, 1, 0) = <<>>
    BY SubSeqEmpty
  <1> QED BY <1>2, <1>3, <1>4 DEF Progress

LEMMA NothingToOrder ==
    ASSUME NEW S, S \subseteq Ordinals, NEW content, <<>> \in IndexOrder(S, content)
    PROVE  S = {}
  <1>1. Len(<<>>) = Cardinality(S)
    BY OrderIsSeq
  <1>2. Cardinality(S) = 0
    BY <1>1
  <1> QED BY <1>2, SetsOfRows, FS_EmptySet

\* A search that finds no row: there is none.
LEMMA NothingExpected ==
    ASSUME NEW ask, ask.op \in {"locate", "variants", "prefix", "scan"}, NEW content \in Contents,
           <<>> \in IF ask.op = "scan" THEN {PhysicalOrder}
                    ELSE IndexOrder(Matching(ask.norms, content), content)
    PROVE  Expected(ask, content) = <<>>
  <1> DEFINE S == Matching(ask.norms, content)
  <1>1. CASE ask.op = "scan"
    BY <1>1, ExpectedOfScan
  <1>2. CASE ask.op = "prefix"
    BY <1>2, ExpectedOfPrefix
  <1>3. CASE ask.op \in {"locate", "variants"}
    <2>1. <<>> \in IndexOrder(S, content)
      BY <1>3
    <2>2. S = {}
      <3>1. S \subseteq Ordinals
        BY MatchingRows
      <3> HIDE DEF S
      <3> QED BY <2>1, <3>1, NothingToOrder
    <2> HIDE DEF S
    <2>3. /\ S \cap RawMatches(ask, content) = {} /\ S \cap CaseVariants(ask, content) = {}
      BY <2>2
    <2>4. /\ <<>> \in IndexOrder(S \cap RawMatches(ask, content), content)
          /\ <<>> \in IndexOrder(S \cap CaseVariants(ask, content), content)
      BY <2>3, EmptyOrder
    <2>5. CASE ask.op = "locate"
      BY <2>1, <2>4, <2>5, ExpectedOfLocate DEF S
    <2>6. CASE ask.op = "variants"
      <3>1. Expected(ask, content) = <<>> \o <<>>
        BY <2>4, <2>6, ExpectedOfVariants DEF S
      <3>2. <<>> \in Seq(Ordinals)
        OBVIOUS
      <3> QED BY <3>1, <3>2, ConcatNothing
    <2> QED BY <1>3, <2>5, <2>6
  <1> QED BY <1>1, <1>2, <1>3

-----------------------------------------------------------------------------

LEMMA NoAnswer == ASSUME returned'.tag \notin {"absent", "found"} PROVE AnswersComplete'
  BY DEF AnswersComplete

LEMMA NoneIsNoAnswer == None.tag \notin {"absent", "found"} /\ Rejected.tag \notin {"absent", "found"}
  BY DEF None, Rejected

\* A query that the source has not been edited under runs on what its index is of.
LEMMA UndisturbedRows ==
    ASSUME IInv, NEW h \in Handles, index[h] # None, NEW c, CallSound(h, c), Undisturbed(h, c.during)
    PROVE  file.rows \in Contents /\ seen[h] \subseteq {file.rows}
  <1>1. opened[h] # None
    BY DEF IInv, IndexInv
  <1>2. source.rows \in seen[h] /\ source.rows \in Contents
    BY <1>1 DEF IInv, HandleInv, SourceInv
  <1>3. seen[h] \subseteq c.during /\ c.during = {file.rows}
    BY DEF CallSound, Undisturbed
  <1> QED BY <1>2, <1>3

\* An answer that is right of the rows of the index is one AnswersComplete allows.
LEMMA RightAnswer ==
    ASSUME NEW a, returned' = a, NEW h, a.handle = h, a.fresh = file.fresh, a.intact = ~Garbled(h),
           source.shown /\ file.fresh => file.rows \in a.during,
           a.ask.op \in {"locate", "variants", "prefix", "scan"},
           Undisturbed(h, a.during) =>
               LET rows == Expected(a.ask, file.rows) IN
               /\ a.tag = "absent" => rows = <<>>
               /\ a.ask.op \in {"prefix", "scan"} => a.rows = SubSeq(rows, 1, Len(a.rows))
               /\ a.tag # "absent" /\ a.ask.op \in {"locate", "variants"} =>
                     a.rows = Page(rows, a.ask.window) /\ a.total = Len(rows),
           UNCHANGED <<source, opened, file, index>>
    PROVE  AnswersComplete'
  <1>1. AnswersComplete' <=>
          (/\ a.tag \in {"absent", "found"}
           /\ a.intact /\ a.fresh /\ source'.shown /\ AsNew(a.handle)'
           =>
             \A content \in a.during : a.during = {content} =>
                 CASE a.tag = "absent" -> Expected(a.ask, content) = <<>>
                   [] a.ask.op \in {"prefix", "scan"} ->
                         a.rows = SubSeq(Expected(a.ask, content), 1, Len(a.rows))
                   [] OTHER -> /\ a.rows = Page(Expected(a.ask, content), a.ask.window)
                               /\ a.total = Len(Expected(a.ask, content)))
    BY Zenon DEF AnswersComplete
  <1>2. ASSUME a.intact, a.fresh, source'.shown, AsNew(a.handle)', NEW content \in a.during,
               a.during = {content}
        PROVE  CASE a.tag = "absent" -> Expected(a.ask, content) = <<>>
                 [] a.ask.op \in {"prefix", "scan"} ->
                       a.rows = SubSeq(Expected(a.ask, content), 1, Len(a.rows))
                 [] OTHER -> /\ a.rows = Page(Expected(a.ask, content), a.ask.window)
                             /\ a.total = Len(Expected(a.ask, content))
    <2>1. source.shown /\ AsNew(h) /\ file.fresh /\ ~Garbled(h)
      BY <1>2 DEF AsNew
    <2>2. content = file.rows
      BY <1>2, <2>1
    <2>3. Undisturbed(h, a.during)
      BY <1>2, <2>1, <2>2 DEF Undisturbed
    <2> DEFINE rows == Expected(a.ask, content)
    <2>4. /\ a.tag = "absent" => rows = <<>>
          /\ a.ask.op \in {"prefix", "scan"} => a.rows = SubSeq(rows, 1, Len(a.rows))
          /\ a.tag # "absent" /\ a.ask.op \in {"locate", "variants"} =>
                a.rows = Page(rows, a.ask.window) /\ a.total = Len(rows)
      BY <2>2, <2>3
    <2> HIDE DEF rows
    <2>5. (CASE a.tag = "absent" -> rows = <<>>
             [] a.ask.op \in {"prefix", "scan"} -> a.rows = SubSeq(rows, 1, Len(a.rows))
             [] OTHER -> a.rows = Page(rows, a.ask.window) /\ a.total = Len(rows))
      BY <2>4
    <2> QED BY <2>5 DEF rows
  <1> QED BY <1>1, <1>2

\* The progress of a query is its own.
LEMMA ProgressFrame ==
    ASSUME ProgressInv, UNCHANGED <<source, call>>,
           \A h \in Handles : call[h] # None =>
               /\ index'[h] = index[h] /\ opened'[h] = opened[h] /\ file'.rows = file.rows
               /\ file'.fresh = file.fresh /\ file'.damaged = file.damaged
    PROVE  ProgressInv'
  BY DEF ProgressInv, Undisturbed, AsNew, Garbled

LEMMA ProgressReplaced ==
    ASSUME IInv, ProgressInv, NEW h \in Handles, NEW c, call' = [call EXCEPT ![h] = c],
           c = None \/ (Undisturbed(h, c.during) => Progress(c, c.at - 1, file.rows)),
           UNCHANGED <<source, opened, file, index>>
    PROVE  ProgressInv'
  <1>1. \A g \in Handles : call'[g] = IF g = h THEN c ELSE call[g]
    BY DEF IInv, CallInv
  <1>2. ASSUME NEW g \in Handles, call'[g] # None, Undisturbed(g, call[g].during)'
        PROVE  Progress(call'[g], call'[g].at - 1, file.rows)
    <2>1. PICK d : d = call'[g]
      OBVIOUS
    <2>2. Undisturbed(g, d.during)
      BY <1>2, <2>1 DEF Undisturbed, AsNew, Garbled
    <2>3. Progress(d, d.at - 1, file.rows)
      BY <1>1, <1>2, <2>1, <2>2 DEF ProgressInv
    <2> QED BY <2>1, <2>3
  <1> QED BY <1>2 DEF ProgressInv

\* A query that ends leaves the others as they are.
LEMMA NoAnswerReturned ==
    ASSUME IInv, ProgressInv, NEW h \in Handles, NEW a, Return(h, a), a.tag \notin {"absent", "found"},
           UNCHANGED <<source, opened, file, index>>
    PROVE  CompleteInv'
  BY ProgressReplaced, NoAnswer DEF Return, CompleteInv

\* After a row: the query goes on, begins its second pass, or answers.
LEMMA AdvanceComplete ==
    ASSUME IInv, ProgressInv, NEW h \in Handles, index[h] # None, NEW c, CallSound(h, c), Advance(h, c),
           Undisturbed(h, c.during) => Progress(c, c.at, file.rows),
           UNCHANGED <<source, opened, file, index>>
    PROVE  CompleteInv'
  <1>0. /\ CallShape(c) /\ c.range \in Seq(Ordinals) /\ c.at \in 1..Len(c.range)
        /\ source.shown /\ file.fresh => file.rows \in c.during
        /\ c.ask.op \in {"locate", "variants", "prefix", "scan"}
    BY AskKinds DEF CallSound, CallShape
  <1>1. Undisturbed(h, c.during) => file.rows \in Contents
    BY UndisturbedRows
  <1>2. ASSUME NEW d, Continue(h, d), Undisturbed(h, d.during) => Progress(d, d.at - 1, file.rows)
        PROVE  CompleteInv'
    BY <1>2, ProgressReplaced, NoAnswer, NoneIsNoAnswer DEF Continue, CompleteInv
  <1>3. CASE Continue(h, [c EXCEPT !.at = @ + 1])
    <2>1. PICK d : d = [c EXCEPT !.at = @ + 1]
      OBVIOUS
    <2>2. d = [c EXCEPT !.at = c.at + 1, !.pass = c.pass]
      BY <1>0, <2>1 DEF CallShape
    <2>3. d = [tag |-> "call", ask |-> c.ask, range |-> c.range, pass |-> c.pass, at |-> c.at + 1,
               exact |-> c.exact, others |-> c.others, picked |-> c.picked, keys |-> c.keys,
               during |-> c.during]
      BY <1>0, <2>2, MovedFields
    <2>4. /\ d.ask = c.ask /\ d.range = c.range /\ d.pass = c.pass /\ d.at = c.at + 1
          /\ d.exact = c.exact /\ d.others = c.others /\ d.picked = c.picked /\ d.during = c.during
      BY ONLY <2>3
    <2>5. d.at - 1 = c.at
      BY <1>0, <2>4
    <2>6. Undisturbed(h, d.during) => Progress(d, d.at - 1, file.rows)
      BY <2>4, <2>5, ProgressSame
    <2> QED BY <1>2, <1>3, <2>1, <2>6
  <1>4. CASE SecondPass(c) /\ Continue(h, [c EXCEPT !.at = 1, !.pass = 2])
    <2>1. PICK d : d = [c EXCEPT !.at = 1, !.pass = 2]
      OBVIOUS
    <2>2. d = [tag |-> "call", ask |-> c.ask, range |-> c.range, pass |-> 2, at |-> 1,
               exact |-> c.exact, others |-> c.others, picked |-> c.picked, keys |-> c.keys,
               during |-> c.during]
      BY <1>0, <2>1, MovedFields
    <2>3. /\ d.ask = c.ask /\ d.range = c.range /\ d.pass = 2 /\ d.at = 1
          /\ d.exact = c.exact /\ d.others = c.others /\ d.picked = c.picked /\ d.during = c.during
      BY ONLY <2>2
    <2>4. Undisturbed(h, d.during) => Progress(d, 0, file.rows)
      BY <1>0, <1>1, <1>4, <2>3, SecondPassStep
    <2>5. d.at - 1 = 0
      BY <2>3
    <2> QED BY <1>2, <1>4, <2>1, <2>4, <2>5
  <1>5. CASE Over(c) /\ Return(h, Found(h, c))
    <2> DEFINE a == Found(h, c)
    <2>1. Undisturbed(h, c.during) => AnswerRight(a, file.rows)
      BY <1>0, <1>1, <1>5, ScanRight, LocateRight, VariantsRight
    <2>2. /\ a.handle = h /\ a.ask = c.ask /\ a.during = c.during
          /\ a.fresh = file.fresh /\ a.intact = ~Garbled(h)
      <3>1. PICK total, rows : a = Answer(h, c.ask, c.during, total, rows, c.keys)
        BY DEF Found
      <3> HIDE DEF a
      <3> QED BY <3>1, AnswerFields
    <2> HIDE DEF a
    <2>3. returned' = a
      BY <1>5 DEF Return, a
    <2>4. AnswersComplete'
      BY <1>0, <2>1, <2>2, <2>3, RightAnswer DEF AnswerRight
    <2>5. ProgressInv'
      BY <1>5, ProgressReplaced DEF Return
    <2> QED BY <2>4, <2>5 DEF CompleteInv
  <1> QED BY <1>3, <1>4, <1>5 DEF Advance

\* A query begins with the rows its search found, or answers that there are none.
LEMMA BeginQueryComplete ==
    ASSUME IInv, ProgressInv, NEW h \in Handles, NEW ask \in Asks, BeginQuery(h, ask)
    PROVE  CompleteInv'
  <1>1. UNCHANGED <<source, opened, file, index>> /\ index[h] # None
    BY DEF BeginQuery
  <1>2. ask.op \in {"locate", "variants", "prefix", "scan"}
    BY AskKinds
  <1>3. CASE Return(h, Rejected)
    BY <1>1, <1>3, NoAnswerReturned, NoneIsNoAnswer
  <1>4. ASSUME DictionaryMatches(h, index[h].stamp),
               NEW range \in IF ask.op = "scan" THEN {PhysicalOrder} ELSE SearchResults(h, ask.norms)
        PROVE  /\ source.rows \in Contents
               /\ source.shown /\ file.fresh => file.rows = source.rows
               /\ ~Garbled(h) =>
                     range \in IF ask.op = "scan" THEN {PhysicalOrder}
                               ELSE IndexOrder(Matching(ask.norms, file.rows), file.rows)
    <2>1. Stamp = index[h].stamp /\ index[h].stamp = file.stamp /\ file # NoFile
      BY <1>1, <1>4 DEF DictionaryMatches, IInv, IndexInv
    <2>2. source.shown /\ file.fresh => file.rows = source.rows
      BY <2>1 DEF IInv, FileInv
    <2>3. source.rows \in Contents
      BY DEF IInv, SourceInv
    <2> QED BY <1>4, <2>2, <2>3 DEF SearchResults
  <1>5. ASSUME DictionaryMatches(h, index[h].stamp),
               <<>> \in IF ask.op = "scan" THEN {PhysicalOrder} ELSE SearchResults(h, ask.norms),
               Return(h, Answer(h, ask, {source.rows}, 0, <<>>, <<>>))
        PROVE  CompleteInv'
    <2> DEFINE a == Answer(h, ask, {source.rows}, 0, <<>>, <<>>)
    <2>1. /\ a.tag = "absent" /\ a.handle = h /\ a.ask = ask /\ a.during = {source.rows} /\ a.rows = <<>>
          /\ a.fresh = file.fresh /\ a.intact = ~Garbled(h)
      BY DEF Answer
    <2> HIDE DEF a
    <2>2. Undisturbed(h, a.during) => Expected(ask, file.rows) = <<>>
      BY <1>2, <1>4, <1>5, NothingExpected DEF Undisturbed
    <2>3. SubSeq(<<>>, 1, Len(<<>>)) = <<>>
      BY SubSeqEmpty
    <2>4. Undisturbed(h, a.during) =>
               LET rows == Expected(a.ask, file.rows) IN
               /\ a.tag = "absent" => rows = <<>>
               /\ a.ask.op \in {"prefix", "scan"} => a.rows = SubSeq(rows, 1, Len(a.rows))
               /\ a.tag # "absent" /\ a.ask.op \in {"locate", "variants"} =>
                     a.rows = Page(rows, a.ask.window) /\ a.total = Len(rows)
      BY <2>1, <2>2, <2>3
    <2>5. source.shown /\ file.fresh => file.rows \in a.during
      BY <1>4, <1>5, <2>1
    <2>6. returned' = a
      BY <1>5 DEF Return, a
    <2>7. AnswersComplete'
      BY <1>1, <1>2, <2>1, <2>4, <2>5, <2>6, RightAnswer
    <2>8. ProgressInv'
      BY <1>1, <1>5, ProgressReplaced DEF Return
    <2> QED BY <2>7, <2>8 DEF CompleteInv
  <1>6. ASSUME DictionaryMatches(h, index[h].stamp),
               NEW range \in IF ask.op = "scan" THEN {PhysicalOrder} ELSE SearchResults(h, ask.norms),
               Continue(h, [tag |-> "call", ask |-> ask, range |-> range, pass |-> 1,
                            at |-> 1, exact |-> <<>>, others |-> 0, picked |-> <<>>,
                            keys |-> <<>>, during |-> {source.rows}])
        PROVE  CompleteInv'
    <2>1. PICK c : c = [tag |-> "call", ask |-> ask, range |-> range, pass |-> 1,
                        at |-> 1, exact |-> <<>>, others |-> 0, picked |-> <<>>,
                        keys |-> <<>>, during |-> {source.rows}]
      OBVIOUS
    <2>2. /\ c.ask = ask /\ c.range = range /\ c.pass = 1 /\ c.at = 1 /\ c.exact = <<>>
          /\ c.others = 0 /\ c.picked = <<>>
      BY <2>1
    <2>3. Undisturbed(h, c.during) => Progress(c, 0, file.rows)
      BY <1>2, <1>4, <1>6, <2>2, FirstProgress DEF Undisturbed
    <2>4. c.at - 1 = 0
      BY <2>2
    <2>5. ProgressInv'
      BY <1>1, <1>6, <2>1, <2>3, <2>4, ProgressReplaced DEF Continue
    <2> QED BY <1>6, <2>5, NoAnswer, NoneIsNoAnswer DEF Continue, CompleteInv
  <1>7. CASE Return(h, [tag |-> "empty"])
    BY <1>1, <1>7, NoAnswerReturned
  <1> QED BY <1>3, <1>5, <1>6, <1>7 DEF BeginQuery

\* One row: the index and the source agree on it if the query is undisturbed.
LEMMA QueryRowComplete ==
    ASSUME IInv, ProgressInv, NEW h \in Handles, QueryRow(h)
    PROVE  CompleteInv'
  <1>c. PICK c : c = call[h]
    OBVIOUS
  <1> DEFINE o == c.range[c.at]
  <1>0. UNCHANGED <<source, truth, seen, opened, build, file, index>> /\ c # None
    BY <1>c DEF QueryRow
  <1>1. index[h] # None /\ CallSound(h, c) /\ CallShape(c) /\ opened[h] # None
    BY <1>c, <1>0 DEF IInv, CallInv, IndexInv, CallSound
  <1>2. o \in Ordinals /\ BlockOf[o] \in Blocks
    BY <1>1, Numbering DEF CallShape
  <1>3. Undisturbed(h, c.during) =>
          Progress(c, c.at - 1, file.rows) /\ file.rows \in Contents /\ seen[h] \subseteq {file.rows}
    BY <1>c, <1>0, <1>1, UndisturbedRows DEF ProgressInv
  <1>4. PICK row \in IndexRow(h, o) :
        \/ row = Unreadable /\ Return(h, Rejected) /\ UNCHANGED cache
        \/ row # Unreadable /\ Skips(c, row) /\ Advance(h, c) /\ UNCHANGED cache
        \/ /\ row # Unreadable /\ ~Skips(c, row)
           /\ \E d \in DecodeKeyBlock(h, BlockOf[o]) :
                /\ cache' = [cache EXCEPT ![h] = d.slot]
                /\ \/ ~d.ok /\ Return(h, [tag |-> "io"])
                   \/ d.ok /\ LET key == Keys[d.version][o] IN
                        IF Verified(c.ask, row, key) THEN Advance(h, Classified(c, o, key))
                        ELSE Return(h, Rejected)
    BY <1>c DEF QueryRow
  <1>5. CASE Return(h, Rejected)
    BY <1>0, <1>5, NoAnswerReturned, NoneIsNoAnswer
  <1>6. CASE row # Unreadable /\ Skips(c, row) /\ Advance(h, c)
    <2>1. ASSUME Undisturbed(h, c.during) PROVE Progress(c, c.at, file.rows)
      <3>1. row = KeyOf(o, file.rows)
        BY <1>4, <1>6, <2>1 DEF IndexRow, Undisturbed
      <3> QED BY <1>1, <1>3, <1>6, <2>1, <3>1, SkipStep
    <2> QED BY <1>0, <1>1, <1>6, <2>1, AdvanceComplete
  <1>7. ASSUME row # Unreadable, NEW d \in DecodeKeyBlock(h, BlockOf[o]),
               \/ ~d.ok /\ Return(h, [tag |-> "io"])
               \/ d.ok /\ LET key == Keys[d.version][o] IN
                    IF Verified(c.ask, row, key) THEN Advance(h, Classified(c, o, key))
                    ELSE Return(h, Rejected)
        PROVE  CompleteInv'
    <2>1. CASE Return(h, [tag |-> "io"])
      <3>1. [tag |-> "io"].tag \notin {"absent", "found"}
        OBVIOUS
      <3> QED BY <1>0, <2>1, <3>1, NoAnswerReturned
    <2>2. CASE d.ok /\ Verified(c.ask, row, Keys[d.version][o])
               /\ Advance(h, Classified(c, o, Keys[d.version][o]))
      <3> DEFINE key == Keys[d.version][o]
                 e == Classified(c, o, key)
      <3>1. PICK content \in seen[h] : content[BlockOf[o]] = d.version
        BY <1>1, <1>2, <2>2, DecodeSound DEF IInv
      <3>2. key = KeyOf(o, content)
        BY <3>1 DEF KeyOf
      <3>3. CallSound(h, e)
        BY <1>1, <1>2, <1>4, <1>7, <2>2, <3>2, ClassifiedSound DEF IInv
      <3>4. e.at = c.at /\ e.during = c.during
        BY <1>1 DEF CallShape, Classified
      <3> HIDE DEF key
      <3>5. ASSUME Undisturbed(h, c.during) PROVE Progress(e, c.at, file.rows)
        <4>1. key = KeyOf(o, file.rows)
          BY <1>3, <3>2, <3>5
        <4> QED BY <1>1, <1>3, <3>5, <4>1, ClassifiedStep
      <3> HIDE DEF e
      <3>6. Advance(h, e)
        BY <2>2 DEF e, key
      <3> QED BY <1>0, <1>1, <3>3, <3>4, <3>5, <3>6, AdvanceComplete
    <2> QED BY <1>5, <1>7, <2>1, <2>2
  <1> QED BY <1>4, <1>5, <1>6, <1>7

\* An edit under a query is one of the contents it had meanwhile.
LEMMA EditedComplete ==
    ASSUME IInv, ProgressInv, NEW rows, NEW stamp, Edited(rows, stamp)
    PROVE  CompleteInv'
  <1>1. /\ source'.shown => source.shown
        /\ call' = [h \in Handles |-> IF call[h] = None THEN None
                                       ELSE [call[h] EXCEPT !.during = @ \cup {rows}]]
        /\ returned' = None /\ UNCHANGED <<opened, file, index>>
    BY DEF Edited
  <1>2. ASSUME NEW h \in Handles, call'[h] # None, Undisturbed(h, call[h].during)'
        PROVE  Progress(call'[h], call'[h].at - 1, file.rows)
    <2>1. PICK c : c = call[h]
      OBVIOUS
    <2>2. PICK d : d = call'[h]
      OBVIOUS
    <2>3. c # None /\ d = [c EXCEPT !.during = @ \cup {rows}]
      BY <1>1, <1>2, <2>1, <2>2
    <2>4. CallSound(h, c) /\ CallShape(c)
      BY <2>1, <2>3 DEF IInv, CallInv, CallSound
    <2>5. c = [tag |-> "call", ask |-> c.ask, range |-> c.range, pass |-> c.pass, at |-> c.at,
               exact |-> c.exact, others |-> c.others, picked |-> c.picked, keys |-> c.keys,
               during |-> c.during]
      BY <2>4 DEF CallShape
    <2>6. /\ d.ask = c.ask /\ d.range = c.range /\ d.pass = c.pass /\ d.at = c.at
          /\ d.exact = c.exact /\ d.others = c.others /\ d.picked = c.picked
          /\ d.during = c.during \cup {rows}
      BY ONLY <2>3, <2>5
    <2>7. source.shown /\ AsNew(h) /\ file.fresh /\ ~Garbled(h) /\ d.during = {file.rows}
      BY <1>1, <1>2, <2>2 DEF Undisturbed, AsNew, Garbled
    <2>8. file.rows \in c.during
      BY <2>4, <2>7 DEF CallSound
    <2>9. Undisturbed(h, c.during)
      BY <2>6, <2>7, <2>8 DEF Undisturbed
    <2>10. Progress(c, c.at - 1, file.rows)
      BY <2>1, <2>3, <2>9 DEF ProgressInv
    <2> QED BY <2>2, <2>6, <2>10, ProgressSame
  <1>3. ProgressInv'
    BY <1>1, <1>2 DEF ProgressInv
  <1> QED BY <1>1, <1>3, NoAnswer, NoneIsNoAnswer DEF CompleteInv

LEMMA CompleteInit == Init => CompleteInv
  BY DEF Init, CompleteInv, ProgressInv, AnswersComplete, None

LEMMA CompleteStep == IInv /\ CompleteInv /\ [Next]_vars => CompleteInv'
  <1> SUFFICES ASSUME IInv, CompleteInv, [Next]_vars PROVE CompleteInv'
    OBVIOUS
  <1>0. ProgressInv /\ AnswersComplete
    BY DEF CompleteInv
  <1>1. ASSUME returned' = None, ProgressInv' PROVE CompleteInv'
    BY <1>1, NoAnswer, NoneIsNoAnswer DEF CompleteInv
  <1>2. ASSUME UNCHANGED <<source, opened, file, index, call>> PROVE ProgressInv'
    BY <1>0, <1>2, ProgressFrame
  <1>3. ASSUME call' = [h \in Handles |-> None] PROVE ProgressInv'
    BY <1>3 DEF ProgressInv
  <1>4. \A h \in Handles : call[h] # None =>
            /\ index[h] # None /\ opened[h] # None /\ file # NoFile /\ file.parts = AllParts
    BY DEF IInv, CallInv, IndexInv
  <1>5. CASE Edit \/ EditSilently
    BY <1>0, <1>5, EditedComplete DEF Edit, EditSilently
  <1>6. ASSUME NEW h \in Handles, OpenSource(h) PROVE CompleteInv'
    <2>1. UNCHANGED <<source, file, index, call>> /\ returned' = None
          /\ opened[h] = None /\ opened' = [opened EXCEPT ![h] = Stamp]
      BY <1>6 DEF OpenSource
    <2>2. \A g \in Handles : call[g] # None => opened'[g] = opened[g]
      BY <1>4, <2>1 DEF IInv, HandleInv
    <2> QED BY <1>0, <1>1, <2>1, <2>2, ProgressFrame
  <1>7. ASSUME NEW h \in Handles, NEW b \in Blocks, OtherRead(h, b) PROVE CompleteInv'
    BY <1>1, <1>2, <1>7 DEF OtherRead
  <1>8. ASSUME NEW h \in Handles, StartBuild(h) PROVE CompleteInv'
    BY <1>1, <1>2, <1>8 DEF StartBuild
  <1>9. ASSUME NEW h \in Handles, NEW verify \in Policies, NEW expected \in DOMAIN truth,
               OpenIndex(h, verify, expected)
        PROVE  CompleteInv'
    <2>1. UNCHANGED <<source, opened, file, call>> /\ returned' = None /\ index[h] = None
          /\ index' = [index EXCEPT ![h] = [tag |-> "index", stamp |-> file.stamp, verify |-> verify]]
      BY <1>9 DEF OpenIndex
    <2>2. \A g \in Handles : call[g] # None => index'[g] = index[g]
      BY <1>4, <2>1 DEF IInv, IndexInv
    <2> QED BY <1>0, <1>1, <2>1, <2>2, ProgressFrame
  <1>10. ASSUME NEW h \in Handles, NEW ask \in Asks, BeginQuery(h, ask) PROVE CompleteInv'
    BY <1>0, <1>10, BeginQueryComplete
  <1>11. ASSUME NEW h \in Handles, QueryRow(h) PROVE CompleteInv'
    BY <1>0, <1>11, QueryRowComplete
  <1>12. CASE BuildBlock
    BY <1>1, <1>2, <1>12 DEF BuildBlock, FailBuild
  <1>13. CASE CreateFile
    <2>1. file = NoFile /\ UNCHANGED <<source, call>> /\ returned' = None
      BY <1>13 DEF CreateFile
    <2>2. \A h \in Handles : call[h] = None
      BY <1>4, <2>1
    <2> QED BY <1>0, <1>1, <2>1, <2>2, ProgressFrame
  <1>14. CASE WritePart
    <2>1. file.parts < AllParts /\ UNCHANGED <<source, call>> /\ returned' = None
      BY <1>14 DEF WritePart
    <2>2. \A h \in Handles : call[h] = None
      BY <1>4, <2>1 DEF AllParts
    <2> QED BY <1>0, <1>1, <2>1, <2>2, ProgressFrame
  <1>15. CASE SyncFile
    <2>1. UNCHANGED <<source, opened, index, call>> /\ returned' = None
          /\ build.phase = "write" /\ file' = [file EXCEPT !.synced = TRUE]
      BY <1>15 DEF SyncFile
    <2>2. file # NoFile
      BY <2>1 DEF IInv, BuildInv
    <2>3. file = [parts |-> file.parts, stamp |-> file.stamp, synced |-> file.synced,
                  damaged |-> file.damaged, fresh |-> file.fresh, rows |-> file.rows]
      BY <2>2 DEF IInv, FileInv
    <2>4. file'.rows = file.rows /\ file'.fresh = file.fresh /\ file'.damaged = file.damaged
      BY ONLY <2>1, <2>3
    <2> QED BY <1>0, <1>1, <2>1, <2>4, ProgressFrame
  <1>16. CASE EndBuild
    <2>1. returned'.tag \in {"built", "source changed"}
      BY <1>16 DEF EndBuild
    <2> QED BY <1>2, <1>16, <2>1, NoAnswer DEF EndBuild, CompleteInv
  <1>17. CASE AbortBuild
    BY <1>1, <1>2, <1>17 DEF AbortBuild, FailBuild
  <1>18. CASE Crash \/ Discard
    BY <1>1, <1>3, <1>18 DEF Crash, Discard
  <1>19. CASE UNCHANGED vars
    <2>1. AnswersComplete'
      BY <1>0, <1>19 DEF AnswersComplete, AsNew, vars
    <2> QED BY <1>2, <1>19, <2>1 DEF vars, CompleteInv
  <1> QED BY <1>5, <1>6, <1>7, <1>8, <1>9, <1>10, <1>11, <1>12, <1>13, <1>14, <1>15, <1>16,
             <1>17, <1>18, <1>19 DEF Next

\* locate_with_key_index, locate_page, locate_case_variants, prefix and scan: for any
\* keys, handles, edits and damage, a query that no edit overtakes answers as the source
\* it ran on, with the right rows, order, page and total, and "absent" only if there is
\* nothing, where edits move the stamp, index and handle are of that source and the bytes
\* of the index are intact or verified.
THEOREM AnswersAreComplete == Spec => []AnswersComplete
  <1>1. Init => IInv /\ CompleteInv
    BY InitSound, CompleteInit
  <1>2. IInv /\ CompleteInv /\ [Next]_vars => (IInv /\ CompleteInv)'
    BY StepSound, CompleteStep
  <1>3. CompleteInv => AnswersComplete
    BY DEF CompleteInv
  <1> QED BY <1>1, <1>2, <1>3, PTL DEF Spec

-----------------------------------------------------------------------------
(***************************************************************************)
(* The layout of the index file: for any dictionary, options and damage.   *)
(***************************************************************************)

LEMMA AlignUp ==
  ASSUME NEW x \in Nat
  PROVE  Align8(x) \in Nat /\ x <= Align8(x) /\ Align8(x) <= x + 7
  BY SMT DEF Align8

\* chunk_count rounds up.
LEMMA ChunkCountRoundsUp ==
  ASSUME NEW len \in Nat, NEW chunk \in Nat, chunk > 0
  PROVE  /\ ChunkCount(len, chunk) \in Nat
         /\ len <= ChunkCount(len, chunk) * chunk
         /\ ChunkCount(len, chunk) * chunk < len + chunk
<1> DEFINE n == len + chunk - 1
           q == n \div chunk
<1>1. n \in Nat
  OBVIOUS
<1>2. q \in Nat /\ q * chunk <= n /\ n < q * chunk + chunk
  <2> HIDE DEF n
  <2> QED BY <1>1, SMT
<1>3. q = ChunkCount(len, chunk)
  BY DEF ChunkCount
<1>4. q * chunk \in Nat
  BY ONLY <1>2, chunk \in Nat
<1> HIDE DEF q
<1> QED BY <1>2, <1>3, <1>4

LEMMA ProductGrows ==
  ASSUME NEW a \in Nat, NEW b \in Nat, NEW c \in Nat, a <= b
  PROVE  a * c \in Nat /\ b * c \in Nat /\ a * c <= b * c
<1>1. PICK d \in Nat : b = a + d
  <2>1. b - a \in Nat /\ b = a + (b - a)
    OBVIOUS
  <2> QED BY <2>1
<1>2. b * c = a * c + d * c
  BY <1>1, SMT
<1>3. a * c \in Nat /\ d * c \in Nat
  OBVIOUS
<1> QED BY <1>2, <1>3

\* So many chunks are enough exactly when their bytes are.
LEMMA ChunksSuffice ==
  ASSUME NEW len \in Nat, NEW chunk \in Nat, chunk > 0, NEW m \in Nat
  PROVE  ChunkCount(len, chunk) <= m <=> len <= m * chunk
<1> DEFINE n == ChunkCount(len, chunk)
<1>1. n \in Nat /\ len <= n * chunk /\ n * chunk < len + chunk
  BY ChunkCountRoundsUp
<1> HIDE DEF n
<1>2. n * chunk \in Nat /\ m * chunk \in Nat
  BY <1>1
<1>3. ASSUME n <= m PROVE len <= m * chunk
  <2>1. n * chunk <= m * chunk
    BY <1>1, <1>3, ProductGrows
  <2> QED BY <1>1, <1>2, <2>1
<1>4. ASSUME m + 1 <= n PROVE ~(len <= m * chunk)
  <2>1. (m + 1) * chunk <= n * chunk
    BY <1>1, <1>4, ProductGrows
  <2>2. (m + 1) * chunk = m * chunk + chunk
    BY SMT
  <2> QED BY <1>1, <1>2, <2>1, <2>2
<1> QED BY <1>1, <1>3, <1>4 DEF n

LEMMA OptionFields ==
  ASSUME NEW o \in Options
  PROVE  /\ o.chunk \in Nat /\ o.maxMetadata \in Nat /\ o.maxIndex \in Nat
         /\ o.buildMemory \in Nat /\ o.verify \in BOOLEAN /\ o # NoReader
<1>1. o \in [chunk : Nat, maxMetadata : Nat, maxIndex : Nat, buildMemory : Nat, verify : BOOLEAN]
  BY LayoutConstants
<1>2. "chunk" \in DOMAIN o
  BY <1>1
<1>3. "chunk" \notin DOMAIN NoReader
  BY DEF NoReader
<1> QED BY <1>1, <1>2, <1>3

LEMMA LensAreNat ==
  ASSUME NEW r \in Nat, NEW t \in Nat, NEW i \in Sections
  PROVE  SectionLens(r, t)[i] \in Nat
  BY SMT DEF SectionLens, Sections

LEMMA TableStarts ==
  ASSUME NEW counts \in [Sections -> Nat]
  PROVE  /\ Total(counts) \in Nat
         /\ \A i \in Sections : StartOf(counts, i) \in Nat /\ StartOf(counts, i) + counts[i] <= Total(counts)
         /\ \A i, j \in Sections : i < j => StartOf(counts, i) + counts[i] <= StartOf(counts, j)
  BY SMT DEF Total, StartOf, Sections

\* The header h has the fields and the layout of an index of r rows and t bytes of text.
HeaderOf(h, r, t, o) ==
    LET s == h.sections IN
    /\ h \in HeaderType
    /\ h.headerLen = HeaderBytes /\ h.chunk = o.chunk
    /\ h.keyCount = r /\ h.textLen = t /\ h.marks = TRUE /\ h.summed = o.verify
    /\ \A i \in Sections :
          /\ s[i].len = SectionLens(r, t)[i]
          /\ s[i].count = ChunkCount(s[i].len, o.chunk)
          /\ s[i].start = StartOf([j \in Sections |-> s[j].count], i)
    /\ s[1].offset = Align8(MetadataBytes(h))
    /\ \A i \in 2..4 : s[i].offset = Align8(s[i - 1].offset + s[i - 1].len)
    /\ h.total = s[4].offset + s[4].len

\* build_header computes a header that meets the conditions of parse_header and of
\* validate_section_layout, before either limit.
LEMMA HeaderShape ==
  ASSUME NEW r \in Nat, NEW t \in Nat, NEW o \in Options, o.chunk > 0
  PROVE  HeaderOf(Header(r, t, o), r, t, o)
<1> DEFINE lens == SectionLens(r, t)
           counts == [i \in Sections |-> ChunkCount(lens[i], o.chunk)]
           meta == HeaderBytes + 4 * Total(counts)
           o1 == Align8(meta)
           o2 == Align8(o1 + lens[1])
           o3 == Align8(o2 + lens[2])
           o4 == Align8(o3 + lens[3])
           offsets == <<o1, o2, o3, o4>>
           s == [i \in Sections |-> [offset |-> offsets[i], len |-> lens[i],
                                     start |-> StartOf(counts, i), count |-> counts[i]]]
           h == [headerLen |-> HeaderBytes, total |-> o4 + lens[4], chunk |-> o.chunk,
                 keyCount |-> r, textLen |-> t, sections |-> s, marks |-> TRUE, summed |-> o.verify]
<1>1. h = Header(r, t, o)
  BY DEF Header
<1>2. \A i \in Sections : lens[i] \in Nat
  BY LensAreNat
<1>3. o.chunk \in Nat /\ o.verify \in BOOLEAN
  BY OptionFields
<1> HIDE DEF lens
<1>4. counts \in [Sections -> Nat] /\ \A i \in Sections : counts[i] = ChunkCount(lens[i], o.chunk)
  BY <1>2, <1>3, ChunkCountRoundsUp
<1> HIDE DEF counts
<1>5. meta \in Nat
  BY <1>4, TableStarts DEF HeaderBytes
<1> HIDE DEF meta
<1>6. o1 \in Nat
  BY <1>5, AlignUp
<1> HIDE DEF o1
<1>7. o2 \in Nat
  BY <1>6, <1>2, AlignUp DEF Sections
<1> HIDE DEF o2
<1>8. o3 \in Nat
  BY <1>7, <1>2, AlignUp DEF Sections
<1> HIDE DEF o3
<1>9. o4 \in Nat
  BY <1>8, <1>2, AlignUp DEF Sections
<1> HIDE DEF o4
<1>10. \A i \in Sections : offsets[i] \in Nat
  BY <1>6, <1>7, <1>8, <1>9 DEF Sections
<1>11. offsets[1] = o1 /\ offsets[2] = o2 /\ offsets[3] = o3 /\ offsets[4] = o4
  OBVIOUS
<1> HIDE DEF offsets
<1>12. \A i \in Sections : StartOf(counts, i) \in Nat
  BY <1>4, TableStarts
<1>13. s \in [Sections -> [offset : Nat, len : Nat, start : Nat, count : Nat]]
  BY <1>2, <1>4, <1>10, <1>12
<1>14. \A i \in Sections : /\ s[i].offset = offsets[i] /\ s[i].len = lens[i]
                           /\ s[i].start = StartOf(counts, i) /\ s[i].count = counts[i]
  OBVIOUS
<1> HIDE DEF s
<1>15. h.sections = s /\ h.total = o4 + lens[4] /\ h.headerLen = HeaderBytes /\ h.chunk = o.chunk
       /\ h.keyCount = r /\ h.textLen = t /\ h.marks = TRUE /\ h.summed = o.verify
  OBVIOUS
<1>16. h \in HeaderType
  <2>1. o4 + lens[4] \in Nat
    BY <1>2, <1>9 DEF Sections
  <2> QED BY <2>1, <1>3, <1>13 DEF HeaderType, HeaderBytes
<1> HIDE DEF h
<1>17. [j \in Sections |-> s[j].count] = counts
  BY <1>4, <1>14
<1>18. MetadataBytes(h) = meta
  BY <1>15, <1>17 DEF MetadataBytes, meta
<1>19. 1 \in Sections /\ 2 \in Sections /\ 3 \in Sections /\ 4 \in Sections
  BY DEF Sections
<1>20. s[1].offset = Align8(MetadataBytes(h))
  BY <1>18, <1>14, <1>11, <1>19 DEF o1
<1>21. /\ s[2].offset = Align8(s[1].offset + s[1].len)
       /\ s[3].offset = Align8(s[2].offset + s[2].len)
       /\ s[4].offset = Align8(s[3].offset + s[3].len)
  BY <1>14, <1>11, <1>19 DEF o2, o3, o4
<1>22. \A i \in 2..4 : s[i].offset = Align8(s[i - 1].offset + s[i - 1].len)
  <2> TAKE i \in 2..4
  <2>1. (i = 2 /\ i - 1 = 1) \/ (i = 3 /\ i - 1 = 2) \/ (i = 4 /\ i - 1 = 3)
    OBVIOUS
  <2> QED BY <2>1, <1>21
<1>23. h.total = s[4].offset + s[4].len
  BY <1>15, <1>14, <1>11, <1>19
<1>24. \A i \in Sections : /\ s[i].len = SectionLens(r, t)[i]
                           /\ s[i].count = ChunkCount(s[i].len, o.chunk)
                           /\ s[i].start = StartOf([j \in Sections |-> s[j].count], i)
  BY <1>14, <1>4, <1>17 DEF lens
<1> QED BY <1>1, <1>15, <1>16, <1>20, <1>22, <1>23, <1>24 DEF HeaderOf

\* build_metadata_plan's limit on the text is build_header's limit on the table.
LEMMA PlanIsTheLimit ==
  ASSUME NEW r \in Nat, NEW t \in Nat, NEW o \in Options, ValidOptions(o)
  PROVE  PlanAllows(r, t, o) <=> MetadataBytes(Header(r, t, o)) <= o.maxMetadata
<1> DEFINE lens == SectionLens(r, t)
           counts == [j \in Sections |-> ChunkCount(SectionLens(r, t)[j], o.chunk)]
           slots == (o.maxMetadata - HeaderBytes) \div 4
           textChunks == ChunkCount(t, o.chunk)
           boundChunks == ChunkCount(8 * (r + 1), o.chunk)
           rowChunks == ChunkCount(4 * r, o.chunk)
           fixed == 2 * rowChunks + boundChunks
<1>1. o.chunk \in Nat /\ o.chunk > 0 /\ o.maxMetadata \in Nat /\ o.maxMetadata >= 224
  BY OptionFields DEF ValidOptions, MinChunkBytes, HeaderBytes
<1>2. counts[1] = textChunks /\ counts[2] = boundChunks /\ counts[3] = rowChunks /\ counts[4] = rowChunks
  BY DEF SectionLens, Sections
<1>3. textChunks \in Nat /\ boundChunks \in Nat /\ rowChunks \in Nat
  <2>1. 8 * (r + 1) \in Nat /\ 4 * r \in Nat
    OBVIOUS
  <2> QED BY <1>1, <2>1, ChunkCountRoundsUp
<1>4. MetadataBytes(Header(r, t, o)) = 224 + 4 * (textChunks + boundChunks + rowChunks + rowChunks)
  <2> DEFINE h == Header(r, t, o)
  <2>1. HeaderOf(h, r, t, o)
    BY <1>1, HeaderShape
  <2> HIDE DEF h
  <2>2. \A i \in Sections : h.sections[i].count = ChunkCount(SectionLens(r, t)[i], o.chunk)
    BY <2>1 DEF HeaderOf
  <2>3. MetadataBytes(h) = HeaderBytes + 4 * Total(counts)
    BY <2>2 DEF MetadataBytes, Total, Sections
  <2> QED BY <2>3, <1>2 DEF Total, HeaderBytes, h
<1>5. slots \in Nat /\ 4 * slots <= o.maxMetadata - 224 /\ o.maxMetadata - 224 < 4 * slots + 4
  BY <1>1 DEF HeaderBytes
<1>6. PlanAllows(r, t, o) <=> fixed <= slots /\ t <= (slots - fixed) * o.chunk
  BY DEF PlanAllows
<1>7. ASSUME fixed <= slots
      PROVE  textChunks <= slots - fixed <=> t <= (slots - fixed) * o.chunk
  <2>1. slots - fixed \in Nat
    BY ONLY <1>3, <1>5, <1>7
  <2> HIDE DEF slots, fixed
  <2> QED BY <2>1, <1>1, ChunksSuffice
<1> HIDE DEF slots, textChunks, boundChunks, rowChunks
<1>8. fixed <= slots /\ textChunks <= slots - fixed
      <=> 224 + 4 * (textChunks + boundChunks + rowChunks + rowChunks) <= o.maxMetadata
  BY ONLY <1>1, <1>3, <1>5 DEF fixed
<1> QED BY <1>4, <1>6, <1>7, <1>8

-----------------------------------------------------------------------------

PlannedHeader == Header(rowCount, text, options)

\* Where the writer is when section i is next.
WrittenUpTo(h, i) ==
    IF i = 1 THEN MetadataBytes(h) ELSE h.sections[i - 1].offset + h.sections[i - 1].len

BuilderInv ==
    /\ rowCount \in Nat /\ text \in Nat /\ options \in Options
    /\ phase \in {"start", "options", "entries", "limit", "scanned", "indexLimit", "built",
                 "sections", "written"}
    /\ phase = "limit" => ValidOptions(options) /\ ~PlanAllows(rowCount, text, options)
    /\ phase = "scanned" => ValidOptions(options) /\ PlanAllows(rowCount, text, options)
    /\ phase \in {"scanned", "built", "sections", "written"} => rowCount <= MaxOrdinal
    /\ phase \in {"built", "sections", "written"} =>
          /\ ValidOptions(options)
          /\ MetadataBytes(PlannedHeader) <= options.maxMetadata
          /\ PlannedHeader.total <= options.maxIndex
    /\ phase \in {"built", "sections"} => header = PlannedHeader
    /\ phase \in {"start", "scanned", "built"} => section = 1
    /\ phase = "sections" => section \in 1..5 /\ position = WrittenUpTo(header, section)

ReaderInv ==
    /\ damage \in Nat
    /\ phase = "written" =>
          /\ header \in HeaderType /\ length \in Nat
          /\ damage = 0 => header = PlannedHeader /\ length = PlannedHeader.total
    /\ reader = NoReader => accepted = FALSE
    /\ reader # NoReader =>
          /\ phase = "written" /\ reader \in Options
          /\ accepted = Accepts(header, length, reader)

\* What the builder has computed and written, and what a reader was told of it.
FormatInv == BuilderInv /\ ReaderInv

LEMMA LayoutInitSound == LayoutInit => FormatInv
<1> SUFFICES ASSUME LayoutInit PROVE FormatInv
  OBVIOUS
<1>1. rowCount \in Nat /\ text \in Nat
  BY LayoutConstants DEF LayoutInit
<1> QED BY <1>1 DEF LayoutInit, FormatInv, BuilderInv, ReaderInv

LEMMA NotReading == ASSUME ReaderInv, phase # "written" PROVE reader = NoReader /\ accepted = FALSE
  BY DEF ReaderInv

LEMMA ScanRowsSound == ASSUME FormatInv, ScanRows PROVE FormatInv'
<1>1. phase = "start" /\ UNCHANGED <<rowCount, text, options, header, position, section, length, damage, reader, accepted>>
  BY DEF ScanRows, reading
<1>2. reader = NoReader /\ accepted = FALSE
  BY <1>1, NotReading DEF FormatInv
<1>3. \/ phase' \in {"options", "entries"}
      \/ phase' = "scanned" /\ ValidOptions(options) /\ PlanAllows(rowCount, text, options)
         /\ rowCount <= MaxOrdinal
      \/ phase' = "limit" /\ ValidOptions(options) /\ ~PlanAllows(rowCount, text, options)
  <2>1. rowCount > MaxOrdinal \/ rowCount <= MaxOrdinal
    BY LayoutConstants DEF FormatInv, BuilderInv
  <2> QED BY <2>1 DEF ScanRows, TooManyRows
<1>4. BuilderInv'
  BY <1>1, <1>3 DEF FormatInv, BuilderInv
<1>5. ReaderInv'
  BY <1>1, <1>2, <1>3 DEF FormatInv, ReaderInv
<1> QED BY <1>4, <1>5 DEF FormatInv

LEMMA BuildHeaderSound == ASSUME FormatInv, BuildHeader PROVE FormatInv'
<1>1. phase = "scanned" /\ UNCHANGED <<rowCount, text, options, position, section, length, damage, reader, accepted>>
  BY DEF BuildHeader, reading
<1>2. reader = NoReader /\ accepted = FALSE
  BY <1>1, NotReading DEF FormatInv
<1>3. ValidOptions(options) /\ MetadataBytes(PlannedHeader) <= options.maxMetadata
  BY <1>1, PlanIsTheLimit DEF FormatInv, BuilderInv, PlannedHeader
<1>4. MetadataBytes(PlannedHeader) \in Nat /\ PlannedHeader.total \in Nat
      /\ options.maxMetadata \in Nat /\ options.maxIndex \in Nat
  <2>1. options \in Options /\ options.chunk > 0 /\ rowCount \in Nat /\ text \in Nat
    BY <1>3, OptionFields DEF FormatInv, BuilderInv, ValidOptions, MinChunkBytes
  <2>2. PlannedHeader \in HeaderType
    BY <2>1, HeaderShape DEF PlannedHeader, HeaderOf
  <2>3. PlannedHeader.total \in Nat /\ \A i \in Sections : PlannedHeader.sections[i].count \in Nat
    BY <2>2 DEF HeaderType
  <2>4. Total([i \in Sections |-> PlannedHeader.sections[i].count]) \in Nat
    BY <2>3, TableStarts
  <2> QED BY <2>1, <2>3, <2>4, OptionFields DEF MetadataBytes, HeaderBytes
<1>5. header' = PlannedHeader /\ (phase' = "indexLimit" \/ (phase' = "built" /\ PlannedHeader.total <= options.maxIndex))
  BY <1>3, <1>4 DEF BuildHeader, PlannedHeader
<1>6. PlannedHeader' = PlannedHeader
  BY <1>1 DEF PlannedHeader
<1>7. BuilderInv'
  BY <1>1, <1>3, <1>5, <1>6 DEF FormatInv, BuilderInv
<1>8. ReaderInv'
  BY <1>1, <1>2, <1>5 DEF FormatInv, ReaderInv
<1> QED BY <1>7, <1>8 DEF FormatInv

LEMMA WriteTableSound == ASSUME FormatInv, WriteTable PROVE FormatInv'
<1>1. /\ phase = "built" /\ phase' = "sections" /\ position' = MetadataBytes(header)
      /\ UNCHANGED <<rowCount, text, options, header, section, length, damage, reader, accepted>>
  BY DEF WriteTable, reading
<1>2. reader = NoReader /\ accepted = FALSE
  BY <1>1, NotReading DEF FormatInv
<1>3. PlannedHeader' = PlannedHeader
  BY <1>1 DEF PlannedHeader
<1>4. section = 1
  BY <1>1 DEF FormatInv, BuilderInv
<1>5. position' = WrittenUpTo(header, section)'
  BY <1>1, <1>4 DEF WrittenUpTo
<1>6. BuilderInv'
  BY <1>1, <1>3, <1>4, <1>5 DEF FormatInv, BuilderInv
<1>7. ReaderInv'
  BY <1>1, <1>2 DEF FormatInv, ReaderInv
<1> QED BY <1>6, <1>7 DEF FormatInv

LEMMA WriteSectionSound == ASSUME FormatInv, WriteSection PROVE FormatInv'
<1> DEFINE s == header.sections
           padding == s[section].offset - position
<1>1. /\ phase = "sections" /\ section <= 4
      /\ phase' = IF padding \in 0..7 THEN "sections" ELSE "invalid"
      /\ position' = position + padding + s[section].len
      /\ section' = section + 1
      /\ UNCHANGED <<rowCount, text, options, header, length, damage, reader, accepted>>
  BY DEF WriteSection, reading
<1>2. reader = NoReader /\ accepted = FALSE
  BY <1>1, NotReading DEF FormatInv
<1>3. PlannedHeader' = PlannedHeader
  BY <1>1 DEF PlannedHeader
<1>4. section \in 1..4 /\ header = PlannedHeader /\ position = WrittenUpTo(header, section)
      /\ options \in Options /\ options.chunk > 0 /\ rowCount \in Nat /\ text \in Nat
  BY <1>1, OptionFields DEF FormatInv, BuilderInv, ValidOptions, MinChunkBytes
<1>5. /\ header \in HeaderType
      /\ s[1].offset = Align8(MetadataBytes(header))
      /\ \A i \in 2..4 : s[i].offset = Align8(s[i - 1].offset + s[i - 1].len)
  <2>1. HeaderOf(header, rowCount, text, options)
    BY <1>4, HeaderShape DEF PlannedHeader
  <2> QED BY <2>1 DEF HeaderOf
<1>6. \A i \in Sections : s[i].offset \in Nat /\ s[i].len \in Nat /\ s[i].count \in Nat
  BY <1>5 DEF HeaderType
<1>7. position \in Nat /\ s[section].offset = Align8(position)
  <2>1. CASE section = 1
    <3>1. Total([i \in Sections |-> s[i].count]) \in Nat
      BY <1>6, TableStarts
    <3> QED BY <2>1, <3>1, <1>4, <1>5 DEF WrittenUpTo, MetadataBytes, HeaderBytes
  <2>2. CASE section \in 2..4
    <3>1. section - 1 \in Sections /\ section # 1
      BY <2>2 DEF Sections
    <3> QED BY <2>2, <3>1, <1>4, <1>5, <1>6 DEF WrittenUpTo
  <2> QED BY <1>4, <2>1, <2>2
<1>8. s[section].offset \in Nat /\ s[section].len \in Nat
  BY <1>4, <1>6 DEF Sections
<1>9. padding \in 0..7
  <2>1. Align8(position) \in Nat /\ position <= Align8(position) /\ Align8(position) <= position + 7
    BY <1>7, AlignUp
  <2> QED BY <2>1, <1>7
<1>10. phase' = "sections" /\ section' \in 2..5 /\ section' - 1 = section
  BY <1>1, <1>4, <1>9
<1>11. position' = s[section].offset + s[section].len
  BY <1>1, <1>7, <1>8
<1>12. position' = WrittenUpTo(header, section)'
  <2>1. section' # 1 /\ header' = header
    BY <1>1, <1>10
  <2> QED BY <1>10, <1>11, <2>1 DEF WrittenUpTo
<1>13. BuilderInv'
  <2>1. section' \in 1..5
    BY <1>10
  <2> HIDE DEF padding
  <2> QED BY <1>1, <1>3, <1>4, <1>10, <1>12, <2>1 DEF FormatInv, BuilderInv
<1>14. ReaderInv'
  BY <1>1, <1>2, <1>10 DEF FormatInv, ReaderInv
<1> QED BY <1>13, <1>14 DEF FormatInv

LEMMA FinishWriteSound == ASSUME FormatInv, FinishWrite PROVE FormatInv'
<1>1. /\ phase = "sections" /\ section > 4
      /\ phase' = IF position = header.total THEN "written" ELSE "invalid"
      /\ length' = position
      /\ UNCHANGED <<rowCount, text, options, header, position, section, damage, reader, accepted>>
  BY DEF FinishWrite
<1>2. reader = NoReader /\ accepted = FALSE
  BY <1>1, NotReading DEF FormatInv
<1>3. PlannedHeader' = PlannedHeader
  BY <1>1 DEF PlannedHeader
<1>4. section = 5 /\ header = PlannedHeader /\ position = WrittenUpTo(header, section)
      /\ options \in Options /\ options.chunk > 0 /\ rowCount \in Nat /\ text \in Nat
  BY <1>1, OptionFields DEF FormatInv, BuilderInv, ValidOptions, MinChunkBytes
<1>5. header \in HeaderType /\ header.total = header.sections[4].offset + header.sections[4].len
  <2>1. HeaderOf(header, rowCount, text, options)
    BY <1>4, HeaderShape DEF PlannedHeader
  <2> QED BY <2>1 DEF HeaderOf
<1>6. position = header.total
  BY <1>4, <1>5 DEF WrittenUpTo
<1>7. phase' = "written" /\ length' = header.total /\ header.total \in Nat
  BY <1>1, <1>5, <1>6 DEF HeaderType
<1>8. BuilderInv'
  BY <1>1, <1>3, <1>7 DEF FormatInv, BuilderInv
<1>9. ReaderInv'
  BY <1>1, <1>2, <1>3, <1>4, <1>5, <1>7 DEF FormatInv, ReaderInv
<1> QED BY <1>8, <1>9 DEF FormatInv

LEMMA DamageSound == ASSUME FormatInv, Damage PROVE FormatInv'
<1>1. /\ phase = "written" /\ reader = NoReader /\ damage' = damage + 1
      /\ UNCHANGED <<rowCount, text, options, phase, position, section, reader, accepted>>
  BY DEF Damage
<1>2. header \in HeaderType /\ length \in Nat /\ damage \in Nat /\ accepted = FALSE
  BY <1>1 DEF FormatInv, ReaderInv
<1>3. header' \in HeaderType /\ length' \in Nat
  <2>1. CASE header' \in OtherHeaders(header) \cap HeaderType /\ UNCHANGED length
    BY <2>1, <1>2
  <2>2. CASE \E d \in FieldDeltas : length + d \in Nat /\ length' = length + d /\ UNCHANGED header
    BY <2>2, <1>2
  <2> QED BY <2>1, <2>2 DEF Damage
<1>4. damage' \in Nat /\ damage' # 0
  BY <1>1, <1>2
<1>5. PlannedHeader' = PlannedHeader
  BY <1>1 DEF PlannedHeader
<1>6. BuilderInv'
  BY <1>1, <1>5 DEF FormatInv, BuilderInv
<1>7. ReaderInv'
  BY <1>1, <1>2, <1>3, <1>4 DEF ReaderInv
<1> QED BY <1>6, <1>7 DEF FormatInv

LEMMA OpenLayoutSound == ASSUME FormatInv, NEW opt \in Options, Open(opt) PROVE FormatInv'
<1>1. /\ phase = "written" /\ reader' = opt /\ accepted' = Accepts(header, length, opt)
      /\ UNCHANGED <<rowCount, text, options, phase, header, position, section, length, damage>>
  BY DEF Open
<1>2. opt # NoReader
  BY OptionFields
<1>3. PlannedHeader' = PlannedHeader
  BY <1>1 DEF PlannedHeader
<1>4. BuilderInv'
  BY <1>1, <1>3 DEF FormatInv, BuilderInv
<1>5. accepted' = Accepts(header, length, reader)'
  BY <1>1
<1>6. ReaderInv'
  BY <1>1, <1>2, <1>3, <1>5 DEF FormatInv, ReaderInv
<1> QED BY <1>4, <1>6 DEF FormatInv

LEMMA LayoutStepSound == FormatInv /\ [LayoutNext]_layoutVars => FormatInv'
<1> SUFFICES ASSUME FormatInv, [LayoutNext]_layoutVars PROVE FormatInv'
  OBVIOUS
<1>1. CASE UNCHANGED layoutVars
  <2>1. PlannedHeader' = PlannedHeader
    BY <1>1 DEF PlannedHeader, layoutVars
  <2>2. BuilderInv'
    BY <1>1, <2>1 DEF FormatInv, BuilderInv, layoutVars
  <2>3. ReaderInv'
    BY <1>1, <2>1 DEF FormatInv, ReaderInv, layoutVars
  <2> QED BY <2>2, <2>3 DEF FormatInv
<1> QED BY <1>1, ScanRowsSound, BuildHeaderSound, WriteTableSound, WriteSectionSound,
           FinishWriteSound, DamageSound, OpenLayoutSound DEF LayoutNext

-----------------------------------------------------------------------------

LEMMA HeaderNumbers ==
  ASSUME NEW h \in HeaderType
  PROVE  /\ h.total \in Nat /\ h.chunk \in Nat /\ MetadataBytes(h) \in Nat /\ MetadataBytes(h) >= HeaderBytes
         /\ [i \in Sections |-> h.sections[i].count] \in [Sections -> Nat]
         /\ \A i \in Sections : /\ h.sections[i].offset \in Nat /\ h.sections[i].len \in Nat
                                /\ h.sections[i].start \in Nat /\ h.sections[i].count \in Nat
<1>1. /\ h.total \in Nat /\ h.chunk \in Nat
      /\ \A i \in Sections : /\ h.sections[i].offset \in Nat /\ h.sections[i].len \in Nat
                             /\ h.sections[i].start \in Nat /\ h.sections[i].count \in Nat
  BY DEF HeaderType
<1>2. [i \in Sections |-> h.sections[i].count] \in [Sections -> Nat]
  BY <1>1
<1>3. Total([i \in Sections |-> h.sections[i].count]) \in Nat
  BY <1>2, TableStarts
<1> QED BY <1>1, <1>2, <1>3 DEF MetadataBytes, HeaderBytes

\* Each section starts at the aligned end of its predecessor, so they do not overlap.
LEMMA SectionsInOrder ==
  ASSUME NEW h \in HeaderType,
         h.sections[1].offset = Align8(MetadataBytes(h)),
         \A i \in 2..4 : h.sections[i].offset = Align8(h.sections[i - 1].offset + h.sections[i - 1].len),
         h.sections[4].offset + h.sections[4].len = h.total
  PROVE  /\ \A i \in Sections : /\ MetadataBytes(h) <= h.sections[i].offset
                                /\ h.sections[i].offset + h.sections[i].len <= h.total
         /\ \A i, j \in Sections :
               i < j => h.sections[i].offset + h.sections[i].len <= h.sections[j].offset
<1> DEFINE off == [i \in Sections |-> h.sections[i].offset]
           len == [i \in Sections |-> h.sections[i].len]
           meta == MetadataBytes(h)
<1>1. off \in [Sections -> Nat] /\ len \in [Sections -> Nat] /\ meta \in Nat /\ h.total \in Nat
  BY HeaderNumbers
<1>2. \A i \in Sections : off[i] = h.sections[i].offset /\ len[i] = h.sections[i].len
  OBVIOUS
<1> HIDE DEF off, len, meta
<1>3. 1 \in Sections /\ 2 \in Sections /\ 3 \in Sections /\ 4 \in Sections
  BY DEF Sections
<1>4. meta <= off[1]
  BY <1>1, <1>2, <1>3, AlignUp DEF meta
<1>5. \A i \in 2..4 : off[i - 1] + len[i - 1] <= off[i]
  <2> TAKE i \in 2..4
  <2>1. i \in Sections /\ i - 1 \in Sections
    BY DEF Sections
  <2>2. off[i] = Align8(off[i - 1] + len[i - 1])
    BY <1>2, <2>1
  <2>3. off[i - 1] + len[i - 1] \in Nat
    BY <1>1, <2>1
  <2> QED BY <2>2, <2>3, AlignUp
<1>6. off[1] + len[1] <= off[2] /\ off[2] + len[2] <= off[3] /\ off[3] + len[3] <= off[4]
      /\ off[4] + len[4] = h.total
  <2>1. off[2 - 1] + len[2 - 1] <= off[2] /\ off[3 - 1] + len[3 - 1] <= off[3] /\ off[4 - 1] + len[4 - 1] <= off[4]
    BY <1>5
  <2> QED BY <2>1, <1>2, <1>3
<1>7. /\ \A i \in Sections : meta <= off[i] /\ off[i] + len[i] <= h.total
      /\ \A i, j \in Sections : i < j => off[i] + len[i] <= off[j]
  BY ONLY <1>1, <1>4, <1>6 DEF Sections
<1> QED BY <1>2, <1>7 DEF meta

\* What a builder wrote opens with its options.
LEMMA OwnHeaderOpens ==
  ASSUME NEW r \in Nat, r <= MaxOrdinal, NEW t \in Nat, NEW o \in Options, ValidOptions(o),
         NEW h, HeaderOf(h, r, t, o), MetadataBytes(h) <= o.maxMetadata, h.total <= o.maxIndex
  PROVE  Accepts(h, h.total, o)
<1>1. h \in HeaderType
  BY DEF HeaderOf
<1>2. /\ h.total \in Nat /\ MetadataBytes(h) \in Nat /\ MetadataBytes(h) >= HeaderBytes
      /\ \A i \in Sections : h.sections[i].offset \in Nat /\ h.sections[i].len \in Nat
  BY <1>1, HeaderNumbers
<1>3. \A i \in Sections : /\ MetadataBytes(h) <= h.sections[i].offset
                          /\ h.sections[i].offset + h.sections[i].len <= h.total
  BY <1>1, SectionsInOrder DEF HeaderOf
<1>4. SectionLayout(h, h.total)
  BY <1>3 DEF SectionLayout, HeaderOf
<1>5. HeaderBytes <= h.total
  BY <1>2, <1>3 DEF Sections, HeaderBytes
<1>6. h.chunk >= MinChunkBytes /\ IsPowerOfTwo(h.chunk) /\ h.chunk <= o.chunk
  BY OptionFields DEF HeaderOf, ValidOptions, MinChunkBytes
<1>7. ParseHeader(h, h.total, o)
  BY <1>5, <1>6 DEF ParseHeader, HeaderOf
<1> QED BY <1>4, <1>7 DEF Accepts

-----------------------------------------------------------------------------

\* What open has checked of a file when it accepts it, as far as chunks are concerned.
Tiled(h, len) ==
    /\ h \in HeaderType /\ h.total = len /\ h.chunk > 0
    /\ \A i \in Sections :
          /\ h.sections[i].count = ChunkCount(h.sections[i].len, h.chunk)
          /\ HeaderBytes + 4 * (h.sections[i].start + h.sections[i].count) <= MetadataBytes(h)
          /\ MetadataBytes(h) <= h.sections[i].offset
          /\ h.sections[i].offset + h.sections[i].len <= len
    /\ \A i, j \in Sections : i < j =>
          /\ h.sections[i].start + h.sections[i].count <= h.sections[j].start
          /\ h.sections[i].offset + h.sections[i].len <= h.sections[j].offset

LEMMA AcceptedIsTiled ==
  ASSUME NEW h \in HeaderType, NEW len \in Nat, NEW o \in Options, Accepts(h, len, o)
  PROVE  Tiled(h, len)
<1> DEFINE counts == [j \in Sections |-> h.sections[j].count]
<1>1. /\ h.total = len /\ h.chunk >= 64
      /\ \A i \in Sections : /\ h.sections[i].start = StartOf(counts, i)
                             /\ h.sections[i].count = ChunkCount(h.sections[i].len, h.chunk)
  BY DEF Accepts, ParseHeader, MinChunkBytes
<1>2. counts \in [Sections -> Nat] /\ h.chunk \in Nat
  BY HeaderNumbers
<1>3. \A i \in Sections : counts[i] = h.sections[i].count
  OBVIOUS
<1>4. MetadataBytes(h) = HeaderBytes + 4 * Total(counts)
  BY DEF MetadataBytes
<1> HIDE DEF counts
<1>5. \A i \in Sections : /\ MetadataBytes(h) <= h.sections[i].offset
                          /\ h.sections[i].offset + h.sections[i].len <= h.total
  BY SectionsInOrder DEF Accepts, SectionLayout
<1>6. \A i, j \in Sections :
         i < j => h.sections[i].offset + h.sections[i].len <= h.sections[j].offset
  BY SectionsInOrder DEF Accepts, SectionLayout
<1>7. \A i, j \in Sections :
         i < j => h.sections[i].start + h.sections[i].count <= h.sections[j].start
  BY <1>1, <1>2, <1>3, TableStarts
<1>8. \A i \in Sections :
         HeaderBytes + 4 * (h.sections[i].start + h.sections[i].count) <= MetadataBytes(h)
  <2> TAKE i \in Sections
  <2>1. StartOf(counts, i) \in Nat /\ StartOf(counts, i) + counts[i] <= Total(counts)
        /\ Total(counts) \in Nat /\ counts[i] \in Nat
    BY <1>2, TableStarts
  <2>2. h.sections[i].start = StartOf(counts, i) /\ h.sections[i].count = counts[i]
    BY <1>1, <1>3
  <2> QED BY <2>1, <2>2, <1>4 DEF HeaderBytes
<1> QED BY <1>1, <1>2, <1>5, <1>6, <1>7, <1>8 DEF Tiled

\* One chunk of one section.
LEMMA ChunkInItsSection ==
  ASSUME NEW h, NEW len \in Nat, Tiled(h, len),
         NEW s \in Sections, NEW c \in Int, c \in 0..(h.sections[s].count - 1)
  PROVE  LET b == ChunkBytes(h, s, c)
             from == h.sections[s].offset + c * h.chunk
             end == h.sections[s].offset + h.sections[s].len
         IN  /\ c \in Nat /\ c * h.chunk \in Nat
             /\ b.from = from /\ b.from \in Nat /\ b.to \in Nat
             /\ b.from < b.to /\ b.to <= end /\ b.to <= from + h.chunk
             /\ b.to = end \/ b.to = from + h.chunk
             /\ h.sections[s].offset <= b.from
<1> DEFINE off == h.sections[s].offset
           size == h.sections[s].len
           count == h.sections[s].count
           p == c * h.chunk
           chunk == h.chunk
<1>1. off \in Nat /\ size \in Nat /\ count \in Nat /\ chunk \in Nat /\ chunk > 0
      /\ count = ChunkCount(size, chunk)
  BY HeaderNumbers DEF Tiled
<1>2. c \in Nat /\ c < count
  BY <1>1
<1>3. p \in Nat
  BY <1>1, <1>2
<1>4. p < size
  <2>1. count <= c <=> size <= c * chunk
    BY <1>1, <1>2, ChunksSuffice
  <2> QED BY <2>1, <1>1, <1>2, <1>3
<1>5. ChunkBytes(h, s, c) = [from |-> off + p, to |-> IF off + p + chunk <= off + size THEN off + p + chunk ELSE off + size]
  BY DEF ChunkBytes
<1> HIDE DEF off, size, count, p, chunk
<1> DEFINE b == ChunkBytes(h, s, c)
<1>6. b.from = off + p /\ b.to = IF off + p + chunk <= off + size THEN off + p + chunk ELSE off + size
  BY <1>5
<1> HIDE DEF b
<1>7. /\ b.from = off + p /\ b.from \in Nat /\ b.to \in Nat
      /\ b.from < b.to /\ b.to <= off + size /\ b.to <= off + p + chunk
      /\ b.to = off + size \/ b.to = off + p + chunk
      /\ off <= b.from
  BY ONLY <1>1, <1>3, <1>4, <1>6
<1> QED BY <1>2, <1>3, <1>7 DEF b, off, size, p, chunk

\* Of two chunks of one section the earlier ends before the later begins.
LEMMA ChunksOfASection ==
  ASSUME NEW h, NEW len \in Nat, Tiled(h, len), NEW s \in Sections,
         NEW c \in Int, c \in 0..(h.sections[s].count - 1),
         NEW d \in Int, d \in 0..(h.sections[s].count - 1), c < d
  PROVE  ChunkBytes(h, s, c).to <= ChunkBytes(h, s, d).from
<1> DEFINE off == h.sections[s].offset
           p == c * h.chunk
           q == d * h.chunk
           to == ChunkBytes(h, s, c).to
           from == ChunkBytes(h, s, d).from
<1>1. off \in Nat /\ h.chunk \in Nat
  BY HeaderNumbers DEF Tiled
<1>2. c \in Nat /\ p \in Nat /\ to \in Nat /\ to <= off + p + h.chunk
  BY ChunkInItsSection
<1>3. d \in Nat /\ q \in Nat /\ from = off + q
  BY ChunkInItsSection
<1>4. (c + 1) * h.chunk <= q
  BY <1>1, <1>2, <1>3, ProductGrows
<1>5. (c + 1) * h.chunk = p + h.chunk
  BY <1>1, <1>2, SMT
<1> HIDE DEF off, p, q, to, from
<1>6. to <= from
  BY <1>1, <1>2, <1>3, <1>4, <1>5
<1> QED BY <1>6 DEF to, from

\* Of two sections the earlier one's chunks end before the later one's begin.
LEMMA ChunksOfTwoSections ==
  ASSUME NEW h, NEW len \in Nat, Tiled(h, len), NEW s \in Sections, NEW z \in Sections, s < z,
         NEW c \in Int, c \in 0..(h.sections[s].count - 1),
         NEW d \in Int, d \in 0..(h.sections[z].count - 1)
  PROVE  /\ ChunkBytes(h, s, c).to <= ChunkBytes(h, z, d).from
         /\ h.sections[s].start + c < h.sections[z].start + d
<1> DEFINE end == h.sections[s].offset + h.sections[s].len
           off == h.sections[z].offset
           to == ChunkBytes(h, s, c).to
           from == ChunkBytes(h, z, d).from
<1>1. /\ h.sections[s].offset \in Nat /\ h.sections[s].len \in Nat /\ off \in Nat
      /\ h.sections[s].start \in Nat /\ h.sections[s].count \in Nat /\ h.sections[z].start \in Nat
      /\ h.sections[z].count \in Nat
  BY HeaderNumbers DEF Tiled
<1>2. to \in Nat /\ to <= end
  BY ChunkInItsSection
<1>3. from \in Nat /\ off <= from
  BY ChunkInItsSection
<1>4. end <= off /\ h.sections[s].start + h.sections[s].count <= h.sections[z].start
  BY DEF Tiled
<1> HIDE DEF to, from
<1>5. to <= from
  BY <1>1, <1>2, <1>3, <1>4
<1>6. h.sections[s].start + c < h.sections[z].start + d
  BY <1>1, <1>4
<1> QED BY <1>5, <1>6 DEF to, from

LEMMA LastChunkReachesTheEnd ==
  ASSUME NEW h, NEW len \in Nat, Tiled(h, len), NEW s \in Sections, h.sections[s].len > 0
  PROVE  \E c \in 0..(h.sections[s].count - 1) :
            ChunkBytes(h, s, c).to = h.sections[s].offset + h.sections[s].len
<1> DEFINE off == h.sections[s].offset
           size == h.sections[s].len
           count == h.sections[s].count
           chunk == h.chunk
           c == count - 1
<1>1. off \in Nat /\ size \in Nat /\ count \in Nat /\ chunk \in Nat /\ chunk > 0
      /\ count = ChunkCount(size, chunk)
  BY HeaderNumbers DEF Tiled
<1>2. size <= count * chunk
  BY <1>1, ChunkCountRoundsUp
<1>3. count > 0
  <2>1. CASE count = 0
    <3>1. 0 * chunk = 0
      BY <1>1
    <3> QED BY <1>1, <1>2, <2>1, <3>1
  <2> QED BY <1>1, <2>1
<1>4. c \in Nat /\ c \in Int /\ c \in 0..(h.sections[s].count - 1)
  BY <1>1, <1>3
<1>5. count * chunk = c * chunk + chunk
  <2>1. count = c + 1
    BY <1>1
  <2> HIDE DEF c, count
  <2>2. (c + 1) * chunk = c * chunk + chunk
    BY <1>1, <1>4, SMT
  <2> QED BY <2>1, <2>2
<1> DEFINE to == ChunkBytes(h, s, c).to
           p == c * chunk
<1> HIDE DEF c
<1>6. p \in Nat /\ to \in Nat /\ to <= off + size /\ (to = off + size \/ to = off + p + chunk)
  BY <1>4, ChunkInItsSection
<1> HIDE DEF to, p, chunk, size, off
<1>7. to = off + size
  <2>1. size <= p + chunk
    BY <1>2, <1>5 DEF p
  <2> QED BY <2>1, <1>1, <1>6
<1> QED BY <1>4, <1>7 DEF to, off, size

LEMMA TiledChunks ==
  ASSUME NEW h, Tiled(h, length), h = header, length \in Nat
  PROVE  AcceptedTiles
<1> DEFINE range(k) == ChunkBytes(h, k[1], k[2])
           slot(k) == h.sections[k[1]].start + k[2]
<1>1. \A k \in Chunks(h) : /\ k = <<k[1], k[2]>> /\ k[1] \in Sections /\ k[2] \in Int
                           /\ k[2] \in 0..(h.sections[k[1]].count - 1)
  BY DEF Chunks
<1>2. \A k \in Chunks(h) : /\ HeaderBytes + 4 * (slot(k) + 1) <= range(k).from
                           /\ MetadataBytes(h) <= range(k).from
                           /\ range(k).from < range(k).to /\ range(k).to <= length
  <2> TAKE k \in Chunks(h)
  <2> DEFINE s == k[1]
             c == k[2]
             from == range(k).from
             to == range(k).to
             off == h.sections[s].offset
  <2>1. s \in Sections /\ c \in Int /\ c \in 0..(h.sections[s].count - 1)
    BY <1>1
  <2>2. /\ off \in Nat /\ h.sections[s].len \in Nat /\ h.sections[s].count \in Nat
        /\ h.sections[s].start \in Nat /\ MetadataBytes(h) \in Nat
    BY <2>1, HeaderNumbers DEF Tiled
  <2>3. /\ 224 + 4 * (h.sections[s].start + h.sections[s].count) <= MetadataBytes(h)
        /\ MetadataBytes(h) <= off /\ off + h.sections[s].len <= length
    BY <2>1 DEF Tiled, HeaderBytes
  <2>4. from \in Nat /\ to \in Nat /\ from < to /\ to <= off + h.sections[s].len /\ off <= from
    BY <2>1, ChunkInItsSection
  <2> HIDE DEF from, to, s, c, off
  <2>5. 224 + 4 * (h.sections[s].start + c + 1) <= from /\ MetadataBytes(h) <= from
        /\ from < to /\ to <= length
    BY <2>1, <2>2, <2>3, <2>4
  <2> QED BY <2>5 DEF from, to, s, c, HeaderBytes
<1>3. \A k, l \in Chunks(h) : k # l =>
         /\ slot(k) # slot(l)
         /\ range(k).to <= range(l).from \/ range(l).to <= range(k).from
  <2> TAKE k, l \in Chunks(h)
  <2> HAVE k # l
  <2> DEFINE s == k[1]
             c == k[2]
             z == l[1]
             d == l[2]
  <2>1. /\ s \in Sections /\ c \in Int /\ c \in 0..(h.sections[s].count - 1)
        /\ z \in Sections /\ d \in Int /\ d \in 0..(h.sections[z].count - 1)
        /\ s # z \/ c # d
    BY <1>1
  <2>2. h.sections[s].start \in Nat /\ h.sections[z].start \in Nat
    BY <2>1, HeaderNumbers DEF Tiled
  <2> HIDE DEF s, c, z, d
  <2>3. CASE s < z
    <3>1. ChunkBytes(h, s, c).to <= ChunkBytes(h, z, d).from
          /\ h.sections[s].start + c < h.sections[z].start + d
      BY <2>1, <2>3, ChunksOfTwoSections
    <3>2. h.sections[s].start + c # h.sections[z].start + d
      BY <2>1, <2>2, <3>1
    <3> QED BY <3>1, <3>2 DEF s, c, z, d
  <2>4. CASE z < s
    <3>1. ChunkBytes(h, z, d).to <= ChunkBytes(h, s, c).from
          /\ h.sections[z].start + d < h.sections[s].start + c
      BY <2>1, <2>4, ChunksOfTwoSections
    <3>2. h.sections[s].start + c # h.sections[z].start + d
      BY <2>1, <2>2, <3>1
    <3> QED BY <3>1, <3>2 DEF s, c, z, d
  <2>5. CASE s = z /\ c < d
    <3>1. ChunkBytes(h, s, c).to <= ChunkBytes(h, z, d).from
      BY <2>1, <2>5, ChunksOfASection
    <3>2. h.sections[s].start + c # h.sections[z].start + d
      BY <2>1, <2>2, <2>5
    <3> QED BY <3>1, <3>2 DEF s, c, z, d
  <2>6. CASE s = z /\ d < c
    <3>1. ChunkBytes(h, z, d).to <= ChunkBytes(h, s, c).from
      BY <2>1, <2>6, ChunksOfASection
    <3>2. h.sections[s].start + c # h.sections[z].start + d
      BY <2>1, <2>2, <2>6
    <3> QED BY <3>1, <3>2 DEF s, c, z, d
  <2> QED BY <2>1, <2>3, <2>4, <2>5, <2>6 DEF Sections
<1>4. \A s \in Sections : h.sections[s].len > 0 =>
         \E c \in 0..(h.sections[s].count - 1) :
            ChunkBytes(h, s, c).to = h.sections[s].offset + h.sections[s].len
  BY LastChunkReachesTheEnd
<1>5. h.total = length
  BY DEF Tiled
<1> QED BY <1>2, <1>3, <1>4, <1>5 DEF AcceptedTiles

-----------------------------------------------------------------------------

\* build_metadata_plan and build_header: for any dictionary and options, the limit
\* checked before the sort and the one checked after it are the same.
THEOREM PlansAreExact == LayoutSpec => []PlanExact
<1>1. FormatInv => PlanExact
  <2> SUFFICES ASSUME FormatInv PROVE PlanExact
    OBVIOUS
  <2>1. phase # "limitLate"
    BY DEF FormatInv, BuilderInv
  <2>2. ASSUME phase = "limit"
        PROVE  MetadataBytes(PlannedHeader) > options.maxMetadata
    <3>1. /\ ValidOptions(options) /\ options \in Options /\ rowCount \in Nat /\ text \in Nat
          /\ ~(MetadataBytes(PlannedHeader) <= options.maxMetadata)
      BY <2>2, PlanIsTheLimit DEF FormatInv, BuilderInv, PlannedHeader
    <3>2. options.chunk > 0 /\ options.maxMetadata \in Nat
      BY <3>1, OptionFields DEF ValidOptions, MinChunkBytes
    <3>3. PlannedHeader \in HeaderType
      BY <3>1, <3>2, HeaderShape DEF PlannedHeader, HeaderOf
    <3>4. MetadataBytes(PlannedHeader) \in Nat
      BY <3>3, HeaderNumbers
    <3> QED BY <3>1, <3>2, <3>4
  <2> QED BY <2>1, <2>2 DEF PlanExact, PlannedHeader
<1> QED BY LayoutInitSound, LayoutStepSound, <1>1, PTL DEF LayoutSpec

\* write_built_index and open_file: for any dictionary and options, the writer never
\* finds itself past an offset or short of the length it announced, and the index opens
\* with the options it was built with.
THEOREM IndexesReopen == LayoutSpec => []RoundTrip
<1>1. FormatInv => RoundTrip
  <2> SUFFICES ASSUME FormatInv PROVE RoundTrip
    OBVIOUS
  <2>1. phase # "invalid"
    BY DEF FormatInv, BuilderInv
  <2>2. ASSUME damage = 0, reader # NoReader
        PROVE  (reader = options => accepted) /\ (reader.verify /\ ~options.verify => ~accepted)
    <3>1. /\ phase = "written" /\ reader \in Options /\ accepted = Accepts(header, length, reader)
          /\ header = PlannedHeader /\ length = PlannedHeader.total
      BY <2>2 DEF FormatInv, ReaderInv
    <3>2. /\ rowCount \in Nat /\ text \in Nat /\ options \in Options /\ ValidOptions(options)
          /\ rowCount <= MaxOrdinal
          /\ MetadataBytes(header) <= options.maxMetadata /\ header.total <= options.maxIndex
      BY <3>1 DEF FormatInv, BuilderInv
    <3>3. options.chunk > 0
      BY <3>2, OptionFields DEF ValidOptions, MinChunkBytes
    <3>4. HeaderOf(header, rowCount, text, options)
      BY <3>1, <3>2, <3>3, HeaderShape DEF PlannedHeader
    <3>5. Accepts(header, length, options)
      BY <3>1, <3>2, <3>4, OwnHeaderOpens
    <3>6. ASSUME reader.verify, ~options.verify PROVE ~Accepts(header, length, reader)
      <4>1. ~header.summed
        BY <3>4, <3>6 DEF HeaderOf
      <4> QED BY <4>1, <3>6 DEF Accepts, ParseHeader
    <3> QED BY <3>1, <3>5, <3>6
  <2> QED BY <2>1, <2>2 DEF RoundTrip
<1> QED BY LayoutInitSound, LayoutStepSound, <1>1, PTL DEF LayoutSpec

\* parse_header and validate_section_layout: whatever a file's header says, if open
\* accepts it the chunks are disjoint nonempty ranges of the file that make up the
\* sections, each with a checksum slot of its own in front of them.
THEOREM AcceptedIndexesTile == LayoutSpec => []AcceptedTiles
<1>1. FormatInv => AcceptedTiles
  <2> SUFFICES ASSUME FormatInv PROVE AcceptedTiles
    OBVIOUS
  <2>1. CASE accepted
    <3>1. /\ phase = "written" /\ reader \in Options /\ Accepts(header, length, reader)
          /\ header \in HeaderType /\ length \in Nat
      BY <2>1 DEF FormatInv, ReaderInv
    <3>2. Tiled(header, length)
      BY <3>1, AcceptedIsTiled
    <3> QED BY <3>1, <3>2, TiledChunks
  <2>2. CASE ~accepted
    BY <2>2 DEF AcceptedTiles
  <2> QED BY <2>1, <2>2
<1> QED BY LayoutInitSound, LayoutStepSound, <1>1, PTL DEF LayoutSpec

=============================================================================
