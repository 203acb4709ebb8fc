---------------------------- MODULE MirrorProofs ----------------------------
(***************************************************************************)
(* The sync engine and the message tools over ews.messages: the saved      *)
(* token never runs ahead of the rows or of what they say, for any number  *)
(* of items, folders, changes and faults.                                  *)
(***************************************************************************)
EXTENDS Mirror, FiniteSetTheorems, TLAPS

-----------------------------------------------------------------------------
(* The inductive invariant.                                                *)

(* The pass is inside a folder; it has not yet written its upserts.        *)
Busy == eng.pc \in InFolder
Early == eng.pc \in {"walk", "ups"}

(* Every number on Exchange and every token is one of the changes made.    *)
SrvOK ==
    /\ head <= MaxChanges
    /\ \A f \in Folders : tok[f] <= head
    /\ \A i \in Items :
         /\ srv[i].body <= head /\ srv[i].meta <= head
         /\ srv[i].born <= srv[i].mod /\ srv[i].mod <= head /\ srv[i].rmod <= head
         /\ srv[i].st = "gone" => srv[i].rmod <= srv[i].mod
         /\ srv[i].st # "new" => srv[i].mod > 0
         /\ row[i].there => srv[i].st # "new"

(* A tombstone in flight is of an item that is gone.                       *)
WriteOK == \A w \in wt : /\ w.op = "tomb" => srv[w.id].st = "gone"
                         /\ w.op = "read" => w.val \in 0..1

(* The pass: its folder is one it knows, its buffers hold what it was told *)
(* since the folder's token, and at the end they are empty.                *)
EngOK ==
    /\ eng.pc # "clean" => eng.gone = {}
    /\ eng.known \subseteq folders
    /\ eng.todo \subseteq eng.known
    /\ Busy => eng.cur \in eng.todo
    /\ eng.pc = "walk" => eng.n < FlushEvery /\ ~eng.fin
    /\ eng.pc = "token" => eng.fin
    /\ eng.pc \in {"flags", "token"} => eng.dels = {}
    /\ eng.pc = "token" => DOMAIN eng.ups = {} /\ DOMAIN eng.rf = {}
    /\ ~Busy => DOMAIN eng.told = {} /\ ~eng.fin /\ eng.n = 0
    /\ ~Busy /\ eng.pc # "item" => eng.todo = {}
    /\ DOMAIN eng.ups \cup eng.dels \cup DOMAIN eng.rf \subseteq DOMAIN eng.told
    /\ \A i \in DOMAIN eng.told : /\ Home[i] = eng.cur /\ srv[i].st # "new"
                                  /\ srv[i].born <= eng.told[i]
                                  /\ tok[eng.cur] < eng.told[i]
                                  /\ eng.told[i] <= Num(i) /\ eng.told[i] <= head
    /\ \A i \in DOMAIN eng.ups : tok[eng.cur] < srv[i].mod
    /\ \A i \in eng.dels : srv[i].st = "gone"
    /\ eng.fin => /\ tok[eng.cur] <= eng.pos /\ eng.pos <= head
                  /\ \A i \in DOMAIN eng.told : eng.told[i] <= eng.pos

\* What is known of an item: by the pass on its folder, or by the token.
As(i) == IF i \in DOMAIN eng.told THEN eng.told[i] ELSE tok[Home[i]]

(* The pass holds a row for the item that it has not written.              *)
Pending(i) == Early /\ i \in DOMAIN eng.ups

(* What is known of an item is in the rows, or will be by the next flush.  *)
Presence(i) ==
    srv[i].st # "new" /\ srv[i].mod <= As(i) =>
      /\ There(i) => row[i].there \/ Pending(i)
      /\ ~There(i) /\ Pending(i) => i \in eng.dels
      /\ ~There(i) /\ row[i].there => i \in eng.dels \/ <<i, "ghost">> \in late

(* A row was made by the token, by the pass under way, by a late write, or *)
(* its folder is gone.                                                     *)
Vouched(i) ==
    row[i].there =>
      \/ srv[i].born <= tok[Home[i]]
      \/ i \in DOMAIN eng.told
      \/ <<i, "ghost">> \in late
      \/ Home[i] \notin hier /\ ~(eng.pc \in InFolder \ {"walk"} /\ eng.cur = Home[i])

(* A pass that was told everything has been told of every change up to its *)
(* position.                                                               *)
Complete ==
    eng.fin => \A i \in Items : Home[i] = eng.cur /\ srv[i].st # "new" =>
      /\ There(i) /\ Num(i) <= eng.pos => Num(i) <= As(i)
      /\ srv[i].mod <= eng.pos => srv[i].mod <= As(i) \/ (~There(i) /\ srv[i].born > As(i))

(* The subject, the flags and the other fields of an item that is known.   *)
Meta(i) ==
    There(i) /\ flagged /\ srv[i].mod <= As(i) =>
      IF Pending(i) THEN eng.ups[i].meta = srv[i].meta
      ELSE row[i].there => row[i].meta = srv[i].meta \/ <<i, "meta">> \in late

(* The body of an item that is known: absent, or the current one.          *)
Body(i) ==
    There(i) /\ row[i].there /\ ~Pending(i) /\ srv[i].mod <= As(i)
      => row[i].body \in {0, srv[i].body} \/ <<i, "body">> \in late

(* The read flag of an item that is known, in the buffer that wins.        *)
Read(i) ==
    There(i) /\ Num(i) <= As(i) =>
      IF i \in DOMAIN eng.rf
      THEN i \notin DOMAIN eng.ups => eng.rf[i] = srv[i].read
      ELSE IF Pending(i) THEN eng.ups[i].read = srv[i].read
      ELSE row[i].there => row[i].read = srv[i].read \/ <<i, "read">> \in late

(* All of it, of one item.                                                 *)
ItemOK(i) == Presence(i) /\ Vouched(i) /\ Meta(i) /\ Body(i) /\ Read(i)

(* What every step of the engine, of the tools and of Exchange keeps.      *)
MirrorInv == /\ TypeOK /\ SrvOK /\ WriteOK /\ EngOK /\ Complete
             /\ OrphansOnlyByFault
             /\ \A i \in Items : ItemOK(i)

(* A folder that went does not come back, and has no items.                *)
FoldersStayGone ==
    /\ eng.gone \cap hier = {}
    /\ \A i \in Items : There(i) => Home[i] \in hier

-----------------------------------------------------------------------------
(* Partial functions, and what the types say.                              *)

(* A partial function is one on a part of the domain.                      *)
LEMMA PartialIs ==
    ASSUME NEW D, NEW R, NEW f \in Partial(D, R)
    PROVE  DOMAIN f \subseteq D /\ \A i \in DOMAIN f : f[i] \in R
  BY DEF Partial

(* Putting one value into a partial function.                              *)
LEMMA PutTyped ==
    ASSUME NEW D, NEW R, NEW f \in Partial(D, R), NEW i \in D, NEW v \in R
    PROVE  Put(f, i, v) \in Partial(D, R)
  <1>1. DOMAIN f \subseteq D /\ \A j \in DOMAIN f : f[j] \in R
    BY PartialIs
  <1>2. Put(f, i, v) \in [DOMAIN f \cup {i} -> R]
    BY <1>1 DEF Put
  <1>3. DOMAIN f \cup {i} \in SUBSET D
    BY <1>1
  <1> QED
    BY <1>2, <1>3 DEF Partial

(* The empty buffer is a partial function.                                 *)
LEMMA EmptyIs ==
    ASSUME NEW D, NEW R, NEW x
    PROVE  [i \in {} |-> x] \in Partial(D, R) /\ DOMAIN [i \in {} |-> x] = {}
  <1>1. [i \in {} |-> x] \in [{} -> R]
    OBVIOUS
  <1>2. {} \in SUBSET D
    OBVIOUS
  <1> QED
    BY <1>1, <1>2 DEF Partial

(* An engine at rest is typed, and holds nothing.                          *)
LEMMA OffIs ==
    /\ Off \in Engine
    /\ DOMAIN Off.told = {} /\ DOMAIN Off.ups = {} /\ DOMAIN Off.rf = {}
    /\ Off.told \in Partial(Items, Version) /\ Off.ups \in Partial(Items, Snapshot)
    /\ Off.rf \in Partial(Items, 0..1)
  <1>1. /\ [i \in {} |-> 0] \in Partial(Items, Version)
        /\ [i \in {} |-> 0] \in Partial(Items, 0..1)
        /\ [i \in {} |-> [meta |-> 0, read |-> 0]] \in Partial(Items, Snapshot)
    BY EmptyIs
  <1>2. 0 \in Version /\ 0 \in 0..FlushEvery /\ Inbox \in Folders
    BY MirrorAssumption DEF Version
  <1> QED
    BY <1>1, <1>2 DEF Off, Engine

(* The types, field by field.                                              *)
LEMMA Types ==
    ASSUME TypeOK
    PROVE  /\ head \in Nat
           /\ \A f \in Folders : tok[f] \in Nat
           /\ \A i \in Items :
                /\ Home[i] \in Folders
                /\ srv[i] \in Item /\ row[i] \in Row
                /\ srv[i].mod \in Nat /\ srv[i].rmod \in Nat /\ srv[i].born \in Nat
                /\ srv[i].body \in Nat /\ srv[i].meta \in Nat
                /\ Num(i) \in {srv[i].mod, srv[i].rmod}
                /\ Num(i) >= srv[i].mod /\ Num(i) >= srv[i].rmod
                /\ Num(i) \in Nat
           /\ \A i \in DOMAIN eng.told : i \in Items /\ eng.told[i] \in Nat
           /\ \A i \in Items : As(i) \in Nat
           /\ DOMAIN eng.ups \subseteq Items /\ DOMAIN eng.rf \subseteq Items
           /\ eng.pos \in Nat /\ eng.n \in Nat /\ eng.cur \in Folders
           /\ eng.fin \in BOOLEAN
  <1>0. \A v \in Version : v \in Nat
    BY MirrorAssumption DEF Version
  <1>1. head \in Nat /\ \A f \in Folders : tok[f] \in Nat
    BY <1>0 DEF TypeOK
  <1>2. ASSUME NEW i \in Items
        PROVE  /\ Home[i] \in Folders
               /\ srv[i] \in Item /\ row[i] \in Row
               /\ srv[i].mod \in Nat /\ srv[i].rmod \in Nat /\ srv[i].born \in Nat
               /\ srv[i].body \in Nat /\ srv[i].meta \in Nat
    BY <1>0, MirrorAssumption DEF TypeOK, Item
  <1>3. ASSUME NEW i \in Items
        PROVE  /\ Num(i) \in {srv[i].mod, srv[i].rmod}
               /\ Num(i) >= srv[i].mod /\ Num(i) >= srv[i].rmod
               /\ Num(i) \in Nat
    BY <1>2 DEF Num
  <1>4. eng \in Engine
    BY DEF TypeOK
  <1>5. /\ eng.told \in Partial(Items, Version) /\ eng.ups \in Partial(Items, Snapshot)
        /\ eng.rf \in Partial(Items, 0..1)
        /\ eng.pos \in Version /\ eng.n \in 0..FlushEvery /\ eng.cur \in Folders
        /\ eng.fin \in BOOLEAN
    BY <1>4 DEF Engine
  <1>6. \A i \in DOMAIN eng.told : i \in Items /\ eng.told[i] \in Nat
    BY <1>0, <1>5, PartialIs
  <1>7. DOMAIN eng.ups \subseteq Items /\ DOMAIN eng.rf \subseteq Items
    BY <1>5, PartialIs
  <1>8. \A i \in Items : As(i) \in Nat
    BY <1>1, <1>2, <1>6 DEF As
  <1>9. eng.pos \in Nat /\ eng.n \in Nat
    BY <1>0, <1>5, MirrorAssumption
  <1> QED
    BY <1>1, <1>2, <1>3, <1>5, <1>6, <1>7, <1>8, <1>9

(* What is known of an item was so at some change. *)
LEMMA KnownSoFar ==
    ASSUME MirrorInv, NEW i \in Items
    PROVE  As(i) <= head
  BY Types DEF MirrorInv, SrvOK, EngOK, As

-----------------------------------------------------------------------------
(* Exchange changes.                                                       *)

\* Item i in a step of Exchange: nothing, its read flag only, or more.
Evolves(i) ==
    /\ srv'[i] \in Item
    /\ srv'[i].born <= srv'[i].mod /\ srv'[i].mod <= head' /\ srv'[i].rmod <= head'
    /\ srv'[i].body <= head' /\ srv'[i].meta <= head'
    /\ srv[i].st # "new" => srv'[i].st # "new" /\ srv'[i].born = srv[i].born
    /\ srv[i].st = "gone" => srv'[i].st = "gone"
    /\ srv'[i].st = "gone" => srv'[i].rmod <= srv'[i].mod
    /\ \/ srv'[i] = srv[i]
       \/ head' = head + 1 /\ srv'[i].mod = head + 1
       \/ /\ head' = head + 1 /\ srv'[i].rmod = head + 1 /\ srv'[i].mod = srv[i].mod
          /\ srv'[i].st = srv[i].st /\ srv'[i].born = srv[i].born
          /\ srv'[i].body = srv[i].body /\ srv'[i].meta = srv[i].meta

(* A change on Exchange gets a number no token has reached.                *)
LEMMA ExchangeKeeps ==
    ASSUME MirrorInv, \A i \in Items : Evolves(i), head' >= head, head' <= MaxChanges,
           srv' \in [Items -> Item], hier' \subseteq hier, head' \in Nat,
           UNCHANGED <<row, folders, tok, flagged, eng, faults, orphans, late>>,
           wt' = wt \/ \E w \in Write : wt' = {w}, WriteOK'
    PROVE  MirrorInv'
  <1>t. TypeOK
    BY DEF MirrorInv
  <1>1. TypeOK'
    <2>1. Cardinality(wt') <= 1 /\ wt' \in SUBSET Write
      <3>1. CASE wt' = wt
        BY <1>t, <3>1 DEF TypeOK
      <3>2. CASE \E w \in Write : wt' = {w}
        <4>1. PICK w \in Write : wt' = {w}
          BY <3>2
        <4>2. Cardinality({w}) = 1
          BY FS_Singleton
        <4> QED
          BY <4>1, <4>2
      <3> QED
        BY <3>1, <3>2
    <2>2. head' \in Version
      BY MirrorAssumption DEF Version
    <2>3. hier' \in SUBSET Folders
      BY <1>t DEF TypeOK
    <2> QED
      BY <1>t, <2>1, <2>2, <2>3 DEF TypeOK
  <1>2. SrvOK'
    <2>1. \A f \in Folders : tok[f] <= head'
      BY <1>t, Types DEF MirrorInv, SrvOK
    <2>2. ASSUME NEW i \in Items
          PROVE  /\ srv'[i].body <= head' /\ srv'[i].meta <= head'
                 /\ srv'[i].born <= srv'[i].mod /\ srv'[i].mod <= head'
                 /\ srv'[i].rmod <= head'
                 /\ srv'[i].st = "gone" => srv'[i].rmod <= srv'[i].mod
                 /\ row[i].there => srv'[i].st # "new"
      BY DEF MirrorInv, SrvOK, Evolves
    <2>3. ASSUME NEW i \in Items, srv'[i].st # "new" PROVE srv'[i].mod > 0
      <3>1. head \in Nat /\ (srv[i].st # "new" => srv[i].mod > 0)
        BY <1>t, Types DEF MirrorInv, SrvOK
      <3> QED
        BY <2>3, <3>1 DEF Evolves
    <2> QED
      BY <2>1, <2>2, <2>3 DEF SrvOK
  <1>3. EngOK'
    <2>1. \A i \in DOMAIN eng.told : /\ i \in Items /\ srv'[i].st # "new"
                                     /\ srv'[i].born <= eng.told[i] /\ eng.told[i] <= head'
      BY <1>t, Types DEF MirrorInv, EngOK, Evolves
    <2>2. eng.fin => eng.pos <= head'
      BY <1>t, Types DEF MirrorInv, EngOK
    <2>3. ASSUME NEW i \in DOMAIN eng.told PROVE eng.told[i] <= Num(i)'
      <3>1. /\ i \in Items /\ eng.told[i] \in Nat /\ eng.told[i] <= Num(i)
            /\ eng.told[i] <= head /\ head \in Nat
        BY <1>t, Types DEF MirrorInv, EngOK
      <3>2. srv'[i].mod \in Nat /\ srv'[i].rmod \in Nat
        BY <3>1, MirrorAssumption DEF Item, Version
      <3> QED
        BY <3>1, <3>2 DEF Evolves, Num
    <2>4. ASSUME NEW i \in DOMAIN eng.ups PROVE tok[eng.cur] < srv'[i].mod
      <3>1. /\ i \in Items /\ tok[eng.cur] < srv[i].mod /\ tok[eng.cur] \in Nat
            /\ head \in Nat /\ tok[eng.cur] <= head
        BY <1>t, Types DEF MirrorInv, EngOK, SrvOK
      <3> QED
        BY <3>1 DEF Evolves
    <2>5. \A i \in eng.dels : srv'[i].st = "gone"
      BY <1>t, Types DEF MirrorInv, EngOK, Evolves
    <2> QED
      BY <2>1, <2>2, <2>3, <2>4, <2>5 DEF MirrorInv, EngOK, Busy
  <1>4. OrphansOnlyByFault'
    BY DEF MirrorInv, OrphansOnlyByFault
  <1>5. ASSUME NEW i \in Items
        PROVE  /\ As(i)' = As(i) /\ As(i) \in Nat /\ As(i) <= head
               /\ \/ srv'[i] = srv[i] /\ Num(i)' = Num(i)
                  \/ /\ srv'[i].mod > As(i) /\ srv'[i].mod > head
                     /\ Num(i)' > As(i) /\ Num(i)' > head
                  \/ /\ Num(i)' > As(i) /\ Num(i)' > head
                     /\ srv'[i].mod = srv[i].mod /\ srv'[i].st = srv[i].st
                     /\ srv'[i].born = srv[i].born
                     /\ srv'[i].body = srv[i].body /\ srv'[i].meta = srv[i].meta
    <2>1. As(i)' = As(i) /\ As(i) \in Nat /\ As(i) <= head
      BY <1>t, Types, KnownSoFar DEF As
    <2>2. /\ Num(i)' \in Nat /\ Num(i)' >= srv'[i].mod /\ Num(i)' >= srv'[i].rmod
          /\ srv'[i].mod \in Nat /\ srv'[i].rmod \in Nat /\ head \in Nat
      <3>1. srv'[i].mod \in Nat /\ srv'[i].rmod \in Nat
        BY MirrorAssumption DEF Item, Version
      <3> QED
        BY <1>t, <3>1, Types DEF Num
    <2>3. CASE srv'[i] = srv[i]
      BY <2>1, <2>3 DEF Num
    <2>4. CASE head' = head + 1 /\ srv'[i].mod = head + 1
      BY <2>1, <2>2, <2>4
    <2>5. CASE /\ head' = head + 1 /\ srv'[i].rmod = head + 1 /\ srv'[i].mod = srv[i].mod
               /\ srv'[i].st = srv[i].st /\ srv'[i].born = srv[i].born
               /\ srv'[i].body = srv[i].body /\ srv'[i].meta = srv[i].meta
      BY <2>1, <2>2, <2>5
    <2> QED
      BY <2>3, <2>4, <2>5 DEF Evolves
  <1>6. Complete'
    <2> SUFFICES ASSUME eng.fin, NEW i \in Items, Home[i] = eng.cur, srv'[i].st # "new"
                 PROVE  /\ There(i)' /\ Num(i)' <= eng.pos => Num(i)' <= As(i)
                        /\ srv'[i].mod <= eng.pos => \/ srv'[i].mod <= As(i)
                                                     \/ ~There(i)' /\ srv'[i].born > As(i)
      BY <1>5 DEF Complete
    <2>1. eng.pos \in Nat /\ eng.pos <= head /\ head \in Nat
      BY <1>t, Types DEF MirrorInv, EngOK
    <2>2. srv'[i].mod \in Nat /\ Num(i)' \in Nat
      <3>1. srv'[i].mod \in Nat /\ srv'[i].rmod \in Nat
        BY MirrorAssumption DEF Item, Version
      <3> QED
        BY <3>1 DEF Num
    <2>3. CASE srv'[i] = srv[i] /\ Num(i)' = Num(i)
      BY <2>3 DEF MirrorInv, Complete, There
    <2>4. CASE srv'[i].mod > head /\ Num(i)' > head
      BY <2>1, <2>2, <2>4
    <2>5. CASE /\ Num(i)' > head /\ srv'[i].mod = srv[i].mod /\ srv'[i].st = srv[i].st
               /\ srv'[i].born = srv[i].born
      BY <2>1, <2>2, <2>5 DEF MirrorInv, Complete, There
    <2> QED
      BY <1>5, <2>3, <2>4, <2>5
  <1>7. ASSUME NEW i \in Items PROVE ItemOK(i)'
    <2>0. ItemOK(i) /\ Pending(i)' = Pending(i) /\ srv'[i].mod \in Nat /\ Num(i)' \in Nat
      <3>1. srv'[i].mod \in Nat /\ srv'[i].rmod \in Nat
        BY MirrorAssumption DEF Item, Version
      <3> QED
        BY <3>1 DEF MirrorInv, Pending, Early, Num
    <2>1. Vouched(i)'
      <3>1. row[i].there => srv'[i].born = srv[i].born
        BY DEF MirrorInv, SrvOK, Evolves
      <3> QED
        BY <2>0, <3>1 DEF ItemOK, Vouched
    <2>2. CASE srv'[i] = srv[i] /\ Num(i)' = Num(i)
      BY <1>5, <2>0, <2>1, <2>2 DEF ItemOK, Presence, Meta, Body, Read, There
    <2>3. CASE srv'[i].mod > As(i) /\ Num(i)' > As(i)
      BY <1>5, <2>0, <2>1, <2>3 DEF ItemOK, Presence, Meta, Body, Read
    <2>4. CASE /\ Num(i)' > As(i)
               /\ srv'[i].mod = srv[i].mod /\ srv'[i].st = srv[i].st
               /\ srv'[i].born = srv[i].born
               /\ srv'[i].body = srv[i].body /\ srv'[i].meta = srv[i].meta
      BY <1>5, <2>0, <2>1, <2>4 DEF ItemOK, Presence, Meta, Body, Read, There
    <2> QED
      BY <1>5, <2>2, <2>3, <2>4
  <1> QED
    BY <1>1, <1>2, <1>3, <1>4, <1>6, <1>7 DEF MirrorInv

(* A step of Exchange leaves the writes in flight as right as they were. *)
LEMMA WritesStay ==
    ASSUME MirrorInv, \A i \in Items : Evolves(i), wt' = wt
    PROVE  WriteOK'
  BY DEF MirrorInv, TypeOK, Write, WriteOK, Evolves

(* A change of one item that does not move its birth or bring it back. *)
LEMMA ChangeEvolves ==
    ASSUME MirrorInv, NEW i \in Items, NEW s \in Item, Changed(i, s),
           s.born <= s.mod, s.mod <= head + 1, s.rmod <= head + 1,
           s.body <= head + 1, s.meta <= head + 1, s.st # "new",
           srv[i].st # "new" => s.born = srv[i].born, srv[i].st # "gone",
           s.st = "gone" => s.rmod <= s.mod,
           \/ s = srv[i]
           \/ s.mod = head + 1
           \/ /\ s.rmod = head + 1 /\ s.mod = srv[i].mod /\ s.st = srv[i].st
              /\ s.born = srv[i].born /\ s.body = srv[i].body /\ s.meta = srv[i].meta
    PROVE  /\ \A j \in Items : Evolves(j)
           /\ head' >= head /\ head' <= MaxChanges /\ head' \in Nat
           /\ srv' \in [Items -> Item] /\ hier' \subseteq hier
  <1>t. TypeOK
    BY DEF MirrorInv
  <1>1. head \in Nat /\ head' = head + 1 /\ head' <= MaxChanges /\ hier' = hier
    BY <1>t, Types, MirrorAssumption DEF Changed, MayChange
  <1>2. /\ srv \in [Items -> Item] /\ srv' = [srv EXCEPT ![i] = s]
    BY <1>t DEF TypeOK, Changed
  <1>3. srv' \in [Items -> Item] /\ srv'[i] = s /\ \A j \in Items : j # i => srv'[j] = srv[j]
    BY <1>2
  <1>4. Evolves(i)
    BY <1>1, <1>3 DEF Evolves
  <1>5. ASSUME NEW j \in Items, j # i PROVE Evolves(j)
    <2>1. /\ srv[j].body \in Nat /\ srv[j].meta \in Nat /\ srv[j].mod \in Nat
          /\ srv[j].rmod \in Nat
      BY <1>t, Types
    <2> QED
      BY <1>1, <1>3, <1>5, <2>1 DEF Evolves, MirrorInv, SrvOK
  <1> QED
    BY <1>1, <1>3, <1>4, <1>5

(* What an item there says of itself, one change before the next. *)
LEMMA ItemBounds ==
    ASSUME MirrorInv, NEW i \in Items, MayChange
    PROVE  /\ head \in Nat /\ head + 1 \in Version /\ head + 1 <= MaxChanges
           /\ srv[i] \in Item
           /\ srv[i].mod \in Nat /\ srv[i].rmod \in Nat /\ srv[i].born \in Nat
           /\ srv[i].body \in Nat /\ srv[i].meta \in Nat
           /\ srv[i].body <= head /\ srv[i].meta <= head
           /\ srv[i].body + 1 \in Version /\ srv[i].meta + 1 \in Version
           /\ srv[i].born <= srv[i].mod /\ srv[i].mod <= head /\ srv[i].rmod <= head
  <1>1. TypeOK
    BY DEF MirrorInv
  <1>2. /\ head \in Nat /\ head < MaxChanges /\ MaxChanges \in Nat
        /\ srv[i] \in Item
        /\ srv[i].mod \in Nat /\ srv[i].rmod \in Nat /\ srv[i].born \in Nat
        /\ srv[i].body \in Nat /\ srv[i].meta \in Nat
    BY <1>1, Types, MirrorAssumption DEF MayChange
  <1>3. /\ srv[i].body <= head /\ srv[i].meta <= head
        /\ srv[i].born <= srv[i].mod /\ srv[i].mod <= head /\ srv[i].rmod <= head
    BY DEF MirrorInv, SrvOK
  <1> QED
    BY <1>2, <1>3 DEF Version

(* An item arrives.                                                        *)
LEMMA ArriveKeeps ==
    ASSUME MirrorInv, NEW i \in Items, Arrive(i)
    PROVE  MirrorInv'
  <1> DEFINE s == [st |-> "there", body |-> 1, meta |-> 0, read |-> 0,
                   born |-> head + 1, mod |-> head + 1, rmod |-> 0]
  <1>1. Changed(i, s) /\ MayChange /\ srv[i].st = "new"
    BY DEF Arrive, Changed
  <1>2. /\ head \in Nat /\ head + 1 \in Version
    BY <1>1, ItemBounds
  <1>3. s \in Item
    BY <1>2, MirrorAssumption DEF Item, Version
  <1>4. /\ \A j \in Items : Evolves(j)
        /\ head' >= head /\ head' <= MaxChanges /\ head' \in Nat
        /\ srv' \in [Items -> Item] /\ hier' \subseteq hier
    <2>1. /\ s.born <= s.mod /\ s.mod <= head + 1 /\ s.rmod <= head + 1
          /\ s.body <= head + 1 /\ s.meta <= head + 1 /\ s.st = "there"
          /\ s.mod = head + 1
      BY <1>2
    <2> HIDE DEF s
    <2> QED
      BY <1>1, <1>3, <2>1, ChangeEvolves
  <1>5. /\ UNCHANGED <<row, folders, tok, flagged, eng, faults, orphans, late>>
        /\ wt' = wt
    BY DEF Arrive, store, history
  <1> QED
    BY <1>4, <1>5, WritesStay, ExchangeKeeps

(* An edit, a read mark or a deletion moves one item forward.              *)
LEMMA EditEvolves ==
    ASSUME MirrorInv, NEW i \in Items, There(i), NEW s,
           \/ s = [srv[i] EXCEPT !.body = @ + 1, !.mod = head + 1]
           \/ s = [srv[i] EXCEPT !.meta = @ + 1, !.mod = head + 1]
           \/ s = [srv[i] EXCEPT !.read = 1 - @, !.rmod = head + 1]
           \/ s = [srv[i] EXCEPT !.st = "gone", !.mod = head + 1],
           Changed(i, s)
    PROVE  /\ \A j \in Items : Evolves(j)
           /\ head' >= head /\ head' <= MaxChanges /\ head' \in Nat
           /\ srv' \in [Items -> Item] /\ hier' \subseteq hier
           /\ srv'[i] = s
  <1>0. /\ head \in Nat /\ head + 1 \in Version /\ head + 1 <= MaxChanges
        /\ srv[i] \in Item
        /\ srv[i].mod \in Nat /\ srv[i].rmod \in Nat /\ srv[i].born \in Nat
        /\ srv[i].body \in Nat /\ srv[i].meta \in Nat
        /\ srv[i].body <= head /\ srv[i].meta <= head
        /\ srv[i].body + 1 \in Version /\ srv[i].meta + 1 \in Version
        /\ srv[i].born <= srv[i].mod /\ srv[i].mod <= head /\ srv[i].rmod <= head
    BY ItemBounds DEF Changed
  <1>1. srv[i].st = "there"
    BY DEF There
  <1>8. srv' = [srv EXCEPT ![i] = s] /\ srv \in [Items -> Item]
    BY DEF Changed, MirrorInv, TypeOK
  <1>2. CASE s = [srv[i] EXCEPT !.body = @ + 1, !.mod = head + 1]
    <2>1. s \in Item
      BY <1>0, <1>2 DEF Item
    <2>2. /\ s.born <= s.mod /\ s.mod = head + 1 /\ s.rmod <= head + 1
          /\ s.body <= head + 1 /\ s.meta <= head + 1 /\ s.st = "there"
          /\ s.born = srv[i].born
      BY <1>0, <1>1, <1>2 DEF Item
    <2> QED
      BY <1>0, <1>1, <1>8, <2>1, <2>2, ChangeEvolves
  <1>3. CASE s = [srv[i] EXCEPT !.meta = @ + 1, !.mod = head + 1]
    <2>1. s \in Item
      BY <1>0, <1>3 DEF Item
    <2>2. /\ s.born <= s.mod /\ s.mod = head + 1 /\ s.rmod <= head + 1
          /\ s.body <= head + 1 /\ s.meta <= head + 1 /\ s.st = "there"
          /\ s.born = srv[i].born
      BY <1>0, <1>1, <1>3 DEF Item
    <2> QED
      BY <1>0, <1>1, <1>8, <2>1, <2>2, ChangeEvolves
  <1>4. CASE s = [srv[i] EXCEPT !.read = 1 - @, !.rmod = head + 1]
    <2>0. 1 - srv[i].read \in 0..1
      BY <1>0 DEF Item
    <2>1. s \in Item
      BY <1>0, <1>4, <2>0 DEF Item
    <2>2. /\ s.born <= s.mod /\ s.mod <= head + 1 /\ s.rmod = head + 1
          /\ s.body <= head + 1 /\ s.meta <= head + 1 /\ s.st = "there"
          /\ s.born = srv[i].born /\ s.mod = srv[i].mod
          /\ s.body = srv[i].body /\ s.meta = srv[i].meta
      BY <1>0, <1>1, <1>4 DEF Item
    <2> QED
      BY <1>0, <1>1, <1>8, <2>1, <2>2, ChangeEvolves
  <1>5. CASE s = [srv[i] EXCEPT !.st = "gone", !.mod = head + 1]
    <2>1. s \in Item
      BY <1>0, <1>5 DEF Item
    <2>2. /\ s.born <= s.mod /\ s.mod = head + 1 /\ s.rmod <= head + 1
          /\ s.body <= head + 1 /\ s.meta <= head + 1 /\ s.st = "gone"
          /\ s.born = srv[i].born /\ s.rmod <= s.mod
      BY <1>0, <1>1, <1>5 DEF Item
    <2> QED
      BY <1>0, <1>1, <1>8, <2>1, <2>2, ChangeEvolves
  <1> QED
    BY <1>2, <1>3, <1>4, <1>5

(* An item is edited, marked or deleted.                                   *)
LEMMA EditKeeps ==
    ASSUME MirrorInv, NEW i \in Items, Edit(i)
    PROVE  MirrorInv'
  <1>1. PICK s : /\ Changed(i, s)
                 /\ \/ s = [srv[i] EXCEPT !.body = @ + 1, !.mod = head + 1]
                    \/ s = [srv[i] EXCEPT !.meta = @ + 1, !.mod = head + 1]
                    \/ s = [srv[i] EXCEPT !.read = 1 - @, !.rmod = head + 1]
                    \/ s = [srv[i] EXCEPT !.st = "gone", !.mod = head + 1]
    BY DEF Edit
  <1>4. /\ \A j \in Items : Evolves(j)
        /\ head' >= head /\ head' <= MaxChanges /\ head' \in Nat
        /\ srv' \in [Items -> Item] /\ hier' \subseteq hier
    BY <1>1, EditEvolves DEF Edit
  <1>5. /\ UNCHANGED <<row, folders, tok, flagged, eng, faults, orphans, late>>
        /\ wt' = wt
    BY DEF Edit, store, history
  <1> QED
    BY <1>4, <1>5, WritesStay, ExchangeKeeps

(* A folder goes, with its items.                                          *)
LEMMA RemoveFolderKeeps ==
    ASSUME MirrorInv, NEW f \in Folders, RemoveFolder(f)
    PROVE  MirrorInv'
  <1>0. MayChange /\ head' = head + 1 /\ hier' \subseteq hier
    BY DEF RemoveFolder
  <1>t. TypeOK /\ head \in Nat /\ head' \in Nat /\ head' >= head /\ head' <= MaxChanges
    BY <1>0, Types, MirrorAssumption DEF MirrorInv, MayChange
  <1>1. ASSUME NEW i \in Items
        PROVE  srv'[i] \in Item /\ Evolves(i)
    <2>0. /\ head \in Nat /\ head + 1 \in Version /\ head + 1 <= MaxChanges
          /\ srv[i] \in Item
          /\ srv[i].mod \in Nat /\ srv[i].rmod \in Nat /\ srv[i].born \in Nat
          /\ srv[i].body \in Nat /\ srv[i].meta \in Nat
          /\ srv[i].body <= head /\ srv[i].meta <= head
          /\ srv[i].born <= srv[i].mod /\ srv[i].mod <= head /\ srv[i].rmod <= head
          /\ (srv[i].st = "gone" => srv[i].rmod <= srv[i].mod)
      BY <1>0, ItemBounds DEF MirrorInv, SrvOK
    <2>1. CASE Home[i] = f /\ There(i)
      <3>1. srv'[i] = [srv[i] EXCEPT !.st = "gone", !.mod = head + 1]
        BY <2>1 DEF RemoveFolder
      <3>2. srv'[i] \in Item
        BY <2>0, <3>1 DEF Item
      <3>3. /\ srv'[i].mod = head + 1 /\ srv'[i].st = "gone" /\ srv'[i].born = srv[i].born
            /\ srv'[i].rmod = srv[i].rmod /\ srv'[i].body = srv[i].body
            /\ srv'[i].meta = srv[i].meta
        BY <2>0, <3>1 DEF Item
      <3> QED
        BY <1>0, <2>0, <3>2, <3>3 DEF Evolves
    <2>2. CASE ~(Home[i] = f /\ There(i))
      <3>1. srv'[i] = srv[i]
        BY <2>2 DEF RemoveFolder
      <3> QED
        BY <1>0, <2>0, <3>1 DEF Evolves
    <2> QED
      BY <2>1, <2>2
  <1>2. srv' \in [Items -> Item]
    <2>1. srv' = [i \in Items |-> srv'[i]]
      BY DEF RemoveFolder
    <2> QED
      BY <1>1, <2>1
  <1>5. /\ UNCHANGED <<row, folders, tok, flagged, eng, faults, orphans, late>>
        /\ wt' = wt
    BY DEF RemoveFolder, store, history
  <1> QED
    BY <1>0, <1>t, <1>1, <1>2, <1>5, WritesStay, ExchangeKeeps

-----------------------------------------------------------------------------
(* The tools: a change of Exchange and a write in flight.                   *)

(* A message tool changes one item and starts a write through.             *)
LEMMA ToolWrites ==
    ASSUME NEW op \in {"read", "meta", "tomb", "body"}, NEW i \in Items, NEW v \in Version,
           Tool(op, i, v),
           op = "tomb" => srv'[i].st = "gone", op = "read" => v \in 0..1
    PROVE  /\ \E w \in Write : wt' = {w}
           /\ WriteOK'
           /\ UNCHANGED <<row, folders, tok, flagged, eng, faults, orphans, late>>
  <1> DEFINE w == [op |-> op, id |-> i, val |-> v]
  <1>1. wt' = {w} /\ w \in Write
    BY DEF Tool, Write
  <1>2. w.op = op /\ w.id = i /\ w.val = v
    OBVIOUS
  <1>3. WriteOK'
    <2> HIDE DEF w
    <2> QED
      BY <1>1, <1>2 DEF WriteOK
  <1> QED
    BY <1>1, <1>3 DEF Tool, store, history

(* mark_read.                                                              *)
LEMMA SetReadKeeps ==
    ASSUME MirrorInv, NEW i \in Items, NEW v \in 0..1, SetRead(i, v)
    PROVE  MirrorInv'
  <1> DEFINE s == [srv[i] EXCEPT !.read = v,
                                 !.rmod = IF v = srv[i].read THEN @ ELSE head + 1]
  <1>1. Changed(i, s) /\ Tool("read", i, v) /\ srv[i].st = "there"
    BY DEF SetRead, There
  <1>0. /\ head \in Nat /\ head + 1 \in Version
        /\ srv[i] \in Item
        /\ srv[i].mod \in Nat /\ srv[i].rmod \in Nat /\ srv[i].born \in Nat
        /\ srv[i].body \in Nat /\ srv[i].meta \in Nat
        /\ srv[i].body <= head /\ srv[i].meta <= head
        /\ srv[i].born <= srv[i].mod /\ srv[i].mod <= head /\ srv[i].rmod <= head
    BY <1>1, ItemBounds DEF Changed
  <1>2. s \in Item
    BY <1>0 DEF Item
  <1>3. /\ s.born <= s.mod /\ s.mod <= head + 1 /\ s.rmod <= head + 1
        /\ s.body <= head + 1 /\ s.meta <= head + 1 /\ s.st = "there"
        /\ s.born = srv[i].born /\ s.mod = srv[i].mod
        /\ s.body = srv[i].body /\ s.meta = srv[i].meta
    BY <1>0, <1>1 DEF Item
  <1>4. s = srv[i] \/ s.rmod = head + 1
    <2>1. CASE v = srv[i].read
      <3>1. s = [srv[i] EXCEPT !.read = srv[i].read, !.rmod = srv[i].rmod]
        BY <2>1
      <3> QED
        BY <1>0, <3>1 DEF Item
    <2>2. CASE v # srv[i].read
      BY <1>0, <2>2 DEF Item
    <2> QED
      BY <2>1, <2>2
  <1>5. /\ \A j \in Items : Evolves(j)
        /\ head' >= head /\ head' <= MaxChanges /\ head' \in Nat
        /\ srv' \in [Items -> Item] /\ hier' \subseteq hier
    <2> HIDE DEF s
    <2> QED
      BY <1>1, <1>2, <1>3, <1>4, ChangeEvolves
  <1>6. v \in Version
    BY MirrorAssumption DEF Version
  <1>7. /\ \E w \in Write : wt' = {w}
        /\ WriteOK'
        /\ UNCHANGED <<row, folders, tok, flagged, eng, faults, orphans, late>>
    BY <1>1, <1>6, ToolWrites
  <1> QED
    BY <1>5, <1>7, ExchangeKeeps

(* With Exchange as it was, items evolve by standing still. *)
LEMMA StandStill ==
    ASSUME MirrorInv, UNCHANGED exchange
    PROVE  /\ \A j \in Items : Evolves(j)
           /\ head' >= head /\ head' <= MaxChanges /\ head' \in Nat
           /\ srv' \in [Items -> Item] /\ hier' \subseteq hier
  <1>1. TypeOK /\ head \in Nat /\ head <= MaxChanges
    BY Types DEF MirrorInv, SrvOK
  <1>2. srv' = srv /\ head' = head /\ hier' = hier
    BY DEF exchange
  <1> QED
    BY <1>1, <1>2 DEF Evolves, MirrorInv, SrvOK, TypeOK

(* update_messages changes the categories or the flag.                     *)
LEMMA SetMetaKeeps ==
    ASSUME MirrorInv, NEW i \in Items, SetMeta(i)
    PROVE  MirrorInv'
  <1>0. MayChange /\ There(i) /\ Tool("meta", i, srv[i].meta + 1)
    BY DEF SetMeta
  <1>1. /\ \A j \in Items : Evolves(j)
        /\ head' >= head /\ head' <= MaxChanges /\ head' \in Nat
        /\ srv' \in [Items -> Item] /\ hier' \subseteq hier
    <2>1. CASE Changed(i, [srv[i] EXCEPT !.meta = @ + 1, !.mod = head + 1])
      BY <1>0, <2>1, EditEvolves
    <2>2. CASE UNCHANGED exchange
      BY <2>2, StandStill
    <2> QED
      BY <2>1, <2>2 DEF SetMeta
  <1>2. srv[i].meta + 1 \in Version
    BY <1>0, ItemBounds
  <1>7. /\ \E w \in Write : wt' = {w}
        /\ WriteOK'
        /\ UNCHANGED <<row, folders, tok, flagged, eng, faults, orphans, late>>
    BY <1>0, <1>2, ToolWrites
  <1> QED
    BY <1>1, <1>7, ExchangeKeeps

(* delete_message.                                                         *)
LEMMA DeleteMessageKeeps ==
    ASSUME MirrorInv, NEW i \in Items, DeleteMessage(i)
    PROVE  MirrorInv'
  <1> DEFINE s == [srv[i] EXCEPT !.st = "gone", !.mod = head + 1]
  <1>0. There(i) /\ Tool("tomb", i, 0) /\ Changed(i, s)
    BY DEF DeleteMessage
  <1>1. /\ \A j \in Items : Evolves(j)
        /\ head' >= head /\ head' <= MaxChanges /\ head' \in Nat
        /\ srv' \in [Items -> Item] /\ hier' \subseteq hier
        /\ srv'[i] = s
    BY <1>0, EditEvolves
  <1>2. 0 \in Version /\ srv'[i].st = "gone"
    BY <1>1, MirrorAssumption DEF Version, MirrorInv, TypeOK, Item
  <1>7. /\ \E w \in Write : wt' = {w}
        /\ WriteOK'
        /\ UNCHANGED <<row, folders, tok, flagged, eng, faults, orphans, late>>
    BY <1>0, <1>2, ToolWrites
  <1> QED
    BY <1>1, <1>7, ExchangeKeeps

(* The body of a row is fetched anew.                                      *)
LEMMA RepairBodyKeeps ==
    ASSUME MirrorInv, NEW i \in Items, RepairBody(i)
    PROVE  MirrorInv'
  <1>1. srv[i].body \in Version
    BY DEF MirrorInv, TypeOK, Item
  <1>2. Tool("body", i, srv[i].body) /\ UNCHANGED exchange
    BY DEF RepairBody
  <1>7. /\ \E w \in Write : wt' = {w}
        /\ WriteOK'
        /\ UNCHANGED <<row, folders, tok, flagged, eng, faults, orphans, late>>
    BY <1>1, <1>2, ToolWrites
  <1> QED
    BY <1>2, <1>7, StandStill, ExchangeKeeps

(* move_message.                                                           *)
LEMMA MoveMessageKeeps ==
    ASSUME MirrorInv, NEW i \in Items, NEW j \in Items, MoveMessage(i, j)
    PROVE  MirrorInv'
  <1> DEFINE s == [srv[i] EXCEPT !.st = "gone", !.mod = head + 1]
             r == [srv[i] EXCEPT !.born = head + 1, !.mod = head + 1, !.rmod = 0]
  <1>0. /\ srv[i].st = "there" /\ srv[j].st = "new" /\ i # j
        /\ MayChange /\ head' = head + 1 /\ hier' = hier /\ Tool("tomb", i, 0)
    BY DEF MoveMessage, There
  <1>t. TypeOK /\ head \in Nat /\ head' \in Nat /\ head' >= head /\ head' <= MaxChanges
    BY <1>0, Types, MirrorAssumption DEF MirrorInv, MayChange
  <1>1. /\ srv' = [srv EXCEPT ![i] = s, ![j] = r]
        /\ srv \in [Items -> Item]
    BY <1>t DEF MoveMessage, TypeOK
  <1>2. /\ head + 1 \in Version
        /\ srv[i] \in Item
        /\ srv[i].mod \in Nat /\ srv[i].rmod \in Nat /\ srv[i].born \in Nat
        /\ srv[i].body \in Nat /\ srv[i].meta \in Nat
        /\ srv[i].body <= head /\ srv[i].meta <= head
        /\ srv[i].born <= srv[i].mod /\ srv[i].mod <= head /\ srv[i].rmod <= head
    BY <1>0, ItemBounds
  <1>3. s \in Item /\ r \in Item
    <2>1. 0 \in Version
      BY MirrorAssumption DEF Version
    <2>2. s \in Item
      BY <1>2 DEF Item
    <2>3. r \in Item
      BY <1>2, <2>1 DEF Item
    <2> QED
      BY <2>2, <2>3
  <1>4. /\ s.mod = head + 1 /\ s.st = "gone" /\ s.born = srv[i].born
        /\ s.rmod = srv[i].rmod /\ s.body = srv[i].body /\ s.meta = srv[i].meta
        /\ r.mod = head + 1 /\ r.born = head + 1 /\ r.st = "there" /\ r.rmod = 0
        /\ r.body = srv[i].body /\ r.meta = srv[i].meta
    BY <1>0, <1>2 DEF Item
  <1> HIDE DEF s, r
  <1>5. /\ srv' \in [Items -> Item] /\ srv'[i] = s /\ srv'[j] = r
        /\ \A k \in Items : k # i /\ k # j => srv'[k] = srv[k]
    BY <1>0, <1>1, <1>3
  <1>6. ASSUME NEW k \in Items PROVE Evolves(k)
    <2>1. CASE k = i
      BY <1>0, <1>2, <1>3, <1>4, <1>5, <1>t, <2>1 DEF Evolves
    <2>2. CASE k = j
      BY <1>0, <1>2, <1>3, <1>4, <1>5, <1>t, <2>2 DEF Evolves
    <2>3. CASE k # i /\ k # j
      <3>1. /\ srv[k].mod \in Nat /\ srv[k].rmod \in Nat /\ srv[k].born \in Nat
            /\ srv[k].body \in Nat /\ srv[k].meta \in Nat
            /\ srv[k].body <= head /\ srv[k].meta <= head
            /\ srv[k].born <= srv[k].mod /\ srv[k].mod <= head /\ srv[k].rmod <= head
            /\ (srv[k].st = "gone" => srv[k].rmod <= srv[k].mod)
            /\ srv'[k] = srv[k] /\ srv[k] \in Item
        BY <1>0, <1>5, <2>3, ItemBounds DEF MirrorInv, SrvOK
      <3> QED
        BY <1>0, <1>t, <3>1 DEF Evolves
    <2> QED
      BY <2>1, <2>2, <2>3
  <1>7. /\ \E w \in Write : wt' = {w}
        /\ WriteOK'
        /\ UNCHANGED <<row, folders, tok, flagged, eng, faults, orphans, late>>
    <2>1. 0 \in Version
      BY MirrorAssumption DEF Version
    <2> QED
      BY <1>0, <1>4, <1>5, <2>1, ToolWrites
  <1> QED
    BY <1>0, <1>t, <1>5, <1>6, <1>7, ExchangeKeeps

-----------------------------------------------------------------------------
(* The engine between folders.                                             *)

(* The engine, field by field.                                             *)
LEMMA EngineFields ==
    ASSUME TypeOK
    PROVE  /\ eng.told \in Partial(Items, Version) /\ eng.ups \in Partial(Items, Snapshot)
           /\ eng.rf \in Partial(Items, 0..1) /\ eng.dels \subseteq Items
           /\ eng.known \subseteq Folders /\ eng.gone \subseteq Folders
           /\ eng.todo \subseteq Folders /\ eng.cur \in Folders
           /\ eng.pos \in Version /\ eng.n \in 0..FlushEvery /\ eng.fin \in BOOLEAN
           /\ eng.pc \in {"off", "idle", "clean", "flag", "item", "walk", "ups",
                          "dels", "flags", "token"}
           /\ eng \in Engine
  BY DEF TypeOK, Engine

(* A pass that ends without its token, or a step outside any pass: the    *)
(* items are known as the tokens know them, and the rows the pass wrote    *)
(* are vouched for, gone with their folder, or ghosts.                     *)
LEMMA PassEnds ==
    ASSUME MirrorInv, UNCHANGED <<srv, hier, head, row, tok, flagged>>,
           DOMAIN eng'.told = {}, DOMAIN eng'.ups = {}, DOMAIN eng'.rf = {}, eng'.dels = {},
           ~eng'.fin, eng'.pc \notin InFolder \ {"walk"},
           late \subseteq late',
           \A i \in Items : row[i].there /\ i \in DOMAIN eng.told
             => srv[i].born <= tok[Home[i]] \/ Home[i] \notin hier \/ <<i, "ghost">> \in late'
    PROVE  SrvOK' /\ Complete' /\ \A i \in Items : ItemOK(i)'
  <1>t. TypeOK
    BY DEF MirrorInv
  <1>1. SrvOK'
    BY DEF MirrorInv, SrvOK
  <1>2. Complete'
    BY DEF Complete
  <1>3. ASSUME NEW i \in Items PROVE ItemOK(i)'
    <2>0. /\ As(i)' = tok[Home[i]] /\ ~Pending(i)' /\ ItemOK(i)
          /\ Num(i)' = Num(i) /\ There(i)' = There(i)
      BY DEF As, Pending, MirrorInv, Num, There
    <2>1. Vouched(i)'
      BY <2>0 DEF ItemOK, Vouched
    <2>2. CASE i \notin DOMAIN eng.told
      <3>1. As(i) = tok[Home[i]] /\ ~Pending(i) /\ i \notin DOMAIN eng.rf /\ i \notin eng.dels
        BY <2>2 DEF As, Pending, MirrorInv, EngOK
      <3> QED
        BY <2>0, <2>1, <3>1 DEF ItemOK, Presence, Meta, Body, Read
    <2>3. CASE i \in DOMAIN eng.told
      <3>1. /\ Home[i] = eng.cur /\ As(i) = eng.told[i] /\ tok[Home[i]] < As(i) /\ As(i) <= Num(i)
            /\ (i \in DOMAIN eng.ups => tok[Home[i]] < srv[i].mod)
        BY <2>3 DEF As, MirrorInv, EngOK
      <3>2. /\ tok[Home[i]] \in Nat /\ As(i) \in Nat /\ Num(i) \in Nat /\ srv[i].mod \in Nat
            /\ srv[i].rmod \in Nat
        BY <1>t, Types
      <3>3. ~(Num(i) <= tok[Home[i]])
        BY <3>1, <3>2
      <3>4. srv[i].st = "gone" => ~(srv[i].mod <= tok[Home[i]])
        BY <3>2, <3>3 DEF MirrorInv, SrvOK, Num
      <3>5. srv[i].st \in {"new", "there", "gone"}
        BY <1>t DEF TypeOK, Item
      <3>6. srv[i].mod <= tok[Home[i]] => ~Pending(i) /\ srv[i].mod <= As(i)
        BY <3>1, <3>2 DEF Pending
      <3>7. Presence(i)'
        BY <2>0, <3>4, <3>5, <3>6 DEF ItemOK, Presence, There
      <3>8. Meta(i)' /\ Body(i)'
        BY <2>0, <3>6 DEF ItemOK, Meta, Body, There
      <3>9. Read(i)'
        BY <2>0, <3>3 DEF Read
      <3> QED
        BY <2>1, <3>7, <3>8, <3>9 DEF ItemOK
    <2> QED
      BY <2>2, <2>3
  <1> QED
    BY <1>1, <1>2, <1>3

(* Outside a pass nothing is buffered. *)
LEMMA QuietIs ==
    ASSUME MirrorInv, ~Busy
    PROVE  /\ DOMAIN eng.told = {} /\ DOMAIN eng.ups = {} /\ DOMAIN eng.rf = {}
           /\ eng.dels = {} /\ ~eng.fin /\ eng.n = 0
           /\ eng.pc # "clean" => eng.gone = {}
           /\ eng.pc # "item" => eng.todo = {}
           /\ eng.known \subseteq folders /\ eng.todo \subseteq eng.known
  BY DEF MirrorInv, EngOK

(* Onward leaves the engine between folders. *)
LEMMA OnwardIs ==
    ASSUME NEW e \in Engine, flagged \in BOOLEAN
    PROVE  /\ Onward(e) \in Engine
           /\ Onward(e).told = e.told /\ Onward(e).ups = e.ups /\ Onward(e).rf = e.rf
           /\ Onward(e).dels = e.dels /\ Onward(e).fin = e.fin /\ Onward(e).n = e.n
           /\ Onward(e).gone = e.gone /\ Onward(e).known = e.known
           /\ Onward(e).pc \in {"clean", "item", "flag"}
           /\ Onward(e).pc # "clean" => e.gone = {}
           /\ Onward(e).pc # "item" => Onward(e).todo = e.todo
           /\ Onward(e).pc = "item" => Onward(e).todo = e.known
  <1>1. CASE e.gone # {}
    BY <1>1 DEF Onward, Engine
  <1>2. CASE e.gone = {} /\ flagged
    <2>1. Onward(e) = [e EXCEPT !.pc = "item", !.todo = e.known]
      BY <1>2 DEF Onward
    <2> QED
      BY <1>2, <2>1 DEF Engine
  <1>3. CASE e.gone = {} /\ ~flagged
    <2>1. Onward(e) = [e EXCEPT !.pc = "flag"]
      BY <1>3 DEF Onward
    <2> QED
      BY <1>3, <2>1 DEF Engine
  <1> QED
    BY <1>1, <1>2, <1>3

(* A step of the engine that ends between folders, with nothing buffered. *)
LEMMA QuietEngine ==
    ASSUME DOMAIN eng'.told = {}, DOMAIN eng'.ups = {}, DOMAIN eng'.rf = {}, eng'.dels = {},
           ~eng'.fin, eng'.n = 0, eng'.pc \notin InFolder,
           eng'.pc # "clean" => eng'.gone = {}, eng'.pc # "item" => eng'.todo = {},
           eng'.known \subseteq folders', eng'.todo \subseteq eng'.known
    PROVE  EngOK'
  BY DEF EngOK, Busy, InFolder

(* A pass begins.                                                          *)
LEMMA StartKeeps ==
    ASSUME MirrorInv, Start
    PROVE  MirrorInv'
  <1>0. ~Busy /\ TypeOK /\ eng.pc = "off"
    BY DEF Start, Busy, InFolder, MirrorInv
  <1>1. /\ eng' = [eng EXCEPT !.pc = "idle"]
        /\ UNCHANGED <<srv, hier, head, row, folders, tok, flagged, wt, faults, orphans, late>>
    BY DEF Start, exchange, store, history
  <1>2. /\ eng' \in Engine /\ eng'.pc = "idle" /\ eng'.told = eng.told /\ eng'.ups = eng.ups
        /\ eng'.rf = eng.rf /\ eng'.dels = eng.dels /\ eng'.fin = eng.fin /\ eng'.n = eng.n
        /\ eng'.gone = eng.gone /\ eng'.todo = eng.todo /\ eng'.known = eng.known
    BY <1>0, <1>1, EngineFields DEF Engine
  <1>3. EngOK'
    BY <1>0, <1>1, <1>2, QuietIs, QuietEngine DEF InFolder
  <1>4. SrvOK' /\ Complete' /\ \A i \in Items : ItemOK(i)'
    BY <1>0, <1>1, <1>2, QuietIs, PassEnds DEF InFolder
  <1>5. TypeOK'
    BY <1>0, <1>1, <1>2 DEF TypeOK
  <1>6. WriteOK' /\ OrphansOnlyByFault'
    BY <1>1, <1>2 DEF MirrorInv, WriteOK, OrphansOnlyByFault
  <1> QED
    BY <1>3, <1>4, <1>5, <1>6 DEF MirrorInv

(* The folder list is not due, or could not be read.                       *)
LEMMA SkipHierarchyKeeps ==
    ASSUME MirrorInv, SkipHierarchy
    PROVE  MirrorInv'
  <1>0. ~Busy /\ TypeOK /\ eng.pc = "idle" /\ eng \in Engine /\ flagged \in BOOLEAN
    BY DEF SkipHierarchy, Busy, InFolder, MirrorInv, TypeOK
  <1>1. /\ eng' = Onward(eng)
        /\ UNCHANGED <<srv, hier, head, row, folders, tok, flagged, wt, faults, orphans, late>>
    BY DEF SkipHierarchy, exchange, store, history
  <1>2. /\ eng' \in Engine /\ eng'.told = eng.told /\ eng'.ups = eng.ups
        /\ eng'.rf = eng.rf /\ eng'.dels = eng.dels /\ eng'.fin = eng.fin /\ eng'.n = eng.n
        /\ eng'.gone = eng.gone /\ eng'.known = eng.known
        /\ eng'.pc \in {"clean", "item", "flag"}
        /\ eng'.pc # "item" => eng'.todo = eng.todo
        /\ eng'.pc = "item" => eng'.todo = eng.known
    BY <1>0, <1>1, OnwardIs
  <1>3. EngOK'
    BY <1>0, <1>1, <1>2, QuietIs, QuietEngine DEF InFolder
  <1>4. SrvOK' /\ Complete' /\ \A i \in Items : ItemOK(i)'
    BY <1>0, <1>1, <1>2, QuietIs, PassEnds DEF InFolder
  <1>5. TypeOK'
    BY <1>0, <1>1, <1>2 DEF TypeOK
  <1>6. WriteOK' /\ OrphansOnlyByFault'
    BY <1>1, <1>2 DEF MirrorInv, WriteOK, OrphansOnlyByFault
  <1> QED
    BY <1>3, <1>4, <1>5, <1>6 DEF MirrorInv

(* The folder list is read.                                                *)
LEMMA WalkHierarchyKeeps ==
    ASSUME MirrorInv, WalkHierarchy
    PROVE  MirrorInv'
  <1> DEFINE e == [eng EXCEPT !.known = hier, !.gone = folders \ hier]
  <1>0. /\ ~Busy /\ TypeOK /\ eng.pc = "idle" /\ eng \in Engine /\ flagged \in BOOLEAN
        /\ hier \subseteq Folders /\ folders \subseteq Folders
    BY DEF WalkHierarchy, Busy, InFolder, MirrorInv, TypeOK
  <1>1. /\ eng' = Onward(e) /\ folders' = hier
        /\ UNCHANGED <<srv, hier, head, row, tok, flagged, wt, faults, orphans, late>>
    BY DEF WalkHierarchy, exchange, history
  <1>2. /\ e \in Engine /\ e.told = eng.told /\ e.ups = eng.ups
        /\ e.rf = eng.rf /\ e.dels = eng.dels /\ e.fin = eng.fin /\ e.n = eng.n
        /\ e.gone = folders \ hier /\ e.known = hier /\ e.todo = eng.todo
    BY <1>0 DEF Engine
  <1> HIDE DEF e
  <1>3. /\ eng' \in Engine /\ eng'.told = eng.told /\ eng'.ups = eng.ups
        /\ eng'.rf = eng.rf /\ eng'.dels = eng.dels /\ eng'.fin = eng.fin /\ eng'.n = eng.n
        /\ eng'.gone = folders \ hier /\ eng'.known = hier
        /\ eng'.pc \in {"clean", "item", "flag"}
        /\ eng'.pc # "clean" => eng'.gone = {}
        /\ eng'.pc # "item" => eng'.todo = eng.todo
        /\ eng'.pc = "item" => eng'.todo = hier
    BY <1>0, <1>1, <1>2, OnwardIs
  <1>4. EngOK'
    BY <1>0, <1>1, <1>3, QuietIs, QuietEngine DEF InFolder
  <1>5. SrvOK' /\ Complete' /\ \A i \in Items : ItemOK(i)'
    BY <1>0, <1>1, <1>3, QuietIs, PassEnds DEF InFolder
  <1>6. TypeOK'
    BY <1>0, <1>1, <1>3 DEF TypeOK
  <1>7. OrphansOnlyByFault'
    BY <1>0, <1>1, <1>3, QuietIs DEF MirrorInv, OrphansOnlyByFault
  <1>8. WriteOK'
    BY <1>1 DEF MirrorInv, WriteOK
  <1> QED
    BY <1>4, <1>5, <1>6, <1>7, <1>8 DEF MirrorInv

(* Cleaning up after a folder fails.                                       *)
LEMMA CleanUpFailsKeeps ==
    ASSUME MirrorInv, CleanUpFails
    PROVE  MirrorInv'
  <1>0. ~Busy /\ TypeOK /\ eng.pc = "clean" /\ eng \in Engine
    BY DEF CleanUpFails, Busy, InFolder, MirrorInv, TypeOK
  <1>1. /\ eng' = [eng EXCEPT !.pc = "idle", !.gone = {}] /\ orphans' = orphans \cup eng.gone
        /\ faults < MaxFaults /\ faults' = faults + 1
        /\ UNCHANGED <<srv, hier, head, row, folders, tok, flagged, wt, late>>
    BY DEF CleanUpFails, exchange, store
  <1>2. /\ eng' \in Engine /\ eng'.pc = "idle" /\ eng'.told = eng.told /\ eng'.ups = eng.ups
        /\ eng'.rf = eng.rf /\ eng'.dels = eng.dels /\ eng'.fin = eng.fin /\ eng'.n = eng.n
        /\ eng'.gone = {} /\ eng'.todo = eng.todo /\ eng'.known = eng.known
    BY <1>0, <1>1 DEF Engine
  <1>3. EngOK'
    BY <1>0, <1>1, <1>2, QuietIs, QuietEngine DEF InFolder
  <1>4. SrvOK' /\ Complete' /\ \A i \in Items : ItemOK(i)'
    BY <1>0, <1>1, <1>2, QuietIs, PassEnds DEF InFolder
  <1>5. TypeOK'
    <2>1. faults' \in 0..MaxFaults
      BY <1>0, <1>1, MirrorAssumption DEF TypeOK
    <2>2. orphans' \subseteq Folders
      BY <1>0, <1>1, EngineFields DEF TypeOK
    <2> QED
      BY <1>0, <1>1, <1>2, <2>1, <2>2 DEF TypeOK
  <1>6. WriteOK' /\ OrphansOnlyByFault'
    BY <1>1, <1>2 DEF MirrorInv, WriteOK, OrphansOnlyByFault
  <1> QED
    BY <1>3, <1>4, <1>5, <1>6 DEF MirrorInv

(* The pass opens a folder.                                                *)
LEMMA OpenFolderKeeps ==
    ASSUME MirrorInv, NEW f \in Folders, OpenFolder(f)
    PROVE  MirrorInv'
  <1>0. /\ ~Busy /\ TypeOK /\ eng.pc = "item" /\ eng \in Engine
        /\ f \in eng.todo
    BY DEF OpenFolder, Busy, InFolder, MirrorInv, TypeOK
  <1>1. /\ eng' = [eng EXCEPT !.pc = "walk", !.cur = f]
        /\ UNCHANGED <<srv, hier, head, row, folders, tok, flagged, wt, faults, orphans, late>>
    BY DEF OpenFolder, exchange, store, history
  <1>2. /\ eng' \in Engine /\ eng'.pc = "walk" /\ eng'.told = eng.told /\ eng'.ups = eng.ups
        /\ eng'.rf = eng.rf /\ eng'.dels = eng.dels /\ eng'.fin = eng.fin /\ eng'.n = eng.n
        /\ eng'.gone = eng.gone /\ eng'.todo = eng.todo /\ eng'.known = eng.known
        /\ eng'.cur = f
    BY <1>0, <1>1 DEF Engine
  <1>3. EngOK'
    BY <1>0, <1>1, <1>2, QuietIs, MirrorAssumption DEF InFolder, EngOK, Busy
  <1>4. SrvOK' /\ Complete' /\ \A i \in Items : ItemOK(i)'
    BY <1>0, <1>1, <1>2, QuietIs, PassEnds DEF InFolder
  <1>5. TypeOK'
    BY <1>0, <1>1, <1>2 DEF TypeOK
  <1>6. WriteOK' /\ OrphansOnlyByFault'
    BY <1>1, <1>2 DEF MirrorInv, WriteOK, OrphansOnlyByFault
  <1> QED
    BY <1>3, <1>4, <1>5, <1>6 DEF MirrorInv

(* The rows of a folder that went are removed; its token still stands.     *)
LEMMA DropRowsKeeps ==
    ASSUME MirrorInv, FoldersStayGone, NEW f \in Folders, DropRows(f)
    PROVE  MirrorInv'
  <1>0. /\ ~Busy /\ TypeOK /\ f \in eng.gone /\ row \in [Items -> Row]
    BY DEF DropRows, Busy, InFolder, MirrorInv, TypeOK
  <1>1. /\ row' = [i \in Items |-> IF Home[i] = f THEN NoRow ELSE row[i]]
        /\ UNCHANGED <<srv, hier, head, folders, tok, flagged, eng, wt, faults, orphans, late>>
    BY DEF DropRows, exchange, history
  <1>2. \A i \in Items : /\ Home[i] # f => row'[i] = row[i]
                         /\ Home[i] = f => ~row'[i].there /\ ~There(i)
    BY <1>0, <1>1 DEF FoldersStayGone, NoRow
  <1>3. TypeOK'
    <2>1. NoRow \in Row
      BY MirrorAssumption DEF NoRow, Row, Version
    <2>2. row' \in [Items -> Row]
      BY <1>0, <1>1, <2>1
    <2> QED
      BY <1>0, <1>1, <2>2 DEF TypeOK
  <1>4. SrvOK' /\ OrphansOnlyByFault'
    BY <1>1, <1>2 DEF MirrorInv, SrvOK, OrphansOnlyByFault
  <1>5. WriteOK' /\ EngOK' /\ Complete'
    BY <1>1 DEF MirrorInv, WriteOK, EngOK, Busy, Complete, As, Num, There
  <1>6. ASSUME NEW i \in Items PROVE ItemOK(i)'
    <2>1. /\ As(i)' = As(i) /\ Pending(i)' = Pending(i) /\ ~Pending(i)
          /\ Num(i)' = Num(i) /\ There(i)' = There(i) /\ ItemOK(i)
      BY <1>0, <1>1, QuietIs DEF As, Pending, Early, Num, There, MirrorInv
    <2>2. CASE Home[i] # f
      BY <1>1, <1>2, <2>1, <2>2 DEF ItemOK, Presence, Vouched, Meta, Body, Read
    <2>3. CASE Home[i] = f
      BY <1>1, <1>2, <2>1, <2>3 DEF ItemOK, Presence, Vouched, Meta, Body, Read
    <2> QED
      BY <2>2, <2>3
  <1> QED
    BY <1>3, <1>4, <1>5, <1>6 DEF MirrorInv

(* The token of a folder that went follows its rows.                       *)
LEMMA DropTokenKeeps ==
    ASSUME MirrorInv, NEW f \in Folders, DropToken(f)
    PROVE  MirrorInv'
  <1> DEFINE e == [eng EXCEPT !.gone = @ \ {f}]
  <1>0. /\ ~Busy /\ TypeOK /\ eng.pc = "clean" /\ eng \in Engine /\ flagged \in BOOLEAN
        /\ row \in [Items -> Row] /\ tok \in [Folders -> Version]
    BY DEF DropToken, Busy, InFolder, MirrorInv, TypeOK
  <1>1. /\ eng' = Onward(e)
        /\ tok' = [tok EXCEPT ![f] = 0]
        /\ \A i \in Items : Home[i] = f => ~row[i].there
        /\ UNCHANGED <<srv, hier, head, row, folders, flagged, wt, faults, orphans, late>>
    BY DEF DropToken, Cleaned, exchange, history, NoToken
  <1>2. /\ e \in Engine /\ e.told = eng.told /\ e.ups = eng.ups
        /\ e.rf = eng.rf /\ e.dels = eng.dels /\ e.fin = eng.fin /\ e.n = eng.n
        /\ e.gone = eng.gone \ {f} /\ e.known = eng.known /\ e.todo = eng.todo
    BY <1>0 DEF Engine
  <1> HIDE DEF e
  <1>3. /\ eng' \in Engine /\ eng'.told = eng.told /\ eng'.ups = eng.ups
        /\ eng'.rf = eng.rf /\ eng'.dels = eng.dels /\ eng'.fin = eng.fin /\ eng'.n = eng.n
        /\ eng'.gone = eng.gone \ {f} /\ eng'.known = eng.known
        /\ eng'.pc \in {"clean", "item", "flag"}
        /\ eng'.pc # "clean" => eng'.gone = {}
        /\ eng'.pc # "item" => eng'.todo = eng.todo
        /\ eng'.pc = "item" => eng'.todo = eng.known
    BY <1>0, <1>1, <1>2, OnwardIs
  <1>4. EngOK'
    BY <1>0, <1>1, <1>3, QuietIs, QuietEngine DEF InFolder
  <1>5. \A i \in Items : /\ Home[i] \in Folders
                         /\ Home[i] # f => row'[i] = row[i] /\ tok'[Home[i]] = tok[Home[i]]
                         /\ Home[i] = f => ~row'[i].there /\ tok'[Home[i]] = 0
    BY <1>0, <1>1, MirrorAssumption
  <1>6. TypeOK'
    <2>1. 0 \in Version
      BY MirrorAssumption DEF Version
    <2>2. tok' \in [Folders -> Version]
      BY <1>0, <1>1, <2>1
    <2> QED
      BY <1>0, <1>1, <1>3, <2>2 DEF TypeOK
  <1>7. SrvOK'
    <2>1. \A g \in Folders : tok'[g] <= head
      BY <1>0, <1>1, Types DEF MirrorInv, SrvOK
    <2>2. \A i \in Items : row'[i].there => srv[i].st # "new"
      BY <1>1 DEF MirrorInv, SrvOK
    <2> QED
      BY <1>1, <2>1, <2>2 DEF MirrorInv, SrvOK
  <1>8. WriteOK' /\ Complete'
    BY <1>0, <1>1, <1>3, QuietIs DEF MirrorInv, WriteOK, Complete
  <1>9. OrphansOnlyByFault'
    BY <1>1, <1>3 DEF MirrorInv, OrphansOnlyByFault
  <1>10. ASSUME NEW i \in Items PROVE ItemOK(i)'
    <2>0. /\ As(i)' = tok'[Home[i]] /\ ~Pending(i)' /\ As(i) = tok[Home[i]] /\ ~Pending(i)
          /\ Num(i)' = Num(i) /\ There(i)' = There(i) /\ ItemOK(i)
          /\ i \notin eng.dels /\ i \notin DOMAIN eng.rf
      BY <1>0, <1>1, <1>3, QuietIs DEF As, Pending, Num, There, MirrorInv
    <2>1. CASE Home[i] # f
      <3>1. row'[i] = row[i] /\ tok'[Home[i]] = tok[Home[i]]
        BY <1>5, <2>1
      <3>2. eng'.pc \notin InFolder
        BY <1>3 DEF InFolder
      <3>3. DOMAIN eng'.told = {} /\ DOMAIN eng.told = {} /\ DOMAIN eng'.rf = {}
        BY <1>0, <1>3, QuietIs
      <3>4. Vouched(i)'
        BY <1>1, <2>0, <3>1, <3>2, <3>3 DEF ItemOK, Vouched
      <3> QED
        BY <1>1, <2>0, <3>1, <3>3, <3>4 DEF ItemOK, Presence, Meta, Body, Read
    <2>2. CASE Home[i] = f
      <3>1. ~row'[i].there /\ As(i)' = 0
        BY <1>5, <2>0, <2>2
      <3>2. /\ srv[i].st # "new" => ~(srv[i].mod <= 0)
            /\ srv[i].st # "new" => ~(Num(i) <= 0)
        BY <1>0, Types DEF MirrorInv, SrvOK
      <3>3. DOMAIN eng'.rf = {}
        BY <1>0, <1>3, QuietIs
      <3> QED
        BY <1>1, <2>0, <3>1, <3>2, <3>3 DEF ItemOK, Presence, Vouched, Meta, Body, Read, There
    <2> QED
      BY <2>1, <2>2
  <1> QED
    BY <1>4, <1>6, <1>7, <1>8, <1>9, <1>10 DEF MirrorInv

(* Flags are filled in for rows that predate them.                         *)
LEMMA BackfillFlagsKeeps ==
    ASSUME MirrorInv, NEW missed \in SUBSET Items, BackfillFlags(missed)
    PROVE  MirrorInv'
  <1>0. /\ ~Busy /\ TypeOK /\ eng.pc = "flag" /\ eng \in Engine
        /\ row \in [Items -> Row]
    BY DEF BackfillFlags, Busy, InFolder, MirrorInv, TypeOK
  <1>1. /\ eng' = [eng EXCEPT !.pc = "item", !.todo = eng.known] /\ flagged' = TRUE
        /\ late' = late \cup (missed \X {"meta"})
        /\ UNCHANGED <<srv, hier, head, folders, tok, wt, faults, orphans>>
    BY DEF BackfillFlags, exchange
  <1>2. /\ eng' \in Engine /\ eng'.pc = "item" /\ eng'.told = eng.told /\ eng'.ups = eng.ups
        /\ eng'.rf = eng.rf /\ eng'.dels = eng.dels /\ eng'.fin = eng.fin /\ eng'.n = eng.n
        /\ eng'.gone = eng.gone /\ eng'.todo = eng.known /\ eng'.known = eng.known
    BY <1>0, <1>1 DEF Engine
  <1>3. ASSUME NEW i \in Items
        PROVE  /\ row'[i] \in Row
               /\ row'[i].there = row[i].there /\ row'[i].body = row[i].body
               /\ row'[i].read = row[i].read
               /\ row[i].there /\ There(i) /\ i \notin missed => row'[i].meta = srv[i].meta
    <2>1. srv[i].meta \in Version /\ row[i] \in Row
      BY <1>0 DEF TypeOK, Item
    <2>2. \/ row'[i] = row[i] /\ ~(row[i].there /\ There(i) /\ i \notin missed)
          \/ row'[i] = [row[i] EXCEPT !.meta = srv[i].meta]
      BY DEF BackfillFlags
    <2> QED
      BY <2>1, <2>2 DEF Row
  <1>4. TypeOK'
    <2>1. row' \in [Items -> Row]
      <3>1. row' = [i \in Items |-> row'[i]]
        BY DEF BackfillFlags
      <3> QED
        BY <1>3, <3>1
    <2>2. late' \in SUBSET (Items \X {"body", "meta", "read", "ghost"})
      BY <1>0, <1>1 DEF TypeOK
    <2> QED
      BY <1>0, <1>1, <1>2, <2>1, <2>2 DEF TypeOK
  <1>5. EngOK'
    BY <1>0, <1>1, <1>2, QuietIs, QuietEngine DEF InFolder
  <1>6. SrvOK' /\ WriteOK' /\ OrphansOnlyByFault'
    BY <1>1, <1>2, <1>3 DEF MirrorInv, SrvOK, WriteOK, OrphansOnlyByFault
  <1>7. Complete'
    BY <1>0, <1>2, QuietIs DEF Complete
  <1>8. ASSUME NEW i \in Items PROVE ItemOK(i)'
    <2>0. /\ As(i)' = As(i) /\ ~Pending(i)' /\ ~Pending(i)
          /\ Num(i)' = Num(i) /\ There(i)' = There(i) /\ ItemOK(i)
          /\ i \notin eng.dels /\ i \notin DOMAIN eng.rf
      BY <1>0, <1>1, <1>2, QuietIs DEF As, Pending, Num, There, MirrorInv
    <2>1. \A k \in {"body", "read", "ghost"} : <<i, k>> \in late => <<i, k>> \in late'
      BY <1>1
    <2>2. i \in missed => <<i, "meta">> \in late'
      BY <1>1
    <2>3. Presence(i)' /\ Body(i)' /\ Read(i)'
      BY <1>1, <1>2, <1>3, <2>0, <2>1 DEF ItemOK, Presence, Body, Read
    <2>4. Meta(i)'
      BY <1>1, <1>3, <2>0, <2>2 DEF Meta
    <2>5. eng'.pc \notin InFolder
      BY <1>2 DEF InFolder
    <2>6. Vouched(i)'
      BY <1>1, <1>2, <1>3, <2>0, <2>1, <2>5 DEF ItemOK, Vouched
    <2> QED
      BY <2>3, <2>4, <2>6 DEF ItemOK
  <1> QED
    BY <1>4, <1>5, <1>6, <1>7, <1>8 DEF MirrorInv

-----------------------------------------------------------------------------
(* The pass over a folder.                                                 *)

(* What the generator knows of an item of the folder is what the pass does. *)
LEMMA KnownIs ==
    ASSUME MirrorInv, NEW i \in Items, Home[i] = eng.cur
    PROVE  Known[i] = As(i) /\ tok[eng.cur] <= As(i)
  <1>1. Known[i] = As(i)
    BY DEF Known, As
  <1>2. tok[eng.cur] <= As(i)
    BY Types DEF MirrorInv, EngOK, As
  <1> QED
    BY <1>1, <1>2

(* Exchange has no more changes for the folder.                            *)
LEMMA ExhaustedKeeps ==
    ASSUME MirrorInv, Exhausted
    PROVE  MirrorInv'
  <1>0. TypeOK /\ eng.pc = "walk" /\ eng \in Engine /\ eng.cur \in hier /\ Busy
    BY DEF Exhausted, Busy, InFolder, MirrorInv, TypeOK
  <1>1. /\ eng' = [eng EXCEPT !.pc = "ups", !.fin = TRUE, !.pos = head]
        /\ UNCHANGED <<srv, hier, head, row, folders, tok, flagged, wt, faults, orphans, late>>
    BY DEF Exhausted, exchange, store, history
  <1>2. /\ eng' \in Engine /\ eng'.pc = "ups" /\ eng'.told = eng.told /\ eng'.ups = eng.ups
        /\ eng'.rf = eng.rf /\ eng'.dels = eng.dels /\ eng'.fin = TRUE /\ eng'.n = eng.n
        /\ eng'.gone = eng.gone /\ eng'.todo = eng.todo /\ eng'.known = eng.known
        /\ eng'.cur = eng.cur /\ eng'.pos = head
    BY <1>0, <1>1 DEF Engine, TypeOK
  <1>3. TypeOK'
    BY <1>0, <1>1, <1>2 DEF TypeOK
  <1>4. \A i \in Items : Num(i)' = Num(i) /\ As(i)' = As(i) /\ Pending(i)' = Pending(i)
    BY <1>0, <1>1, <1>2 DEF Num, As, Pending, Early
  <1>5. EngOK'
    <2>1. DOMAIN eng.told \subseteq Items /\ tok[eng.cur] <= head
      BY <1>0, Types DEF MirrorInv, SrvOK
    <2>2. head <= head
      BY <1>0, Types
    <2> QED
      BY <1>0, <1>1, <1>2, <1>4, <2>1, <2>2 DEF MirrorInv, EngOK, Busy, InFolder
  <1>6. SrvOK' /\ WriteOK' /\ OrphansOnlyByFault'
    BY <1>1, <1>2 DEF MirrorInv, SrvOK, WriteOK, OrphansOnlyByFault
  <1>7. Complete'
    <2> SUFFICES ASSUME NEW i \in Items, Home[i] = eng.cur, srv[i].st # "new"
                 PROVE  /\ There(i) => Num(i) <= As(i)
                        /\ srv[i].mod <= As(i) \/ (~There(i) /\ srv[i].born > As(i))
      BY <1>1, <1>2, <1>4 DEF Complete, There
    <2>1. /\ ~(Num(i) > Known[i] /\ (There(i) \/ srv[i].born <= Known[i]))
      BY DEF Exhausted, Unseen
    <2>2. /\ Num(i) \in Nat /\ As(i) \in Nat /\ srv[i].mod \in Nat /\ srv[i].born \in Nat
          /\ srv[i].mod <= Num(i)
      BY <1>0, Types
    <2> QED
      BY <2>1, <2>2, KnownIs
  <1>8. ASSUME NEW i \in Items PROVE ItemOK(i)'
    <2>1. Vouched(i)'
      BY <1>0, <1>1, <1>2 DEF MirrorInv, ItemOK, Vouched
    <2>2. ItemOK(i)
      BY DEF MirrorInv
    <2> QED
      BY <1>1, <1>2, <1>4, <2>1, <2>2 DEF ItemOK, Presence, Meta, Body, Read, There
  <1> QED
    BY <1>3, <1>5, <1>6, <1>7, <1>8 DEF MirrorInv

(* Exchange reports one change.                                            *)
LEMMA NextChangeKeeps ==
    ASSUME MirrorInv, NEW i \in Items, NextChange(i)
    PROVE  MirrorInv'
  <1> DEFINE pc == IF eng.n + 1 >= FlushEvery THEN "ups" ELSE "walk"
             snap == [meta |-> srv[i].meta, read |-> srv[i].read]
             ups == IF There(i) /\ srv[i].mod > Known[i] THEN Put(eng.ups, i, snap) ELSE eng.ups
             rf == IF There(i) /\ ~(srv[i].mod > Known[i])
                   THEN Put(eng.rf, i, srv[i].read) ELSE eng.rf
             dels == IF There(i) THEN eng.dels ELSE eng.dels \cup {i}
  <1>0. /\ TypeOK /\ eng.pc = "walk" /\ eng \in Engine /\ eng.cur \in hier /\ Busy
        /\ eng.told \in Partial(Items, Version) /\ eng.ups \in Partial(Items, Snapshot)
        /\ eng.rf \in Partial(Items, 0..1) /\ eng.n \in 0..FlushEvery
    BY EngineFields DEF NextChange, Busy, InFolder, MirrorInv, TypeOK
  <1>u. /\ Home[i] = eng.cur /\ srv[i].st # "new" /\ Num(i) > Known[i]
        /\ There(i) \/ srv[i].born <= Known[i]
    BY DEF NextChange, Unseen
  <1>k. Known[i] = As(i) /\ tok[eng.cur] <= As(i)
    BY <1>u, KnownIs
  <1>v. /\ Num(i) \in Nat /\ As(i) \in Nat /\ tok[eng.cur] \in Nat /\ srv[i].mod \in Nat
        /\ srv[i].born \in Nat /\ srv[i].mod <= Num(i) /\ head \in Nat
        /\ srv[i].rmod \in Nat /\ Num(i) \in {srv[i].mod, srv[i].rmod}
        /\ srv[i].born <= srv[i].mod /\ srv[i].mod <= head /\ srv[i].rmod <= head
    BY <1>0, Types DEF MirrorInv, SrvOK
  <1>n. Num(i) \in Version /\ Num(i) <= head /\ snap \in Snapshot /\ srv[i].read \in 0..1
    BY <1>0, <1>v DEF TypeOK, Item, Snapshot
  <1>m. eng.n < FlushEvery /\ eng.n + 1 \in 0..FlushEvery /\ ~eng.fin
    BY <1>0, MirrorAssumption DEF MirrorInv, EngOK
  <1>p. /\ DOMAIN eng.told \subseteq Items /\ DOMAIN eng.ups \subseteq Items
        /\ DOMAIN eng.rf \subseteq Items
    BY <1>0, PartialIs
  <1>q. /\ Put(eng.told, i, Num(i)) \in Partial(Items, Version)
        /\ DOMAIN Put(eng.told, i, Num(i)) = DOMAIN eng.told \cup {i}
        /\ Put(eng.told, i, Num(i))[i] = Num(i)
        /\ \A j \in DOMAIN eng.told : j # i => Put(eng.told, i, Num(i))[j] = eng.told[j]
    <2>1. Put(eng.told, i, Num(i)) \in Partial(Items, Version)
      BY <1>0, <1>n, PutTyped
    <2>2. DOMAIN Put(eng.told, i, Num(i)) = DOMAIN eng.told \cup {i}
      BY DEF Put
    <2>3. Put(eng.told, i, Num(i))[i] = Num(i)
      BY DEF Put
    <2>4. \A j \in DOMAIN eng.told : j # i => Put(eng.told, i, Num(i))[j] = eng.told[j]
      BY DEF Put
    <2> QED
      BY <2>1, <2>2, <2>3, <2>4
  <1>r. /\ Put(eng.ups, i, snap) \in Partial(Items, Snapshot)
        /\ DOMAIN Put(eng.ups, i, snap) = DOMAIN eng.ups \cup {i}
        /\ Put(eng.ups, i, snap)[i] = snap
        /\ \A j \in DOMAIN eng.ups : j # i => Put(eng.ups, i, snap)[j] = eng.ups[j]
    <2>1. Put(eng.ups, i, snap) \in Partial(Items, Snapshot)
      BY <1>0, <1>n, PutTyped
    <2>2. DOMAIN Put(eng.ups, i, snap) = DOMAIN eng.ups \cup {i}
      BY DEF Put
    <2>3. Put(eng.ups, i, snap)[i] = snap
      BY DEF Put
    <2>4. \A j \in DOMAIN eng.ups : j # i => Put(eng.ups, i, snap)[j] = eng.ups[j]
      BY DEF Put
    <2> QED
      BY <2>1, <2>2, <2>3, <2>4
  <1>s. /\ Put(eng.rf, i, srv[i].read) \in Partial(Items, 0..1)
        /\ DOMAIN Put(eng.rf, i, srv[i].read) = DOMAIN eng.rf \cup {i}
        /\ Put(eng.rf, i, srv[i].read)[i] = srv[i].read
        /\ \A j \in DOMAIN eng.rf : j # i => Put(eng.rf, i, srv[i].read)[j] = eng.rf[j]
    <2>1. Put(eng.rf, i, srv[i].read) \in Partial(Items, 0..1)
      BY <1>0, <1>n, PutTyped
    <2>2. DOMAIN Put(eng.rf, i, srv[i].read) = DOMAIN eng.rf \cup {i}
      BY DEF Put
    <2>3. Put(eng.rf, i, srv[i].read)[i] = srv[i].read
      BY DEF Put
    <2>4. \A j \in DOMAIN eng.rf : j # i => Put(eng.rf, i, srv[i].read)[j] = eng.rf[j]
      BY DEF Put
    <2> QED
      BY <2>1, <2>2, <2>3, <2>4
  <1>1. UNCHANGED <<srv, hier, head, row, folders, tok, flagged, wt, faults, orphans, late>>
    BY DEF NextChange, exchange, store, history
  <1>2. eng' = [eng EXCEPT !.told = Put(eng.told, i, Num(i)), !.n = eng.n + 1, !.pc = pc,
                           !.ups = ups, !.rf = rf, !.dels = dels]
    <2> DEFINE e == [eng EXCEPT !.told = Put(@, i, Num(i)), !.n = @ + 1,
                                !.pc = IF eng.n + 1 >= FlushEvery THEN "ups" ELSE @]
    <2>0. e = [eng EXCEPT !.told = Put(eng.told, i, Num(i)), !.n = eng.n + 1, !.pc = pc]
      BY <1>0
    <2>1. eng' = IF ~There(i) THEN [e EXCEPT !.dels = @ \cup {i}]
                 ELSE IF srv[i].mod > Known[i] THEN [e EXCEPT !.ups = Put(@, i, snap)]
                 ELSE [e EXCEPT !.rf = Put(@, i, srv[i].read)]
      BY DEF NextChange
    <2>2. /\ e.dels = eng.dels /\ e.ups = eng.ups /\ e.rf = eng.rf
      BY <1>0, <2>0 DEF Engine
    <2>3. CASE ~There(i)
      <3>1. eng' = [e EXCEPT !.dels = eng.dels \cup {i}]
        BY <2>1, <2>2, <2>3
      <3>2. ups = eng.ups /\ rf = eng.rf /\ dels = eng.dels \cup {i}
        BY <2>3
      <3> HIDE DEF ups, rf, dels, pc, snap
      <3> QED
        BY <1>0, <2>0, <3>1, <3>2 DEF Engine
    <2>4. CASE There(i) /\ srv[i].mod > Known[i]
      <3>1. eng' = [e EXCEPT !.ups = Put(eng.ups, i, snap)]
        BY <2>1, <2>2, <2>4
      <3>2. ups = Put(eng.ups, i, snap) /\ rf = eng.rf /\ dels = eng.dels
        BY <2>4
      <3> HIDE DEF ups, rf, dels, pc, snap
      <3> QED
        BY <1>0, <2>0, <3>1, <3>2 DEF Engine
    <2>5. CASE There(i) /\ ~(srv[i].mod > Known[i])
      <3>1. eng' = [e EXCEPT !.rf = Put(eng.rf, i, srv[i].read)]
        BY <2>1, <2>2, <2>5
      <3>2. ups = eng.ups /\ rf = Put(eng.rf, i, srv[i].read) /\ dels = eng.dels
        BY <2>5
      <3> HIDE DEF ups, rf, dels, pc, snap
      <3> QED
        BY <1>0, <2>0, <3>1, <3>2 DEF Engine
    <2> QED
      BY <2>3, <2>4, <2>5
  <1>3. /\ ups \in Partial(Items, Snapshot) /\ rf \in Partial(Items, 0..1)
        /\ dels \subseteq Items /\ pc \in {"walk", "ups"}
    BY <1>0, <1>r, <1>s, EngineFields
  <1>4. \A j \in Items : j # i => /\ j \in DOMAIN ups <=> j \in DOMAIN eng.ups
                                  /\ j \in DOMAIN rf <=> j \in DOMAIN eng.rf
                                  /\ j \in dels <=> j \in eng.dels
                                  /\ j \in DOMAIN ups => ups[j] = eng.ups[j]
                                  /\ j \in DOMAIN rf => rf[j] = eng.rf[j]
    BY <1>r, <1>s
  <1>5. /\ There(i) /\ srv[i].mod > As(i) => /\ i \in DOMAIN ups /\ ups[i] = snap
                                             /\ rf = eng.rf /\ dels = eng.dels
        /\ There(i) /\ ~(srv[i].mod > As(i)) => /\ i \in DOMAIN rf /\ rf[i] = srv[i].read
                                                /\ ups = eng.ups /\ dels = eng.dels
        /\ ~There(i) => i \in dels /\ ups = eng.ups /\ rf = eng.rf
    BY <1>k, <1>r, <1>s
  <1>6. pc = "walk" => eng.n + 1 < FlushEvery
    BY <1>0, MirrorAssumption
  <1> HIDE DEF ups, rf, dels, pc
  <1>7. /\ eng' \in Engine /\ eng'.pc = pc /\ eng'.told = Put(eng.told, i, Num(i))
        /\ eng'.ups = ups /\ eng'.rf = rf /\ eng'.dels = dels /\ eng'.fin = eng.fin
        /\ eng'.n = eng.n + 1 /\ eng'.gone = eng.gone /\ eng'.todo = eng.todo
        /\ eng'.known = eng.known /\ eng'.cur = eng.cur /\ eng'.pos = eng.pos
    BY <1>0, <1>m, <1>q, <1>2, <1>3 DEF Engine
  <1>8. TypeOK'
    BY <1>0, <1>1, <1>7 DEF TypeOK
  <1>9. SrvOK' /\ WriteOK' /\ OrphansOnlyByFault' /\ Complete'
    BY <1>1, <1>7, <1>m DEF MirrorInv, SrvOK, WriteOK, OrphansOnlyByFault, Complete
  <1>10. EngOK'
    <2>1. \A j \in Items : Num(j)' = Num(j)
      BY <1>1 DEF Num
    <2>2. DOMAIN ups \cup dels \cup DOMAIN rf \subseteq DOMAIN eng'.told
      <3>1. DOMAIN ups \subseteq Items /\ DOMAIN rf \subseteq Items
        BY <1>3, PartialIs
      <3>2. DOMAIN eng.ups \cup eng.dels \cup DOMAIN eng.rf \subseteq DOMAIN eng.told
        BY DEF MirrorInv, EngOK
      <3> QED
        BY <1>3, <1>4, <1>7, <1>q, <3>1, <3>2
    <2>3. ASSUME NEW j \in DOMAIN eng'.told
          PROVE  /\ Home[j] = eng.cur /\ srv[j].st # "new"
                 /\ srv[j].born <= eng'.told[j] /\ tok[eng.cur] < eng'.told[j]
                 /\ eng'.told[j] <= Num(j)' /\ eng'.told[j] <= head
      <3>1. CASE j = i
        BY <1>7, <1>q, <1>u, <1>k, <1>v, <1>n, <2>1, <3>1
      <3>2. CASE j # i
        <4>1. j \in DOMAIN eng.told /\ eng'.told[j] = eng.told[j]
          BY <1>7, <1>q, <3>2
        <4> QED
          BY <1>p, <2>1, <4>1 DEF MirrorInv, EngOK
      <3> QED
        BY <3>1, <3>2
    <2>4. ASSUME NEW j \in DOMAIN ups PROVE tok[eng.cur] < srv[j].mod
      <3>0. j \in Items
        BY <1>3, PartialIs
      <3>1. CASE j \in DOMAIN eng.ups
        BY <3>1 DEF MirrorInv, EngOK
      <3>2. CASE j \notin DOMAIN eng.ups
        <4>1. j = i /\ There(i) /\ srv[i].mod > As(i)
          BY <1>4, <1>5, <3>0, <3>2
        <4> QED
          BY <1>k, <1>v, <4>1
      <3> QED
        BY <3>1, <3>2
    <2>5. ASSUME NEW j \in dels PROVE srv[j].st = "gone"
      <3>1. CASE j \in eng.dels
        BY <3>1 DEF MirrorInv, EngOK
      <3>2. CASE j \notin eng.dels
        <4>1. j = i /\ ~There(i)
          BY <1>3, <1>4, <1>5, <3>2
        <4> QED
          BY <1>0, <1>u, <4>1 DEF There, TypeOK, Item
      <3> QED
        BY <3>1, <3>2
    <2>6. pc = "walk" => eng'.n < FlushEvery /\ ~eng'.fin
      BY <1>6, <1>7, <1>m
    <2>7. Busy' /\ eng'.gone = {} /\ eng'.cur \in eng'.todo /\ ~eng'.fin /\ eng'.pc \in {"walk", "ups"}
      BY <1>0, <1>3, <1>7, <1>m DEF Busy, InFolder, MirrorInv, EngOK
    <2>8. eng'.known \subseteq folders' /\ eng'.todo \subseteq eng'.known
      BY <1>1, <1>7 DEF MirrorInv, EngOK
    <2> QED
      BY <1>1, <1>7, <2>2, <2>3, <2>4, <2>5, <2>6, <2>7, <2>8 DEF EngOK
  <1>11. ASSUME NEW j \in Items PROVE ItemOK(j)'
    <2>0. /\ ItemOK(j) /\ Num(j)' = Num(j) /\ There(j)' = There(j)
          /\ Pending(j)' <=> j \in DOMAIN ups
          /\ Pending(j) <=> j \in DOMAIN eng.ups
      BY <1>0, <1>1, <1>3, <1>7 DEF MirrorInv, Num, There, Pending, Early
    <2>1. CASE j # i
      <3>0. /\ j \in DOMAIN eng'.told <=> j \in DOMAIN eng.told
            /\ j \in DOMAIN eng.told => eng'.told[j] = eng.told[j]
        BY <1>7, <1>q, <2>1
      <3>1. As(j)' = As(j) /\ (Pending(j)' <=> Pending(j))
        BY <1>1, <1>4, <2>0, <2>1, <3>0 DEF As
      <3>2. Vouched(j)'
        BY <1>0, <1>1, <1>7, <2>0, <3>0 DEF ItemOK, Vouched
      <3> QED
        BY <1>1, <1>4, <1>7, <2>0, <2>1, <3>1, <3>2 DEF ItemOK, Presence, Meta, Body, Read
    <2>2. CASE j = i
      <3>1. As(i)' = Num(i) /\ i \in DOMAIN eng'.told
        BY <1>7, <1>q DEF As
      <3>2. Vouched(i)'
        BY <3>1 DEF Vouched
      <3>3. CASE ~There(i)
        BY <1>1, <1>5, <1>7, <2>0, <2>2, <3>1, <3>2, <3>3
           DEF ItemOK, Presence, Meta, Body, Read
      <3>4. CASE There(i) /\ srv[i].mod > As(i)
        <4>1. i \in DOMAIN ups /\ ups[i].meta = srv[i].meta /\ ups[i].read = srv[i].read
          BY <1>5, <3>4
        <4> QED
          BY <1>1, <1>7, <2>0, <2>2, <3>1, <3>2, <3>4, <4>1
             DEF ItemOK, Presence, Meta, Body, Read
      <3>5. CASE There(i) /\ ~(srv[i].mod > As(i))
        <4>1. srv[i].mod <= As(i)
          BY <1>v, <3>5
        <4> QED
          BY <1>1, <1>5, <1>7, <2>0, <2>2, <3>1, <3>2, <3>5, <4>1
             DEF ItemOK, Presence, Meta, Body, Read
      <3> QED
        BY <2>2, <3>3, <3>4, <3>5
    <2> QED
      BY <2>1, <2>2
  <1> QED
    BY <1>8, <1>9, <1>10, <1>11 DEF MirrorInv

(* The upserts are written.                                                *)
LEMMA FlushUpsertsKeeps ==
    ASSUME MirrorInv, NEW ok \in SUBSET DOMAIN eng.ups, FlushUpserts(ok)
    PROVE  MirrorInv'
  <1>0. /\ TypeOK /\ eng.pc = "ups" /\ eng \in Engine /\ Busy /\ row \in [Items -> Row]
        /\ eng.ups \in Partial(Items, Snapshot) /\ \A i \in ok : There(i)
    BY EngineFields DEF FlushUpserts, Busy, InFolder, MirrorInv, TypeOK
  <1>1. /\ eng' = [eng EXCEPT !.pc = "dels"]
        /\ late' = {w \in late : w[1] \notin DOMAIN eng.ups}
        /\ UNCHANGED <<srv, hier, head, folders, tok, flagged, wt, faults, orphans>>
    BY DEF FlushUpserts, exchange
  <1>2. /\ eng' \in Engine /\ eng'.pc = "dels" /\ eng'.told = eng.told /\ eng'.ups = eng.ups
        /\ eng'.rf = eng.rf /\ eng'.dels = eng.dels /\ eng'.fin = eng.fin /\ eng'.n = eng.n
        /\ eng'.gone = eng.gone /\ eng'.todo = eng.todo /\ eng'.known = eng.known
        /\ eng'.cur = eng.cur /\ eng'.pos = eng.pos
    BY <1>0, <1>1 DEF Engine
  <1>3. DOMAIN eng.ups \subseteq Items /\ \A i \in DOMAIN eng.ups : eng.ups[i] \in Snapshot
    BY <1>0, PartialIs
  <1>4. ASSUME NEW i \in Items
        PROVE  /\ row'[i] \in Row
               /\ i \notin DOMAIN eng.ups => row'[i] = row[i]
               /\ i \in DOMAIN eng.ups =>
                    /\ row'[i].there /\ row'[i].body \in {0, srv[i].body}
                    /\ row'[i].meta = eng.ups[i].meta /\ row'[i].read = eng.ups[i].read
    <2>1. CASE i \in DOMAIN eng.ups
      <3>1. row'[i] = [row[i] EXCEPT !.there = TRUE,
                                     !.body = IF i \in ok THEN srv[i].body ELSE 0,
                                     !.meta = eng.ups[i].meta,
                                     !.read = eng.ups[i].read]
        BY <2>1 DEF FlushUpserts
      <3>2. /\ row[i] \in Row /\ srv[i].body \in Version /\ 0 \in Version
            /\ eng.ups[i].meta \in Version /\ eng.ups[i].read \in 0..1
        BY <1>0, <1>3, <2>1, MirrorAssumption DEF TypeOK, Item, Snapshot, Version
      <3>3. CASE i \in ok
        BY <2>1, <3>1, <3>2, <3>3 DEF Row
      <3>4. CASE i \notin ok
        BY <2>1, <3>1, <3>2, <3>4 DEF Row
      <3> QED
        BY <3>3, <3>4
    <2>2. CASE i \notin DOMAIN eng.ups
      BY <1>0, <2>2 DEF FlushUpserts
    <2> QED
      BY <2>1, <2>2
  <1>5. TypeOK'
    <2>1. row' \in [Items -> Row]
      <3>1. row' = [i \in Items |-> row'[i]]
        BY DEF FlushUpserts
      <3> QED
        BY <1>4, <3>1
    <2>2. late' \subseteq late
      BY <1>1
    <2> QED
      BY <1>0, <1>1, <1>2, <2>1, <2>2 DEF TypeOK
  <1>6. \A i \in Items : Num(i)' = Num(i) /\ As(i)' = As(i) /\ There(i)' = There(i)
    BY <1>1, <1>2 DEF Num, As, There
  <1>7. EngOK'
    <2>1. DOMAIN eng.told \subseteq Items
      BY <1>0, Types
    <2> QED
      BY <1>0, <1>1, <1>2, <1>6, <2>1 DEF MirrorInv, EngOK, Busy, InFolder
  <1>8. \A i \in DOMAIN eng.ups : /\ i \in DOMAIN eng.told /\ srv[i].st # "new"
                                  /\ Home[i] = eng.cur /\ Home[i] \in folders
    BY <1>0 DEF MirrorInv, EngOK
  <1>9. SrvOK'
    BY <1>1, <1>4, <1>8 DEF MirrorInv, SrvOK
  <1>10. OrphansOnlyByFault' /\ WriteOK'
    BY <1>1, <1>2, <1>4, <1>8 DEF MirrorInv, OrphansOnlyByFault, WriteOK
  <1>11. Complete'
    BY <1>1, <1>2, <1>6 DEF MirrorInv, Complete
  <1>12. ASSUME NEW i \in Items PROVE ItemOK(i)'
    <2>0. /\ ItemOK(i) /\ ~Pending(i)' /\ (Pending(i) <=> i \in DOMAIN eng.ups)
      BY <1>0, <1>2 DEF MirrorInv, Pending, Early
    <2>1. CASE i \notin DOMAIN eng.ups
      <3>1. row'[i] = row[i] /\ \A k : <<i, k>> \in late => <<i, k>> \in late'
        BY <1>1, <1>4, <2>1
      <3>2. Vouched(i)'
        BY <1>0, <1>1, <1>2, <2>0, <3>1 DEF ItemOK, Vouched, InFolder
      <3> QED
        BY <1>1, <1>2, <1>6, <2>0, <2>1, <3>1, <3>2 DEF ItemOK, Presence, Meta, Body, Read
    <2>2. CASE i \in DOMAIN eng.ups
      <3>1. Vouched(i)'
        BY <1>2, <1>8, <2>2 DEF Vouched
      <3> QED
        BY <1>1, <1>2, <1>4, <1>6, <2>0, <2>2, <3>1 DEF ItemOK, Presence, Meta, Body, Read
    <2> QED
      BY <2>1, <2>2
  <1> QED
    BY <1>5, <1>7, <1>9, <1>10, <1>11, <1>12 DEF MirrorInv

(* The deletions are written.                                              *)
LEMMA FlushDeletesKeeps ==
    ASSUME MirrorInv, FlushDeletes
    PROVE  MirrorInv'
  <1>0. /\ TypeOK /\ eng.pc = "dels" /\ eng \in Engine /\ Busy /\ row \in [Items -> Row]
    BY DEF FlushDeletes, Busy, InFolder, MirrorInv, TypeOK
  <1>1. /\ eng' = [eng EXCEPT !.pc = "flags", !.dels = {}]
        /\ row' = [i \in Items |-> IF i \in eng.dels THEN NoRow ELSE row[i]]
        /\ UNCHANGED <<srv, hier, head, folders, tok, flagged, wt, faults, orphans, late>>
    BY DEF FlushDeletes, exchange, history, Tombstone
  <1>2. /\ eng' \in Engine /\ eng'.pc = "flags" /\ eng'.told = eng.told /\ eng'.ups = eng.ups
        /\ eng'.rf = eng.rf /\ eng'.dels = {} /\ eng'.fin = eng.fin /\ eng'.n = eng.n
        /\ eng'.gone = eng.gone /\ eng'.todo = eng.todo /\ eng'.known = eng.known
        /\ eng'.cur = eng.cur /\ eng'.pos = eng.pos
    BY <1>0, <1>1 DEF Engine
  <1>3. \A i \in Items : /\ i \in eng.dels => row'[i] = NoRow /\ ~row'[i].there
                         /\ i \notin eng.dels => row'[i] = row[i]
    BY <1>1 DEF NoRow
  <1>5. TypeOK'
    <2>1. NoRow \in Row
      BY MirrorAssumption DEF NoRow, Row, Version
    <2>2. row' \in [Items -> Row]
      BY <1>0, <1>1, <2>1
    <2> QED
      BY <1>0, <1>1, <1>2, <2>2 DEF TypeOK
  <1>6. \A i \in Items : Num(i)' = Num(i) /\ As(i)' = As(i) /\ There(i)' = There(i)
    BY <1>1, <1>2 DEF Num, As, There
  <1>7. EngOK'
    <2>1. DOMAIN eng.told \subseteq Items
      BY <1>0, Types
    <2> QED
      BY <1>0, <1>1, <1>2, <1>6, <2>1 DEF MirrorInv, EngOK, Busy, InFolder
  <1>9. SrvOK' /\ WriteOK'
    BY <1>1, <1>3 DEF MirrorInv, SrvOK, WriteOK
  <1>10. OrphansOnlyByFault'
    BY <1>1, <1>2, <1>3 DEF MirrorInv, OrphansOnlyByFault
  <1>11. Complete'
    BY <1>1, <1>2, <1>6 DEF MirrorInv, Complete
  <1>12. ASSUME NEW i \in Items PROVE ItemOK(i)'
    <2>0. ItemOK(i) /\ ~Pending(i)' /\ ~Pending(i)
      BY <1>0, <1>2 DEF MirrorInv, Pending, Early
    <2>1. CASE i \notin eng.dels
      <3>1. Vouched(i)'
        BY <1>0, <1>1, <1>2, <1>3, <2>0, <2>1 DEF ItemOK, Vouched, InFolder
      <3> QED
        BY <1>1, <1>2, <1>3, <1>6, <2>0, <2>1, <3>1 DEF ItemOK, Presence, Meta, Body, Read
    <2>2. CASE i \in eng.dels
      <3>1. ~There(i)
        BY <2>2 DEF MirrorInv, EngOK, There
      <3> QED
        BY <1>3, <1>6, <2>0, <2>2, <3>1 DEF ItemOK, Presence, Vouched, Meta, Body, Read
    <2> QED
      BY <2>1, <2>2
  <1> QED
    BY <1>5, <1>7, <1>9, <1>10, <1>11, <1>12 DEF MirrorInv

(* The read marks are written.                                             *)
LEMMA FlushReadFlagsKeeps ==
    ASSUME MirrorInv, FlushReadFlags
    PROVE  MirrorInv'
  <1>0. /\ TypeOK /\ eng.pc = "flags" /\ eng \in Engine /\ Busy /\ row \in [Items -> Row]
        /\ eng.rf \in Partial(Items, 0..1)
    BY EngineFields DEF FlushReadFlags, Busy, InFolder, MirrorInv, TypeOK
  <1>1. /\ eng' = [eng EXCEPT !.pc = IF eng.fin THEN "token" ELSE "walk",
                              !.n = 0, !.ups = Off.ups, !.rf = Off.rf]
        /\ UNCHANGED <<srv, hier, head, folders, tok, flagged, wt, faults, orphans>>
    BY DEF FlushReadFlags, exchange
  <1>l. late' = {w \in late : w[2] # "read" \/ w[1] \notin DOMAIN eng.rf} \cup
                {<<i, "read">> : i \in {j \in DOMAIN eng.rf \cap DOMAIN eng.ups :
                                         eng.rf[j] # srv[j].read}}
    BY DEF FlushReadFlags
  <1>2. /\ eng' \in Engine /\ eng'.told = eng.told /\ eng'.ups = Off.ups /\ eng'.rf = Off.rf
        /\ eng'.pc = (IF eng.fin THEN "token" ELSE "walk")
        /\ eng'.dels = eng.dels /\ eng'.fin = eng.fin /\ eng'.n = 0
        /\ eng'.gone = eng.gone /\ eng'.todo = eng.todo /\ eng'.known = eng.known
        /\ eng'.cur = eng.cur /\ eng'.pos = eng.pos
    <2>1. 0 \in 0..FlushEvery
      BY MirrorAssumption
    <2> QED
      BY <1>0, <1>1, <2>1, OffIs DEF Engine
  <1>d. DOMAIN eng'.ups = {} /\ DOMAIN eng'.rf = {} /\ eng.dels = {} /\ eng'.dels = {}
    BY <1>0, <1>2, OffIs DEF MirrorInv, EngOK
  <1>r. DOMAIN eng.rf \subseteq Items /\ \A i \in DOMAIN eng.rf : eng.rf[i] \in 0..1
    BY <1>0, PartialIs
  <1>3. ASSUME NEW i \in Items
        PROVE  /\ row'[i] \in Row
               /\ row'[i].there = row[i].there /\ row'[i].body = row[i].body
               /\ row'[i].meta = row[i].meta
               /\ row[i].there => row'[i].read = IF i \in DOMAIN eng.rf THEN eng.rf[i]
                                                 ELSE row[i].read
    <2>1. row[i] \in Row
      BY <1>0
    <2>2. \/ /\ i \in DOMAIN eng.rf /\ row[i].there
             /\ row'[i] = [row[i] EXCEPT !.read = eng.rf[i]]
          \/ ~(i \in DOMAIN eng.rf /\ row[i].there) /\ row'[i] = row[i]
      BY DEF FlushReadFlags
    <2> QED
      BY <1>r, <2>1, <2>2 DEF Row
  <1>4. ASSUME NEW i \in Items
        PROVE  /\ \A k \in {"body", "meta", "ghost"} : <<i, k>> \in late => <<i, k>> \in late'
               /\ i \notin DOMAIN eng.rf /\ <<i, "read">> \in late => <<i, "read">> \in late'
               /\ i \in DOMAIN eng.rf /\ i \in DOMAIN eng.ups /\ eng.rf[i] # srv[i].read
                    => <<i, "read">> \in late'
    BY <1>l
  <1>5. TypeOK'
    <2>2. row' \in [Items -> Row]
      <3>1. row' = [i \in Items |-> row'[i]]
        BY DEF FlushReadFlags
      <3> QED
        BY <1>3, <3>1
    <2>3. late' \in SUBSET (Items \X {"body", "meta", "read", "ghost"})
      BY <1>0, <1>l, <1>r DEF TypeOK
    <2> QED
      BY <1>0, <1>1, <1>2, <2>2, <2>3 DEF TypeOK
  <1>6. \A i \in Items : Num(i)' = Num(i) /\ As(i)' = As(i) /\ There(i)' = There(i)
    BY <1>1, <1>2 DEF Num, As, There
  <1>7. EngOK'
    <2>1. DOMAIN eng.told \subseteq Items /\ 0 < FlushEvery
      BY <1>0, Types, MirrorAssumption
    <2>2. Busy'
      BY <1>2 DEF Busy, InFolder
    <2>3. eng'.pc \in {"token", "walk"} /\ (eng'.pc = "token" <=> eng.fin)
      BY <1>2
    <2> QED
      BY <1>0, <1>1, <1>2, <1>6, <1>d, <2>1, <2>2, <2>3 DEF MirrorInv, EngOK
  <1>9. SrvOK' /\ WriteOK'
    BY <1>1, <1>3 DEF MirrorInv, SrvOK, WriteOK
  <1>10. OrphansOnlyByFault'
    BY <1>1, <1>2, <1>3 DEF MirrorInv, OrphansOnlyByFault
  <1>11. Complete'
    BY <1>1, <1>2, <1>6 DEF MirrorInv, Complete
  <1>12. ASSUME NEW i \in Items PROVE ItemOK(i)'
    <2>0. ItemOK(i) /\ ~Pending(i)' /\ ~Pending(i)
      BY <1>0, <1>d DEF MirrorInv, Pending, Early
    <2>1. Vouched(i)'
      BY <1>0, <1>1, <1>2, <1>3, <1>4, <2>0 DEF ItemOK, Vouched, InFolder
    <2>2. Presence(i)'
      BY <1>1, <1>3, <1>4, <1>6, <1>d, <2>0 DEF ItemOK, Presence
    <2>3. Meta(i)' /\ Body(i)'
      BY <1>1, <1>3, <1>4, <1>6, <2>0 DEF ItemOK, Meta, Body
    <2>4. Read(i)'
      BY <1>1, <1>3, <1>4, <1>6, <1>d, <2>0 DEF ItemOK, Read
    <2> QED
      BY <2>1, <2>2, <2>3, <2>4 DEF ItemOK
  <1> QED
    BY <1>5, <1>7, <1>9, <1>10, <1>11, <1>12 DEF MirrorInv

-----------------------------------------------------------------------------
(* The end of a pass.                                                      *)

(* FolderDone leaves the engine between folders, one folder less to do. *)
LEMMA FolderDoneIs ==
    ASSUME MirrorInv, Busy
    PROVE  LET e == FolderDone(eng) IN
           /\ e \in Engine /\ e.pc \in {"idle", "item"}
           /\ DOMAIN e.told = {} /\ DOMAIN e.ups = {} /\ DOMAIN e.rf = {} /\ e.dels = {}
           /\ ~e.fin /\ e.n = 0 /\ e.gone = {} /\ e.known = eng.known
           /\ e.todo \subseteq eng.todo /\ (e.pc # "item" => e.todo = {})
  <1> DEFINE e == FolderDone(eng)
  <1>0. /\ TypeOK /\ eng \in Engine /\ eng.gone = {} /\ eng.todo \subseteq Folders
    BY EngineFields DEF MirrorInv, EngOK, Busy, InFolder, TypeOK
  <1>1. 0 \in Version /\ 0 \in 0..FlushEvery
    BY MirrorAssumption DEF Version
  <1>2. e = [eng EXCEPT !.pc = IF eng.todo = {eng.cur} THEN "idle" ELSE "item",
                        !.todo = eng.todo \ {eng.cur}, !.told = Off.told, !.pos = 0, !.n = 0,
                        !.ups = Off.ups, !.dels = {}, !.rf = Off.rf, !.fin = FALSE]
    BY DEF FolderDone
  <1> HIDE DEF e
  <1>3. e \in Engine
    <2> DEFINE pc == IF eng.todo = {eng.cur} THEN "idle" ELSE "item"
               todo == eng.todo \ {eng.cur}
               told == Off.told  ups == Off.ups  rf == Off.rf
    <2>1. /\ pc \in {"idle", "item"} /\ todo \in SUBSET Folders
          /\ told \in Partial(Items, Version) /\ ups \in Partial(Items, Snapshot)
          /\ rf \in Partial(Items, 0..1)
      BY <1>0, OffIs
    <2>2. e = [eng EXCEPT !.pc = pc, !.todo = todo, !.told = told, !.pos = 0, !.n = 0,
                          !.ups = ups, !.dels = {}, !.rf = rf, !.fin = FALSE]
      BY <1>2
    <2> HIDE DEF pc, todo, told, ups, rf
    <2> QED
      BY <1>0, <1>1, <2>1, <2>2 DEF Engine
  <1>4. /\ e.pc = (IF eng.todo = {eng.cur} THEN "idle" ELSE "item")
        /\ e.todo = eng.todo \ {eng.cur} /\ e.told = Off.told /\ e.n = 0 /\ e.ups = Off.ups
        /\ e.dels = {} /\ e.rf = Off.rf /\ e.fin = FALSE /\ e.gone = eng.gone
        /\ e.known = eng.known
    BY <1>0, <1>2 DEF Engine
  <1>5. e.pc # "item" => e.todo = {}
    BY <1>4
  <1> QED
    BY <1>0, <1>3, <1>4, <1>5, OffIs DEF e

(* The folder went during the pass.                                        *)
LEMMA FolderGoneKeeps ==
    ASSUME MirrorInv, FolderGone
    PROVE  MirrorInv'
  <1>0. TypeOK /\ Busy /\ eng.cur \notin hier
    BY DEF FolderGone, Busy, InFolder, MirrorInv
  <1>1. /\ eng' = FolderDone(eng)
        /\ UNCHANGED <<srv, hier, head, row, folders, tok, flagged, wt, faults, orphans, late>>
    BY DEF FolderGone, exchange, store, history
  <1>2. /\ eng' \in Engine /\ eng'.pc \in {"idle", "item"}
        /\ DOMAIN eng'.told = {} /\ DOMAIN eng'.ups = {} /\ DOMAIN eng'.rf = {}
        /\ eng'.dels = {} /\ ~eng'.fin /\ eng'.n = 0 /\ eng'.gone = {}
        /\ eng'.known = eng.known /\ eng'.todo \subseteq eng.todo
        /\ (eng'.pc # "item" => eng'.todo = {})
    BY <1>0, <1>1, FolderDoneIs
  <1>3. EngOK'
    <2>1. eng.todo \subseteq eng.known /\ eng.known \subseteq folders
      BY DEF MirrorInv, EngOK
    <2> QED
      BY <1>1, <1>2, <2>1, QuietEngine DEF InFolder
  <1>4. SrvOK' /\ Complete' /\ \A i \in Items : ItemOK(i)'
    <2>1. \A i \in DOMAIN eng.told : Home[i] \notin hier
      BY <1>0 DEF MirrorInv, EngOK
    <2> QED
      BY <1>1, <1>2, <2>1, PassEnds DEF InFolder
  <1>5. TypeOK'
    BY <1>0, <1>1, <1>2 DEF TypeOK
  <1>6. WriteOK' /\ OrphansOnlyByFault'
    <2>1. eng.gone = {}
      BY <1>0 DEF MirrorInv, EngOK, Busy, InFolder
    <2> QED
      BY <1>1, <1>2, <2>1 DEF MirrorInv, WriteOK, OrphansOnlyByFault
  <1> QED
    BY <1>3, <1>4, <1>5, <1>6 DEF MirrorInv

(* A row the failed pass wrote is one the token knows of, or becomes a ghost. *)
LEMMA UnvouchedIs ==
    ASSUME MirrorInv, NEW i \in Items, row[i].there, i \in DOMAIN eng.told
    PROVE  srv[i].born <= tok[Home[i]] \/ <<i, "ghost">> \in Unvouched
  <1>1. Busy /\ Home[i] = eng.cur
    BY DEF MirrorInv, EngOK
  <1>2. srv[i].born \in Nat /\ tok[Home[i]] \in Nat
    BY Types DEF MirrorInv
  <1> QED
    BY <1>1, <1>2 DEF Unvouched, Busy

(* The rows the token knows nothing of are rows.                           *)
LEMMA UnvouchedTyped ==
    Unvouched \subseteq Items \X {"body", "meta", "read", "ghost"}
  BY DEF Unvouched

(* A folder fails; the pass goes on.                                       *)
LEMMA FolderFailsKeeps ==
    ASSUME MirrorInv, FolderFails
    PROVE  MirrorInv'
  <1>0. TypeOK /\ Busy
    BY DEF FolderFails, Busy, MirrorInv
  <1>1. /\ eng' = FolderDone(eng) /\ late' = late \cup Unvouched
        /\ faults < MaxFaults /\ faults' = faults + 1
        /\ UNCHANGED <<srv, hier, head, row, folders, tok, flagged, wt, orphans>>
    BY DEF FolderFails, exchange, store
  <1>2. /\ eng' \in Engine /\ eng'.pc \in {"idle", "item"}
        /\ DOMAIN eng'.told = {} /\ DOMAIN eng'.ups = {} /\ DOMAIN eng'.rf = {}
        /\ eng'.dels = {} /\ ~eng'.fin /\ eng'.n = 0 /\ eng'.gone = {}
        /\ eng'.known = eng.known /\ eng'.todo \subseteq eng.todo
        /\ (eng'.pc # "item" => eng'.todo = {})
    BY <1>0, <1>1, FolderDoneIs
  <1>3. EngOK'
    <2>1. eng.todo \subseteq eng.known /\ eng.known \subseteq folders
      BY DEF MirrorInv, EngOK
    <2> QED
      BY <1>1, <1>2, <2>1, QuietEngine DEF InFolder
  <1>4. SrvOK' /\ Complete' /\ \A i \in Items : ItemOK(i)'
    <2>1. \A i \in Items : row[i].there /\ i \in DOMAIN eng.told
            => srv[i].born <= tok[Home[i]] \/ <<i, "ghost">> \in late'
      BY <1>1, UnvouchedIs
    <2> QED
      BY <1>1, <1>2, <2>1, PassEnds DEF InFolder
  <1>5. TypeOK'
    <2>1. faults' \in 0..MaxFaults
      BY <1>0, <1>1, MirrorAssumption DEF TypeOK
    <2>2. late' \in SUBSET (Items \X {"body", "meta", "read", "ghost"})
      BY <1>0, <1>1, UnvouchedTyped DEF TypeOK
    <2> QED
      BY <1>0, <1>1, <1>2, <2>1, <2>2 DEF TypeOK
  <1>6. WriteOK' /\ OrphansOnlyByFault'
    <2>1. eng.gone = {}
      BY <1>0 DEF MirrorInv, EngOK, Busy, InFolder
    <2> QED
      BY <1>1, <1>2, <2>1 DEF MirrorInv, WriteOK, OrphansOnlyByFault
  <1> QED
    BY <1>3, <1>4, <1>5, <1>6 DEF MirrorInv

(* The process dies.                                                       *)
LEMMA CrashKeeps ==
    ASSUME MirrorInv, Crash
    PROVE  MirrorInv'
  <1>0. TypeOK
    BY DEF MirrorInv
  <1>1. /\ eng' = Off /\ late' = late \cup Unvouched /\ wt' = {}
        /\ faults < MaxFaults /\ faults' = faults + 1 /\ orphans' = orphans \cup eng.gone
        /\ UNCHANGED <<srv, hier, head, row, folders, tok, flagged>>
    BY DEF Crash, exchange, store
  <1>2. /\ eng' \in Engine /\ eng'.pc = "off"
        /\ DOMAIN eng'.told = {} /\ DOMAIN eng'.ups = {} /\ DOMAIN eng'.rf = {}
        /\ eng'.dels = {} /\ ~eng'.fin /\ eng'.n = 0 /\ eng'.gone = {}
        /\ eng'.known = {} /\ eng'.todo = {}
    BY <1>1, OffIs DEF Off
  <1>3. EngOK'
    BY <1>1, <1>2, QuietEngine DEF InFolder
  <1>4. SrvOK' /\ Complete' /\ \A i \in Items : ItemOK(i)'
    <2>1. \A i \in Items : row[i].there /\ i \in DOMAIN eng.told
            => srv[i].born <= tok[Home[i]] \/ <<i, "ghost">> \in late'
      BY <1>1, UnvouchedIs
    <2> QED
      BY <1>1, <1>2, <2>1, PassEnds DEF InFolder
  <1>5. TypeOK'
    <2>1. faults' \in 0..MaxFaults
      BY <1>0, <1>1, MirrorAssumption DEF TypeOK
    <2>2. late' \in SUBSET (Items \X {"body", "meta", "read", "ghost"})
      BY <1>0, <1>1, UnvouchedTyped DEF TypeOK
    <2>3. orphans' \subseteq Folders
      BY <1>0, <1>1, EngineFields DEF TypeOK
    <2>4. wt' \in SUBSET Write /\ Cardinality(wt') <= 1
      <3>1. Cardinality({}) = 0
        BY FS_EmptySet
      <3> QED
        BY <1>1, <3>1
    <2> QED
      BY <1>0, <1>1, <1>2, <2>1, <2>2, <2>3, <2>4 DEF TypeOK
  <1>6. WriteOK' /\ OrphansOnlyByFault'
    BY <1>1, <1>2 DEF MirrorInv, WriteOK, OrphansOnlyByFault
  <1> QED
    BY <1>3, <1>4, <1>5, <1>6 DEF MirrorInv

(* The token is saved, and stands for all that was told.                   *)
LEMMA SaveTokenKeeps ==
    ASSUME MirrorInv, SaveToken
    PROVE  MirrorInv'
  <1>0. /\ TypeOK /\ Busy /\ eng.pc = "token" /\ eng.fin /\ tok \in [Folders -> Version]
        /\ eng.cur \in Folders /\ eng.pos \in Version
        /\ DOMAIN eng.ups = {} /\ DOMAIN eng.rf = {} /\ eng.dels = {} /\ eng.gone = {}
    BY EngineFields DEF SaveToken, Busy, InFolder, MirrorInv, EngOK, TypeOK
  <1>1. /\ eng' = FolderDone(eng) /\ tok' = [tok EXCEPT ![eng.cur] = eng.pos]
        /\ UNCHANGED <<srv, hier, head, row, folders, flagged, wt, faults, orphans, late>>
    BY DEF SaveToken, exchange, history
  <1>2. /\ eng' \in Engine /\ eng'.pc \in {"idle", "item"}
        /\ DOMAIN eng'.told = {} /\ DOMAIN eng'.ups = {} /\ DOMAIN eng'.rf = {}
        /\ eng'.dels = {} /\ ~eng'.fin /\ eng'.n = 0 /\ eng'.gone = {}
        /\ eng'.known = eng.known /\ eng'.todo \subseteq eng.todo
        /\ (eng'.pc # "item" => eng'.todo = {})
    BY <1>0, <1>1, FolderDoneIs
  <1>3. EngOK'
    <2>1. eng.todo \subseteq eng.known /\ eng.known \subseteq folders
      BY DEF MirrorInv, EngOK
    <2> QED
      BY <1>1, <1>2, <2>1, QuietEngine DEF InFolder
  <1>4. /\ tok[eng.cur] <= eng.pos /\ eng.pos <= head
        /\ \A i \in DOMAIN eng.told : /\ Home[i] = eng.cur /\ eng.told[i] <= eng.pos
                                      /\ srv[i].born <= eng.told[i]
    BY <1>0 DEF MirrorInv, EngOK
  <1>5. TypeOK'
    BY <1>0, <1>1, <1>2 DEF TypeOK
  <1>6. SrvOK'
    <2>1. \A f \in Folders : tok'[f] <= head
      BY <1>0, <1>1, <1>4 DEF MirrorInv, SrvOK
    <2> QED
      BY <1>1, <2>1 DEF MirrorInv, SrvOK
  <1>7. WriteOK' /\ Complete' /\ OrphansOnlyByFault'
    BY <1>0, <1>1, <1>2 DEF MirrorInv, WriteOK, Complete, OrphansOnlyByFault
  <1>8. ASSUME NEW i \in Items PROVE ItemOK(i)'
    <2>0. /\ ItemOK(i) /\ Num(i)' = Num(i) /\ There(i)' = There(i)
          /\ ~Pending(i)' /\ ~Pending(i) /\ As(i)' = tok'[Home[i]]
          /\ i \notin DOMAIN eng'.rf /\ i \notin DOMAIN eng.rf /\ i \notin eng.dels
          /\ i \notin DOMAIN eng'.told /\ eng'.pc \notin InFolder
      BY <1>0, <1>1, <1>2 DEF MirrorInv, Num, There, Pending, As, InFolder
    <2>1. CASE Home[i] # eng.cur
      <3>1. tok'[Home[i]] = tok[Home[i]] /\ i \notin DOMAIN eng.told /\ As(i) = tok[Home[i]]
        BY <1>0, <1>1, <1>4, <2>1, MirrorAssumption DEF As
      <3>2. Vouched(i)'
        BY <1>1, <2>0, <3>1 DEF ItemOK, Vouched
      <3> QED
        BY <1>1, <2>0, <3>1, <3>2 DEF ItemOK, Presence, Meta, Body, Read
    <2>2. CASE Home[i] = eng.cur
      <3>1. tok'[Home[i]] = eng.pos
        BY <1>0, <1>1, <2>2
      <3>2. /\ srv[i].born \in Nat /\ srv[i].mod \in Nat /\ As(i) \in Nat /\ eng.pos \in Nat
            /\ tok[Home[i]] \in Nat
        BY <1>0, Types
      <3>3. /\ tok[Home[i]] <= As(i) /\ As(i) <= eng.pos
            /\ i \in DOMAIN eng.told => srv[i].born <= As(i)
        <4>1. tok[Home[i]] <= As(i)
          BY <2>2, KnownIs
        <4>2. As(i) <= eng.pos /\ (i \in DOMAIN eng.told => srv[i].born <= As(i))
          BY <1>4, <2>2 DEF As
        <4> QED
          BY <4>1, <4>2
      <3>4. row[i].there => srv[i].born <= As(i) \/ <<i, "ghost">> \in late
        <4>1. row[i].there => \/ srv[i].born <= tok[Home[i]]
                              \/ i \in DOMAIN eng.told
                              \/ <<i, "ghost">> \in late
          BY <1>0, <2>0, <2>2 DEF ItemOK, Vouched, InFolder
        <4> QED
          BY <3>2, <3>3, <4>1
      <3>5. Vouched(i)'
        BY <1>1, <2>0, <3>1, <3>2, <3>3, <3>4 DEF Vouched
      <3>6. srv[i].st # "new" =>
              /\ There(i) /\ Num(i) <= eng.pos => Num(i) <= As(i)
              /\ srv[i].mod <= eng.pos => \/ srv[i].mod <= As(i)
                                          \/ ~There(i) /\ srv[i].born > As(i)
        BY <1>0, <2>2 DEF MirrorInv, Complete
      <3>7. Presence(i)'
        <4> SUFFICES ASSUME srv[i].st # "new", srv[i].mod <= eng.pos
                     PROVE  /\ There(i) => row[i].there
                            /\ ~There(i) /\ row[i].there => <<i, "ghost">> \in late
          BY <1>1, <2>0, <3>1 DEF Presence
        <4>1. CASE srv[i].mod <= As(i)
          BY <2>0, <4>1 DEF ItemOK, Presence
        <4>2. CASE ~There(i) /\ srv[i].born > As(i)
          BY <3>2, <3>4, <4>2
        <4> QED
          BY <3>6, <4>1, <4>2
      <3>8. There(i) => srv[i].st # "new"
        BY DEF There
      <3>9. Meta(i)' /\ Body(i)' /\ Read(i)'
        BY <1>1, <2>0, <3>1, <3>6, <3>8 DEF ItemOK, Meta, Body, Read
      <3> QED
        BY <3>5, <3>7, <3>9 DEF ItemOK
    <2> QED
      BY <2>1, <2>2
  <1> QED
    BY <1>3, <1>5, <1>6, <1>7, <1>8 DEF MirrorInv

-----------------------------------------------------------------------------
(* The write-throughs.                                                     *)

(* A write through fails.                                                  *)
LEMMA WriteThroughFailsKeeps ==
    ASSUME MirrorInv, WriteThroughFails
    PROVE  MirrorInv'
  <1>1. /\ wt' = {} /\ faults < MaxFaults /\ faults' = faults + 1
        /\ UNCHANGED <<srv, hier, head, row, folders, tok, flagged, eng, orphans, late>>
    BY DEF WriteThroughFails, exchange, store, history
  <1>2. TypeOK'
    <2>1. faults' \in 0..MaxFaults
      BY <1>1, MirrorAssumption DEF MirrorInv, TypeOK
    <2>2. wt' \in SUBSET Write /\ Cardinality(wt') <= 1
      <3>1. Cardinality({}) = 0
        BY FS_EmptySet
      <3> QED
        BY <1>1, <3>1
    <2> QED
      BY <1>1, <2>1, <2>2 DEF MirrorInv, TypeOK
  <1>3. WriteOK' /\ SrvOK' /\ OrphansOnlyByFault'
    BY <1>1 DEF MirrorInv, WriteOK, SrvOK, OrphansOnlyByFault
  <1>4. \A i \in Items : Num(i)' = Num(i) /\ As(i)' = As(i) /\ There(i)' = There(i)
    BY <1>1 DEF Num, As, There
  <1>5. EngOK' /\ Complete'
    <2>1. DOMAIN eng.told \subseteq Items
      BY Types DEF MirrorInv
    <2> QED
      BY <1>1, <1>4, <2>1 DEF MirrorInv, EngOK, Busy, Complete
  <1>6. ASSUME NEW i \in Items PROVE ItemOK(i)'
    <2>1. ItemOK(i) /\ Pending(i)' = Pending(i)
      BY <1>1 DEF MirrorInv, Pending, Early
    <2> QED
      BY <1>1, <1>4, <2>1 DEF ItemOK, Presence, Vouched, Meta, Body, Read
  <1> QED
    BY <1>2, <1>3, <1>5, <1>6 DEF MirrorInv

(* A write to the row of one item: every other row, and every other mark,  *)
(* stays as it was; so does the row's presence unless it is deleted with   *)
(* its item.                                                               *)
LEMMA RowWritten ==
    ASSUME MirrorInv, NEW id \in Items, row[id].there,
           UNCHANGED <<srv, hier, head, folders, tok, flagged, eng, faults, orphans>>,
           wt' = {}, row' \in [Items -> Row],
           late' \in SUBSET (Items \X {"body", "meta", "read", "ghost"}),
           \A i \in Items : i # id =>
             row'[i] = row[i] /\ \A k : <<i, k>> \in late' <=> <<i, k>> \in late,
           <<id, "ghost">> \in late => <<id, "ghost">> \in late',
           \/ ~row'[id].there /\ ~There(id)
           \/ /\ row'[id].there
              /\ \/ row'[id].meta = srv[id].meta \/ <<id, "meta">> \in late'
                 \/ row'[id].meta = row[id].meta /\ <<id, "meta">> \notin late
              /\ \/ row'[id].read = srv[id].read \/ <<id, "read">> \in late'
                 \/ row'[id].read = row[id].read /\ <<id, "read">> \notin late
              /\ \/ row'[id].body = srv[id].body \/ <<id, "body">> \in late'
                 \/ row'[id].body = row[id].body /\ <<id, "body">> \notin late
    PROVE  MirrorInv'
  <1>2. TypeOK'
    <2>2. wt' \in SUBSET Write /\ Cardinality(wt') <= 1
      <3>1. Cardinality({}) = 0
        BY FS_EmptySet
      <3> QED
        BY <3>1
    <2> QED
      BY <2>2 DEF MirrorInv, TypeOK
  <1>1. \A i \in Items : row'[i].there => row[i].there
    OBVIOUS
  <1>3. WriteOK' /\ SrvOK' /\ OrphansOnlyByFault'
    BY <1>1 DEF MirrorInv, WriteOK, SrvOK, OrphansOnlyByFault
  <1>4. \A i \in Items : Num(i)' = Num(i) /\ As(i)' = As(i) /\ There(i)' = There(i)
    BY DEF Num, As, There
  <1>5. EngOK' /\ Complete'
    <2>1. DOMAIN eng.told \subseteq Items
      BY Types DEF MirrorInv
    <2> QED
      BY <1>4, <2>1 DEF MirrorInv, EngOK, Busy, Complete
  <1>6. ASSUME NEW i \in Items PROVE ItemOK(i)'
    <2>1. ItemOK(i) /\ Pending(i)' = Pending(i)
      BY DEF MirrorInv, Pending, Early
    <2>2. CASE i # id
      BY <1>4, <2>1, <2>2 DEF ItemOK, Presence, Vouched, Meta, Body, Read
    <2>3. CASE i = id /\ ~row'[id].there /\ ~There(id)
      BY <1>4, <2>1, <2>3 DEF ItemOK, Presence, Vouched, Meta, Body, Read
    <2>4. CASE i = id /\ row'[id].there
      <3>1. Presence(id)' /\ Vouched(id)'
        BY <1>4, <2>1, <2>4 DEF ItemOK, Presence, Vouched
      <3>2. Meta(id)'
        BY <1>4, <2>1, <2>4 DEF ItemOK, Meta
      <3>3. Read(id)'
        BY <1>4, <2>1, <2>4 DEF ItemOK, Read
      <3>4. Body(id)'
        BY <1>4, <2>1, <2>4 DEF ItemOK, Body
      <3> QED
        BY <2>4, <3>1, <3>2, <3>3, <3>4 DEF ItemOK
    <2> QED
      BY <2>2, <2>3, <2>4
  <1> QED
    BY <1>2, <1>3, <1>5, <1>6 DEF MirrorInv

(* A write through arrives, in time or late.                               *)
LEMMA WriteThroughKeeps ==
    ASSUME MirrorInv, NEW w \in wt, WriteThrough(w)
    PROVE  MirrorInv'
  <1>0. /\ TypeOK /\ w \in Write /\ w.id \in Items /\ w.val \in Version
        /\ w.op \in {"read", "meta", "tomb", "body"}
        /\ (w.op = "tomb" => srv[w.id].st = "gone") /\ (w.op = "read" => w.val \in 0..1)
    BY DEF MirrorInv, WriteOK, TypeOK, Write
  <1>1. /\ wt' = {}
        /\ UNCHANGED <<srv, hier, head, folders, tok, flagged, eng, faults, orphans>>
    BY DEF WriteThrough, exchange
  <1>2. /\ row \in [Items -> Row] /\ row[w.id] \in Row
        /\ late \in SUBSET (Items \X {"body", "meta", "read", "ghost"})
    BY <1>0 DEF TypeOK
  <1>3. CASE ~row[w.id].there
    <2>1. row' = row /\ late' = late
      BY <1>3 DEF WriteThrough
    <2>2. WriteOK'
      BY <1>1 DEF WriteOK
    <2>3. TypeOK'
      <3>1. wt' \in SUBSET Write /\ Cardinality(wt') <= 1
        <4>1. Cardinality({}) = 0
          BY FS_EmptySet
        <4> QED
          BY <1>1, <4>1
      <3> QED
        BY <1>0, <1>1, <2>1, <3>1 DEF TypeOK
    <2>4. \A i \in Items : Num(i)' = Num(i) /\ As(i)' = As(i) /\ There(i)' = There(i)
      BY <1>1 DEF Num, As, There
    <2>5. EngOK' /\ Complete' /\ SrvOK' /\ OrphansOnlyByFault'
      <3>1. DOMAIN eng.told \subseteq Items
        BY <1>0, Types
      <3> QED
        BY <1>1, <2>1, <2>4, <3>1
           DEF MirrorInv, EngOK, Busy, Complete, SrvOK, OrphansOnlyByFault
    <2>6. ASSUME NEW i \in Items PROVE ItemOK(i)'
      <3>1. ItemOK(i) /\ Pending(i)' = Pending(i)
        BY <1>1 DEF MirrorInv, Pending, Early
      <3> QED
        BY <1>1, <2>1, <2>4, <3>1 DEF ItemOK, Presence, Vouched, Meta, Body, Read
    <2> QED
      BY <2>2, <2>3, <2>5, <2>6 DEF MirrorInv
  <1>4. CASE row[w.id].there
    <2>1. /\ row' = [row EXCEPT ![w.id] = Written(row[w.id], w)]
          /\ late' = IF \A p \in {w.id} \X Field(w.op) : srv[p[1]][p[2]] = w.val
                     THEN late \ ({w.id} \X Field(w.op)) ELSE late \cup ({w.id} \X Field(w.op))
      BY <1>4 DEF WriteThrough
    <2>2. /\ Written(row[w.id], w) \in Row
          /\ (w.op = "tomb" => Written(row[w.id], w).there = FALSE)
      <3>1. CASE w.op = "tomb"
        <4>1. Written(row[w.id], w) = NoRow
          BY <3>1 DEF Written
        <4> QED
          BY <4>1, MirrorAssumption DEF NoRow, Row, Version
      <3>2. CASE w.op # "tomb"
        BY <1>0, <1>2, <3>2 DEF Written, Row
      <3> QED
        BY <3>1, <3>2
    <2>3. /\ row' \in [Items -> Row] /\ row'[w.id] = Written(row[w.id], w)
          /\ \A i \in Items : i # w.id => row'[i] = row[i]
      BY <1>0, <1>2, <2>1, <2>2
    <2>4. CASE w.op = "tomb"
      <3>1. late' = late
        BY <2>1, <2>4 DEF Field
      <3>2. ~row'[w.id].there /\ ~There(w.id)
        BY <1>0, <2>2, <2>3, <2>4 DEF There
      <3> QED
        BY <1>0, <1>1, <1>2, <1>4, <2>3, <3>1, <3>2, RowWritten
    <2>5. CASE w.op # "tomb"
      <3>1. /\ {w.id} \X Field(w.op) = {<<w.id, w.op>>}
        BY <2>5 DEF Field
      <3>2. late' = IF srv[w.id][w.op] = w.val
                    THEN late \ {<<w.id, w.op>>} ELSE late \cup {<<w.id, w.op>>}
        <4> DEFINE p == <<w.id, w.op>>
        <4>1. p[1] = w.id /\ p[2] = w.op
          OBVIOUS
        <4> HIDE DEF p
        <4>2. (\A q \in {p} : srv[q[1]][q[2]] = w.val) <=> srv[w.id][w.op] = w.val
          BY <4>1
        <4>3. late' = IF \A q \in {p} : srv[q[1]][q[2]] = w.val
                      THEN late \ {p} ELSE late \cup {p}
          BY <2>1, <3>1 DEF p
        <4> QED
          BY <4>2, <4>3 DEF p
      <3>3. /\ late' \in SUBSET (Items \X {"body", "meta", "read", "ghost"})
            /\ \A i, k : i # w.id \/ k # w.op => (<<i, k>> \in late' <=> <<i, k>> \in late)
            /\ srv[w.id][w.op] = w.val \/ <<w.id, w.op>> \in late'
        BY <1>0, <1>2, <2>5, <3>2
      <3>4. CASE w.op = "read"
        <4>1. row'[w.id] = [row[w.id] EXCEPT !.read = w.val]
          BY <2>3, <3>4 DEF Written
        <4>2. /\ row'[w.id].read = w.val /\ row'[w.id].there
              /\ row'[w.id].meta = row[w.id].meta /\ row'[w.id].body = row[w.id].body
          BY <1>2, <1>4, <4>1 DEF Row
        <4>3. row'[w.id].read = srv[w.id].read \/ <<w.id, "read">> \in late'
          BY <3>3, <3>4, <4>2
        <4>4. \A k \in {"meta", "body", "ghost"} :
                 <<w.id, k>> \in late' <=> <<w.id, k>> \in late
          BY <3>3, <3>4
        <4> QED
          BY <1>0, <1>1, <1>4, <2>3, <3>3, <4>2, <4>3, <4>4, RowWritten
      <3>5. CASE w.op = "meta"
        <4>1. row'[w.id] = [row[w.id] EXCEPT !.meta = w.val]
          BY <2>3, <3>5 DEF Written
        <4>2. /\ row'[w.id].meta = w.val /\ row'[w.id].there
              /\ row'[w.id].read = row[w.id].read /\ row'[w.id].body = row[w.id].body
          BY <1>2, <1>4, <4>1 DEF Row
        <4>3. row'[w.id].meta = srv[w.id].meta \/ <<w.id, "meta">> \in late'
          BY <3>3, <3>5, <4>2
        <4>4. \A k \in {"read", "body", "ghost"} :
                 <<w.id, k>> \in late' <=> <<w.id, k>> \in late
          BY <3>3, <3>5
        <4> QED
          BY <1>0, <1>1, <1>4, <2>3, <3>3, <4>2, <4>3, <4>4, RowWritten
      <3>6. CASE w.op = "body"
        <4>1. row'[w.id] = [row[w.id] EXCEPT !.body = w.val]
          BY <2>3, <3>6 DEF Written
        <4>2. /\ row'[w.id].body = w.val /\ row'[w.id].there
              /\ row'[w.id].read = row[w.id].read /\ row'[w.id].meta = row[w.id].meta
          BY <1>2, <1>4, <4>1 DEF Row
        <4>3. row'[w.id].body = srv[w.id].body \/ <<w.id, "body">> \in late'
          BY <3>3, <3>6, <4>2
        <4>4. \A k \in {"read", "meta", "ghost"} :
                 <<w.id, k>> \in late' <=> <<w.id, k>> \in late
          BY <3>3, <3>6
        <4> QED
          BY <1>0, <1>1, <1>4, <2>3, <3>3, <4>2, <4>3, <4>4, RowWritten
      <3> QED
        BY <1>0, <2>5, <3>4, <3>5, <3>6
    <2> QED
      BY <2>4, <2>5
  <1> QED
    BY <1>3, <1>4

-----------------------------------------------------------------------------
(* The theorems.                                                           *)

(* The invariant holds at the start.                                       *)
LEMMA InitKeeps ==
    ASSUME Init
    PROVE  MirrorInv
  <1>0. 0 \in Version /\ 1 \in Version /\ 0 \in 0..MaxFaults /\ 1 <= MaxChanges
    BY MirrorAssumption DEF Version
  <1>1. /\ head = 1 /\ hier = Folders /\ flagged = FALSE /\ eng = Off /\ wt = {}
        /\ faults = 0 /\ orphans = {} /\ late = {}
    BY DEF Init
  <1>2. /\ eng \in Engine /\ eng.pc = "off"
        /\ DOMAIN eng.told = {} /\ DOMAIN eng.ups = {} /\ DOMAIN eng.rf = {}
        /\ eng.dels = {} /\ eng.fin = FALSE /\ eng.n = 0 /\ eng.gone = {}
        /\ eng.known = {} /\ eng.todo = {}
    BY <1>1, OffIs DEF Off
  <1>3. ASSUME NEW i \in Items
        PROVE  /\ srv[i] \in Item
               /\ \/ /\ i \in Old /\ srv[i].st = "there" /\ srv[i].body = 1 /\ srv[i].meta = 1
                     /\ srv[i].read = 0 /\ srv[i].born = 1 /\ srv[i].mod = 1
                     /\ srv[i].rmod = 0
                  \/ /\ i \notin Old /\ srv[i].st = "new" /\ srv[i].body = 0
                     /\ srv[i].meta = 0
                     /\ srv[i].read = 0 /\ srv[i].born = 0 /\ srv[i].mod = 0
                     /\ srv[i].rmod = 0
    <2>1. srv[i] = IF i \in Old
                   THEN [st |-> "there", body |-> 1, meta |-> 1, read |-> 0,
                         born |-> 1, mod |-> 1, rmod |-> 0]
                   ELSE [st |-> "new", body |-> 0, meta |-> 0, read |-> 0,
                         born |-> 0, mod |-> 0, rmod |-> 0]
      BY DEF Init
    <2>2. CASE i \in Old
      BY <1>0, <2>1, <2>2 DEF Item
    <2>3. CASE i \notin Old
      BY <1>0, <2>1, <2>3 DEF Item
    <2> QED
      BY <2>2, <2>3
  <1>4. \/ /\ \A i \in Items : row[i] \in Row /\ row[i].there = FALSE
           /\ folders = {} /\ \A f \in Folders : tok[f] = 0
        \/ /\ \A i \in Items : /\ row[i] \in Row /\ (row[i].there <=> i \in Old)
                               /\ row[i].there => row[i].body = 1 /\ row[i].read = 0
           /\ folders = Folders /\ \A f \in Folders : tok[f] = 1
    <2>1. CASE /\ row = [i \in Items |-> NoRow]
               /\ folders = {}
               /\ tok = [f \in Folders |-> NoToken]
      BY <1>0, <2>1 DEF NoRow, NoToken, Row
    <2>2. CASE /\ row = [i \in Items |->
                          IF srv[i].st = "there"
                          THEN [NoRow EXCEPT !.there = TRUE, !.body = 1]
                          ELSE NoRow]
               /\ folders = Folders
               /\ tok = [f \in Folders |-> 1]
      <3>1. ASSUME NEW i \in Items
            PROVE  /\ row[i] \in Row /\ (row[i].there <=> i \in Old)
                   /\ row[i].there => row[i].body = 1 /\ row[i].read = 0
        <4>1. CASE i \in Old
          <5>1. row[i] = [NoRow EXCEPT !.there = TRUE, !.body = 1]
            BY <1>3, <2>2, <4>1
          <5>2. row[i] = [there |-> TRUE, body |-> 1, meta |-> 0, read |-> 0]
            BY <5>1 DEF NoRow
          <5>3. row[i] \in Row
            BY <1>0, <5>2 DEF Row
          <5>4. row[i].there /\ row[i].body = 1 /\ row[i].read = 0
            BY <5>2
          <5> QED
            BY <4>1, <5>3, <5>4
        <4>2. CASE i \notin Old
          <5>1. row[i] = NoRow
            BY <1>3, <2>2, <4>2
          <5> QED
            BY <1>0, <4>2, <5>1 DEF NoRow, Row
        <4> QED
          BY <4>1, <4>2
      <3> QED
        BY <2>2, <3>1
    <2> QED
      BY <2>1, <2>2 DEF Init
  <1>5. srv \in [Items -> Item] /\ row \in [Items -> Row] /\ tok \in [Folders -> Version]
    <2>1. /\ srv = [i \in Items |-> srv[i]] /\ row = [i \in Items |-> row[i]]
          /\ tok = [f \in Folders |-> tok[f]]
      BY DEF Init
    <2>2. \A f \in Folders : tok[f] \in Version
      BY <1>0, <1>4
    <2>3. \A i \in Items : row[i] \in Row
      BY <1>4
    <2> QED
      BY <1>3, <2>1, <2>2, <2>3
  <1>6. TypeOK
    <2>1. wt \in SUBSET Write /\ Cardinality(wt) <= 1
      <3>1. Cardinality({}) = 0
        BY FS_EmptySet
      <3> QED
        BY <1>1, <3>1
    <2>2. folders \in SUBSET Folders
      BY <1>4
    <2> QED
      BY <1>0, <1>1, <1>2, <1>5, <2>1, <2>2 DEF TypeOK
  <1>7. SrvOK
    <2>1. \A f \in Folders : tok[f] <= 1
      BY <1>4
    <2>2. \A i \in Items : row[i].there => srv[i].st # "new"
      BY <1>3, <1>4
    <2> QED
      BY <1>0, <1>1, <1>3, <2>1, <2>2 DEF SrvOK
  <1>8. WriteOK /\ Complete
    BY <1>1, <1>2 DEF WriteOK, Complete
  <1>9. EngOK
    BY <1>2 DEF EngOK, Busy, InFolder
  <1>10. OrphansOnlyByFault
    BY <1>4, MirrorAssumption DEF OrphansOnlyByFault
  <1>11. ASSUME NEW i \in Items PROVE ItemOK(i)
    <2>1. /\ As(i) = tok[Home[i]] /\ ~Pending(i) /\ Home[i] \in Folders
          /\ i \notin DOMAIN eng.rf
      BY <1>2, MirrorAssumption DEF As, Pending
    <2>2. Num(i) = srv[i].mod
      BY <1>3 DEF Num
    <2>3. Presence(i) /\ Vouched(i) /\ Meta(i)
      BY <1>1, <1>3, <1>4, <2>1 DEF Presence, Vouched, Meta, There
    <2>4. Body(i) /\ Read(i)
      BY <1>3, <1>4, <2>1, <2>2 DEF Body, Read, There
    <2> QED
      BY <2>3, <2>4 DEF ItemOK
  <1> QED
    BY <1>6, <1>7, <1>8, <1>9, <1>10, <1>11 DEF MirrorInv

(* Every step keeps it.                                                    *)
LEMMA StepKeeps ==
    ASSUME MirrorInv, FoldersStayGone, [Next]_vars
    PROVE  MirrorInv'
  <1>1. CASE EngineStep
    <2>1. CASE \E f \in Folders : DropRows(f) \/ DropToken(f) \/ OpenFolder(f)
      BY <2>1, DropRowsKeeps, DropTokenKeeps, OpenFolderKeeps
    <2>2. CASE \E i \in Items : NextChange(i)
      BY <2>2, NextChangeKeeps
    <2>3. CASE \E missed \in SUBSET Items : BackfillFlags(missed)
      BY <2>3, BackfillFlagsKeeps
    <2>4. CASE \E ok \in SUBSET DOMAIN eng.ups : FlushUpserts(ok)
      BY <2>4, FlushUpsertsKeeps
    <2> QED
      BY <1>1, <2>1, <2>2, <2>3, <2>4, StartKeeps, SkipHierarchyKeeps, WalkHierarchyKeeps,
         ExhaustedKeeps, FlushDeletesKeeps, FlushReadFlagsKeeps, SaveTokenKeeps,
         FolderGoneKeeps DEF EngineStep
  <1>2. CASE FolderFails \/ CleanUpFails \/ Crash
    BY <1>2, FolderFailsKeeps, CleanUpFailsKeeps, CrashKeeps
  <1>3. CASE (\E w \in wt : WriteThrough(w)) \/ WriteThroughFails
    BY <1>3, WriteThroughKeeps, WriteThroughFailsKeeps
  <1>4. CASE \E f \in Folders : RemoveFolder(f)
    BY <1>4, RemoveFolderKeeps
  <1>5. ASSUME NEW i \in Items,
               \/ Arrive(i) \/ Edit(i) \/ SetMeta(i) \/ DeleteMessage(i)
               \/ RepairBody(i)
               \/ \E v \in 0..1 : SetRead(i, v)
               \/ \E j \in Items : MoveMessage(i, j)
        PROVE  MirrorInv'
    <2>1. CASE \E v \in 0..1 : SetRead(i, v)
      BY <2>1, SetReadKeeps
    <2>2. CASE \E j \in Items : MoveMessage(i, j)
      BY <2>2, MoveMessageKeeps
    <2> QED
      BY <1>5, <2>1, <2>2, ArriveKeeps, EditKeeps, SetMetaKeeps, DeleteMessageKeeps,
         RepairBodyKeeps
  <1>6. CASE UNCHANGED vars
    <2>1. /\ UNCHANGED exchange /\ wt' = wt
          /\ UNCHANGED <<row, folders, tok, flagged, eng, faults, orphans, late>>
      BY <1>6 DEF vars, exchange
    <2>2. /\ \A j \in Items : Evolves(j)
          /\ head' >= head /\ head' <= MaxChanges /\ head' \in Nat
          /\ srv' \in [Items -> Item] /\ hier' \subseteq hier
      BY <2>1, StandStill
    <2> QED
      BY <2>1, <2>2, WritesStay, ExchangeKeeps
  <1> QED
    BY <1>1, <1>2, <1>3, <1>4, <1>5, <1>6 DEF Next

(* Folders that went stay gone: Exchange only ever removes one, and nothing *)
(* arrives in a folder that is not there.                                   *)
LEMMA FoldersStayGoneKeeps ==
    ASSUME MirrorInv, MirrorInv', FoldersStayGone, [Next]_vars
    PROVE  FoldersStayGone'
  <1>0. /\ eng \in Engine /\ srv \in [Items -> Item] /\ flagged \in BOOLEAN
        /\ eng.pc # "clean" => eng.gone = {}
        /\ eng'.pc # "clean" => eng'.gone = {}
    BY DEF MirrorInv, TypeOK, EngOK
  <1>1. CASE EngineStep
    <2>1. UNCHANGED <<srv, hier>>
      BY <1>1 DEF EngineStep, Start, SkipHierarchy, WalkHierarchy, Exhausted, FlushDeletes,
         FlushReadFlags, SaveToken, FolderGone, DropRows, DropToken, OpenFolder, NextChange,
         BackfillFlags, FlushUpserts, exchange
    <2>2. eng'.gone \cap hier = {}
      <3>1. CASE SkipHierarchy
        BY <1>0, <3>1, OnwardIs DEF SkipHierarchy
      <3>2. CASE WalkHierarchy
        <4> DEFINE e == [eng EXCEPT !.known = hier, !.gone = folders \ hier]
        <4>1. e \in Engine /\ e.gone = folders \ hier
          BY <1>0 DEF MirrorInv, TypeOK, Engine
        <4> QED
          BY <1>0, <3>2, <4>1, OnwardIs DEF WalkHierarchy
      <3>3. ASSUME NEW f \in Folders, DropRows(f) PROVE eng'.gone \cap hier = {}
        BY <3>3 DEF DropRows, FoldersStayGone
      <3>4. ASSUME NEW f \in Folders, DropToken(f) PROVE eng'.gone \cap hier = {}
        <4> DEFINE e == [eng EXCEPT !.gone = @ \ {f}]
        <4>1. e \in Engine /\ e.gone = eng.gone \ {f}
          BY <1>0 DEF Engine
        <4> QED
          BY <1>0, <3>4, <4>1, OnwardIs DEF DropToken, FoldersStayGone
      <3>5. CASE Start \/ Exhausted \/ FlushDeletes \/ FlushReadFlags
        BY <1>0, <3>5 DEF Start, Exhausted, FlushDeletes, FlushReadFlags, Engine
      <3>6. CASE SaveToken \/ FolderGone
        BY <1>0, <3>6 DEF SaveToken, FolderGone, FolderDone, Engine
      <3>7. ASSUME NEW f \in Folders, OpenFolder(f) PROVE eng'.gone \cap hier = {}
        BY <1>0, <3>7 DEF OpenFolder, Engine
      <3>8. ASSUME NEW i \in Items, NextChange(i) PROVE eng'.gone = eng.gone
        BY <1>0, <3>8 DEF NextChange, Engine
      <3>9. ASSUME NEW missed \in SUBSET Items, BackfillFlags(missed)
            PROVE  eng'.gone \cap hier = {}
        BY <1>0, <3>9 DEF BackfillFlags, Engine
      <3>10. ASSUME NEW ok \in SUBSET DOMAIN eng.ups, FlushUpserts(ok)
             PROVE  eng'.gone \cap hier = {}
        BY <1>0, <3>10 DEF FlushUpserts, Engine
      <3> QED
        BY <1>1, <3>1, <3>2, <3>3, <3>4, <3>5, <3>6, <3>7, <3>8, <3>9, <3>10
           DEF EngineStep, FoldersStayGone
    <2> QED
      BY <2>1, <2>2 DEF FoldersStayGone, There
  <1>2. CASE FolderFails \/ CleanUpFails \/ Crash
    <2>1. eng'.gone = {} /\ UNCHANGED <<srv, hier>>
      <3>1. CASE FolderFails
        BY <1>0, <3>1 DEF FolderFails, FolderDone, InFolder, Engine, exchange
      <3>2. CASE CleanUpFails
        BY <1>0, <3>2 DEF CleanUpFails, Engine, exchange
      <3>3. CASE Crash
        <4>1. eng' = Off /\ UNCHANGED <<srv, hier>>
          BY <3>3 DEF Crash, exchange
        <4> QED
          BY <4>1 DEF Off
      <3> QED
        BY <1>2, <3>1, <3>2, <3>3
    <2> QED
      BY <2>1 DEF FoldersStayGone, There
  <1>3. CASE (\E w \in wt : WriteThrough(w)) \/ WriteThroughFails \/ UNCHANGED vars
    BY <1>3 DEF WriteThrough, WriteThroughFails, vars, exchange, FoldersStayGone, There
  <1>4. ASSUME NEW f \in Folders, RemoveFolder(f) PROVE FoldersStayGone'
    BY <1>0, <1>4, MirrorAssumption DEF RemoveFolder, FoldersStayGone, There, Item
  <1>5. ASSUME NEW i \in Items,
               \/ Arrive(i) \/ Edit(i) \/ SetMeta(i) \/ DeleteMessage(i)
               \/ RepairBody(i)
               \/ \E v \in 0..1 : SetRead(i, v)
        PROVE  FoldersStayGone'
    <2>1. /\ eng' = eng /\ hier' = hier
          /\ There(i)' => There(i) \/ Home[i] \in hier
          /\ \A j \in Items : j # i => srv'[j] = srv[j]
      BY <1>0, <1>5 DEF Arrive, Edit, SetMeta, DeleteMessage, RepairBody, SetRead, Changed,
         Tool, exchange, There
    <2> QED
      BY <2>1 DEF FoldersStayGone, There
  <1>6. ASSUME NEW i \in Items, NEW j \in Items, MoveMessage(i, j) PROVE FoldersStayGone'
    <2>1. /\ eng' = eng /\ hier' = hier /\ Home[j] \in hier
          /\ \A k \in Items : k # i /\ k # j => srv'[k] = srv[k]
          /\ There(i)
      BY <1>0, <1>6 DEF MoveMessage, Tool
    <2> QED
      BY <2>1 DEF FoldersStayGone, There
  <1> QED
    BY <1>1, <1>2, <1>3, <1>4, <1>5, <1>6 DEF Next

(* It holds always.                                                        *)
LEMMA MirrorInvHolds ==
    Spec => []MirrorInv
  <1>1. Init => MirrorInv /\ FoldersStayGone
    <2> SUFFICES ASSUME Init PROVE MirrorInv /\ FoldersStayGone
      OBVIOUS
    <2>1. eng.gone = {} /\ hier = Folders
      BY DEF Init, Off
    <2> QED
      BY <2>1, InitKeeps, MirrorAssumption DEF FoldersStayGone
  <1>2. MirrorInv /\ FoldersStayGone /\ [Next]_vars => (MirrorInv /\ FoldersStayGone)'
    BY StepKeeps, FoldersStayGoneKeeps
  <1> QED
    BY <1>1, <1>2, PTL DEF Spec

(* An item a pass has reported is ahead of the token its folder had. *)
LEMMA ReportedIsAhead ==
    ASSUME MirrorInv, NEW i \in Items, Num(i) <= tok[Home[i]]
    PROVE  /\ As(i) = tok[Home[i]] /\ ~Pending(i) /\ srv[i].mod <= As(i)
           /\ i \notin eng.dels /\ i \notin DOMAIN eng.rf
  <1>1. /\ Num(i) \in Nat /\ tok[Home[i]] \in Nat /\ srv[i].mod \in Nat
        /\ srv[i].mod <= Num(i)
    BY Types DEF MirrorInv
  <1>2. ASSUME i \in DOMAIN eng.told PROVE FALSE
    <2>1. /\ Home[i] = eng.cur /\ tok[eng.cur] < eng.told[i] /\ eng.told[i] <= Num(i)
          /\ eng.told[i] \in Nat
      BY <1>2, Types DEF MirrorInv, EngOK
    <2> QED
      BY <1>1, <2>1
  <1> QED
    BY <1>1, <1>2 DEF As, Pending, MirrorInv, EngOK

(* Every state of the mirror, the engine and the writes in flight is well  *)
(* formed: at most one write-through is in flight, the buffers hold ids of *)
(* the mailbox and no version or token exceeds the changes made.           *)
THEOREM MirrorTyped ==
    Spec => []TypeOK
  <1>1. MirrorInv => TypeOK
    BY DEF MirrorInv
  <1> QED
    BY <1>1, MirrorInvHolds, PTL

(* _sync_one_folder saves its token after the last flush only: below a     *)
(* saved token the mirror has exactly the items Exchange has, but for the  *)
(* rows a failed pass left behind.                                         *)
THEOREM TokenNeverAheadOfRows ==
    Spec => []TokenBehindRows
  <1>1. MirrorInv => TokenBehindRows
    <2> SUFFICES ASSUME MirrorInv, NEW i \in Items, srv[i].st # "new",
                        Num(i) <= tok[Home[i]]
                 PROVE  /\ There(i) => row[i].there
                        /\ row[i].there => There(i) \/ <<i, "ghost">> \in late
      BY DEF TokenBehindRows
    <2> QED
      BY ReportedIsAhead DEF MirrorInv, ItemOK, Presence
  <1> QED
    BY <1>1, MirrorInvHolds, PTL

(* Below a saved token a row says what Exchange says, but for the values   *)
(* the code is known to write over newer ones.                             *)
THEOREM TokenNeverAheadOfContent ==
    Spec => []ContentBehindToken
  <1>1. MirrorInv => ContentBehindToken
    <2> SUFFICES ASSUME MirrorInv, NEW i \in Items, There(i), row[i].there, flagged,
                        Num(i) <= tok[Home[i]]
                 PROVE  /\ row[i].meta = srv[i].meta \/ <<i, "meta">> \in late
                        /\ row[i].read = srv[i].read \/ <<i, "read">> \in late
                        /\ row[i].body \in {0, srv[i].body} \/ <<i, "body">> \in late
      BY DEF ContentBehindToken
    <2> QED
      BY ReportedIsAhead DEF MirrorInv, ItemOK, Meta, Body, Read
  <1> QED
    BY <1>1, MirrorInvHolds, PTL

(* _sync_hierarchy cleans up after every folder that went, unless a fault  *)
(* cut the clean-up short: no other row outlives its folder.               *)
THEOREM NoOrphanWithoutFault ==
    Spec => []OrphansOnlyByFault
  <1>1. MirrorInv => OrphansOnlyByFault
    BY DEF MirrorInv
  <1> QED
    BY <1>1, MirrorInvHolds, PTL

=============================================================================
