---------------------------- MODULE AccessProofs ----------------------------
(***************************************************************************)
(* The front of the daemon, for every number of pool threads, sessions,    *)
(* outages, links and mishaps: the read tools over the mirror, ewsd and    *)
(* Exchange; the sessions and the folder cache of the connection manager;  *)
(* the upload and download links.                                          *)
(***************************************************************************)
EXTENDS Reads, Connection, Links, FiniteSetTheorems, TLAPS

-----------------------------------------------------------------------------
(* Reads.                                                                  *)

\* What the history of a read says is at least what is so now.
Lived ==
    /\ ~up.db => hist.dbDown
    /\ up.db => hist.dbUp
    /\ ~up.ewsd => hist.ewsdDown
    /\ copy.row = "none" => hist.noRow
    /\ ~copy.server => hist.unserved
    /\ ~copy.server /\ copy.row \notin OnDisk => hist.gone
    /\ read.tool = "get_thread" /\ copy.row # "none" /\ copy.conv = "null" => hist.untied
    /\ read.tool = "get_attachment" /\ copy.row \in OnDisk /\ copy.inv # "stored" => hist.bare
    /\ read.tool \in FromFiles /\ copy.row \in OnDisk /\ ~copy.disk => hist.lost

LivedOK == InFlight => Lived

\* Which tools get to which step.
RouteOK ==
    /\ read.fresh => read.tool \in Cached
    /\ read.at \in {"resolve", "mirror"} => read.tool \in Local
    /\ read.at = "probe" => read.tool \in Cached
    /\ read.at = "thread" => read.tool = "get_thread"
    /\ read.at \in {"mirror", "probe", "ewsd_mirror"} => ~read.fresh
    /\ read.at \in {"forward", "gate", "ewsd_resolve", "ewsd_mirror", "ewsd_files", "exchange"}
         => read.tool \notin Store
    /\ read.at = "ewsd_files" => read.tool \in FromFiles

\* What a read has learned on its way, and what it went past.
Behind == {"probe", "forward", "gate", "ewsd_resolve", "ewsd_mirror", "ewsd_files", "exchange"}

KnownOK ==
    /\ read.at \in {"mirror", "probe", "ewsd_mirror", "exchange"} =>
          read.known \/ hist.dbDown
    /\ read.dbError => hist.dbDown
    /\ read.at \in Behind \ {"probe"} /\ read.tool \in Cached /\ ~read.fresh
         => read.dbError \/ hist.dbUp
    /\ read.at \in Behind /\ read.tool = "get_message" /\ ~read.fresh
         => hist.dbDown \/ hist.noRow

\* Past the archive lookup a copy on the server can only be captured.
ServerOK ==
    read.at = "exchange" /\ read.tool \in {"get_attachment", "get_raw_message"} =>
        \/ hist.dbDown \/ hist.pulled \/ hist.gone
        \/ read.tool = "get_attachment" /\ hist.noRow
        \/ copy.row \in {"live", "captured"} /\ copy.server

\* Between a tool's two lookups the row stays what the first one saw, or
\* the history says why not.
LookupOK ==
    /\ read.at = "thread" =>
          read.seed # "null" /\ (hist.noRow \/ hist.untied \/ copy.conv = read.seed)
    /\ read.at = "ewsd_files" => hist.reset \/ copy.row \in OnDisk

(* What every step of a read and of its surroundings keeps.                *)
ReadInv == /\ ReadsTypeOK /\ LivedOK /\ RouteOK /\ KnownOK /\ ServerOK /\ LookupOK
           /\ NoFalseMiss /\ BlameIsRight /\ MirrorServesAlone

(* The history of a read: what was so at some moment of it.                *)
ReadHistory == [dbDown : BOOLEAN, dbUp : BOOLEAN, ewsdDown : BOOLEAN,
                noRow : BOOLEAN, gone : BOOLEAN, unserved : BOOLEAN, bare : BOOLEAN,
                lost : BOOLEAN, untied : BOOLEAN, reset : BOOLEAN, pulled : BOOLEAN]
CopyType == [row : Rows, conv : Convs, server : BOOLEAN,
             inv : {"none", "pending", "stored"}, disk : BOOLEAN, lane : BOOLEAN]

(* A history only ever learns.                                             *)
Grows(h, g) ==
    /\ h.dbDown => g.dbDown
    /\ h.dbUp => g.dbUp
    /\ h.ewsdDown => g.ewsdDown
    /\ h.noRow => g.noRow
    /\ h.gone => g.gone
    /\ h.unserved => g.unserved
    /\ h.bare => g.bare
    /\ h.lost => g.lost
    /\ h.untied => g.untied
    /\ h.reset => g.reset
    /\ h.pulled => g.pulled

(* Looking at the world adds to the history and takes nothing away.        *)
LEMMA WitnessType ==
    ASSUME NEW h \in ReadHistory, NEW t, NEW u, NEW c, NEW deeds
    PROVE  /\ Witness(h, t, u, c, deeds) \in ReadHistory
           /\ Grows(h, Witness(h, t, u, c, deeds))
  BY DEF Witness, ReadHistory, Grows

(* A history that has just looked knows at least what is so.               *)
LEMMA WitnessLived ==
    ASSUME NEW h \in ReadHistory, NEW deeds, hist' = Witness(h, read'.tool, up', copy', deeds)
    PROVE  Lived'
  BY DEF Witness, Lived, Untied

(* A step of the surroundings keeps a read's history true and growing, and *)
(* disturbs no more than what lies between two lookups.                    *)
LEMMA MeanwhileKeeps ==
    ASSUME ReadInv, NEW deeds, See(deeds), read' = read,
           up' \in [db : BOOLEAN, ewsd : BOOLEAN, exchange : BOOLEAN, warm : BOOLEAN],
           copy' \in CopyType, spent' \in [outages : 0..MaxOutages, moves : 0..MaxMoves],
           /\ hist' \in ReadHistory /\ Grows(hist, hist') /\ LivedOK'
           => ServerOK' /\ LookupOK'
    PROVE  ReadInv'
  <1>1. hist \in ReadHistory /\ read'.tool = read.tool /\ (InFlight' <=> InFlight)
    BY DEF ReadInv, ReadsTypeOK, ReadHistory, InFlight
  <1>2. hist' \in ReadHistory /\ Grows(hist, hist') /\ LivedOK'
    <2>1. CASE InFlight
      <3>1. hist' = Witness(hist, read'.tool, up', copy', deeds)
        BY <1>1, <2>1 DEF See
      <3> QED
        BY <1>1, <3>1, WitnessType, WitnessLived DEF LivedOK
    <2>2. CASE ~InFlight
      <3>1. hist' = hist
        BY <2>2 DEF See
      <3> QED
        BY <1>1, <2>2, <3>1 DEF LivedOK, Grows
    <2> QED
      BY <2>1, <2>2
  <1>3. ServerOK' /\ LookupOK'
    BY <1>2
  <1>4. ReadsTypeOK'
    BY <1>2 DEF ReadInv, ReadsTypeOK, ReadHistory, CopyType
  <1>5. RouteOK' /\ KnownOK'
    BY <1>2 DEF ReadInv, RouteOK, KnownOK, Grows, Behind
  <1>6. NoFalseMiss'
    BY <1>2 DEF ReadInv, NoFalseMiss, MayMiss, Grows, Answered
  <1>7. BlameIsRight'
    BY <1>2 DEF ReadInv, BlameIsRight, Grows, Answered
  <1>8. MirrorServesAlone'
    BY <1>2 DEF ReadInv, MirrorServesAlone, Grows
  <1> QED
    BY <1>2, <1>3, <1>4, <1>5, <1>6, <1>7, <1>8 DEF ReadInv

(* Postgres, ewsd or Exchange goes down or comes back.                     *)
LEMMA FlipKeeps ==
    ASSUME ReadInv, NEW k \in {"db", "ewsd", "exchange"}, Flip(k)
    PROVE  ReadInv'
  <1>1. up' \in [db : BOOLEAN, ewsd : BOOLEAN, exchange : BOOLEAN, warm : BOOLEAN]
    <2> DEFINE U == [db : BOOLEAN, ewsd : BOOLEAN, exchange : BOOLEAN, warm : BOOLEAN]
               u == [up EXCEPT ![k] = ~@]
    <2>1. up \in U
      BY DEF ReadInv, ReadsTypeOK
    <2>2. u \in U
      BY <2>1
    <2>3. up' = [u EXCEPT !.warm = up.warm /\ (k = "ewsd" => ~up.ewsd)]
      BY <2>1 DEF Flip
    <2> HIDE DEF u
    <2>4. [u EXCEPT !.warm = up.warm /\ (k = "ewsd" => ~up.ewsd)] \in U
      BY <2>1, <2>2
    <2> QED
      BY <2>3, <2>4
  <1>2. spent' \in [outages : 0..MaxOutages, moves : 0..MaxMoves]
    <2>1. spent \in [outages : 0..MaxOutages, moves : 0..MaxMoves]
      BY DEF ReadInv, ReadsTypeOK
    <2>2. CASE ~up[k]
      BY <2>1, <2>2 DEF Flip
    <2>3. CASE up[k]
      <3>1. spent' = [spent EXCEPT !.outages = @ + 1] /\ spent.outages < MaxOutages
        BY <2>3 DEF Flip
      <3>2. spent.outages + 1 \in 0..MaxOutages
        BY <2>1, <3>1, ReadsAssumption
      <3> QED
        BY <2>1, <3>1, <3>2
    <2> QED
      BY <2>2, <2>3
  <1>3. /\ copy' \in CopyType /\ copy'.row = copy.row /\ copy'.server = copy.server
        /\ copy'.conv = copy.conv
    BY DEF Flip, ReadInv, ReadsTypeOK, CopyType
  <1>4. read' = read /\ See({})
    BY DEF Flip
  <1>5. Grows(hist, hist') => ServerOK' /\ LookupOK'
    BY <1>3, <1>4 DEF ReadInv, ServerOK, LookupOK, Grows
  <1> QED
    BY <1>1, <1>2, <1>3, <1>4, <1>5, MeanwhileKeeps

(* A step of the message's own life, given that a captured copy stays      *)
(* servable and a looked-up row stays what it was.                         *)
LEMMA LiveKeeps ==
    ASSUME ReadInv, NEW c \in CopyType, NEW deeds, Live(c, deeds),
           /\ copy' = c /\ read' = read
           /\ hist' \in ReadHistory /\ Grows(hist, hist') /\ LivedOK'
           => ServerOK' /\ LookupOK'
    PROVE  ReadInv'
  <1>1. See(deeds) /\ copy' = c /\ read' = read /\ up' = up
    BY DEF Live
  <1>2. spent' \in [outages : 0..MaxOutages, moves : 0..MaxMoves]
    BY ReadsAssumption DEF Live, ReadInv, ReadsTypeOK
  <1>3. up' \in [db : BOOLEAN, ewsd : BOOLEAN, exchange : BOOLEAN, warm : BOOLEAN]
    BY <1>1 DEF ReadInv, ReadsTypeOK
  <1> QED
    BY <1>1, <1>2, <1>3, MeanwhileKeeps

(* The sync engine, the archive and the owner move the message along.      *)
LEMMA LifeKeeps ==
    ASSUME ReadInv,
           \/ Sync \/ Resync \/ Capture \/ Reset \/ Demote \/ FilesGo
           \/ GraceEnds \/ Archive \/ OwnerDeletes \/ SyncDelete
    PROVE  ReadInv'
  <1> USE DEF Rows, OnDisk, Convs, CopyType
  <1>0. copy \in CopyType /\ hist \in ReadHistory
    BY DEF ReadInv, ReadsTypeOK, ReadHistory
  <1>i. /\ read.at = "exchange" /\ read.tool \in FromFiles =>
            \/ hist.dbDown \/ hist.pulled \/ hist.gone
            \/ read.tool = "get_attachment" /\ hist.noRow
            \/ copy.row \in {"live", "captured"} /\ copy.server
        /\ read.at = "thread" =>
            read.seed # "null" /\ (hist.noRow \/ hist.untied \/ copy.conv = read.seed)
        /\ read.at = "ewsd_files" => hist.reset \/ copy.row \in OnDisk
        /\ read.at = "thread" /\ copy.row = "none" => hist.noRow
        /\ read.at = "thread" => read.tool = "get_thread"
        /\ read.at = "ewsd_files" => read.tool \in FromFiles
    BY DEF ReadInv, ServerOK, LookupOK, RouteOK, LivedOK, Lived, InFlight, FromFiles
  <1>r. (read' = read /\ /\ read.at = "exchange" /\ read.tool \in FromFiles =>
                            \/ hist'.dbDown \/ hist'.pulled \/ hist'.gone
                            \/ read.tool = "get_attachment" /\ hist'.noRow
                            \/ copy'.row \in {"live", "captured"} /\ copy'.server
                         /\ read.at = "thread" =>
                            hist'.noRow \/ hist'.untied \/ copy'.conv = read.seed
                         /\ read.at = "ewsd_files" => hist'.reset \/ copy'.row \in OnDisk)
        => ServerOK' /\ LookupOK'
    BY <1>i DEF ServerOK, LookupOK, FromFiles
  <1>w. ASSUME NEW c, NEW deeds, Live(c, deeds), InFlight
        PROVE  /\ read.tool = "get_thread" /\ "retied" \in deeds => hist'.untied
               /\ read.tool \in FromFiles /\ "reset" \in deeds => hist'.reset
               /\ "pulled" \in deeds => hist'.pulled
               /\ c.row = "none" => hist'.noRow
    BY <1>w DEF Live, See, Witness, Untied
  <1>f. read.at \in {"exchange", "thread", "ewsd_files"} => InFlight
    BY DEF InFlight
  <1>1. CASE Sync
    <2>0. PICK v \in {"null", "a"} : Live([copy EXCEPT !.row = "live", !.conv = v], {})
      BY <1>1 DEF Sync
    <2> DEFINE c == [copy EXCEPT !.row = "live", !.conv = v]
    <2>1. c \in CopyType /\ Live(c, {})
      BY <1>0, <1>1, <2>0 DEF Sync
    <2>2. ASSUME copy' = c, read' = read, Grows(hist, hist') PROVE ServerOK' /\ LookupOK'
      BY <1>0, <1>1, <1>i, <1>r, <1>w, <1>f, <2>1, <2>2 DEF Sync, Grows
    <2> QED BY <2>1, <2>2, LiveKeeps
  <1>2. CASE Resync
    <2>0. PICK v \in Convs : Live([copy EXCEPT !.conv = v], {"retied"})
      BY <1>2 DEF Resync
    <2> DEFINE c == [copy EXCEPT !.conv = v]
    <2>1. c \in CopyType /\ Live(c, {"retied"})
      BY <1>0, <1>2, <2>0 DEF Resync
    <2>2. ASSUME copy' = c, read' = read, Grows(hist, hist') PROVE ServerOK' /\ LookupOK'
      BY <1>0, <1>2, <1>i, <1>r, <1>w, <1>f, <2>1, <2>2 DEF Resync, Grows
    <2> QED BY <2>1, <2>2, LiveKeeps
  <1>3. CASE Capture
    <2> DEFINE c == [copy EXCEPT !.row = "captured", !.inv = "pending", !.disk = TRUE]
    <2>1. c \in CopyType /\ Live(c, {})
      BY <1>0, <1>3 DEF Capture
    <2>2. ASSUME copy' = c, read' = read, Grows(hist, hist') PROVE ServerOK' /\ LookupOK'
      BY <1>0, <1>3, <1>i, <1>r, <1>w, <1>f, <2>1, <2>2 DEF Capture, Grows
    <2> QED BY <2>1, <2>2, LiveKeeps
  <1>4. CASE Reset
    <2> DEFINE c == [copy EXCEPT !.row = "live", !.inv = "none"]
    <2>1. c \in CopyType /\ Live(c, {"reset"})
      BY <1>0, <1>4 DEF Reset
    <2>2. ASSUME copy' = c, read' = read, Grows(hist, hist') PROVE ServerOK' /\ LookupOK'
      BY <1>0, <1>4, <1>i, <1>r, <1>w, <1>f, <2>1, <2>2 DEF Reset, Grows
    <2> QED BY <2>1, <2>2, LiveKeeps
  <1>5. CASE Demote
    <2> DEFINE c == [copy EXCEPT !.row = "captured"]
    <2>1. c \in CopyType /\ Live(c, {})
      BY <1>0, <1>5 DEF Demote
    <2>2. ASSUME copy' = c, read' = read, Grows(hist, hist') PROVE ServerOK' /\ LookupOK'
      BY <1>0, <1>5, <1>i, <1>r, <1>w, <1>f, <2>1, <2>2 DEF Demote, Grows
    <2> QED BY <2>1, <2>2, LiveKeeps
  <1>6. CASE FilesGo
    <2> DEFINE c == [copy EXCEPT !.disk = FALSE]
    <2>1. c \in CopyType /\ Live(c, {})
      BY <1>0, <1>6 DEF FilesGo
    <2>2. ASSUME copy' = c, read' = read, Grows(hist, hist') PROVE ServerOK' /\ LookupOK'
      BY <1>0, <1>6, <1>i, <1>r, <1>w, <1>f, <2>1, <2>2 DEF FilesGo, Grows
    <2> QED BY <2>1, <2>2, LiveKeeps
  <1>7. CASE GraceEnds
    <2> DEFINE c == [copy EXCEPT !.row = "deletable"]
    <2>1. c \in CopyType /\ Live(c, {})
      BY <1>0, <1>7 DEF GraceEnds
    <2>2. ASSUME copy' = c, read' = read, Grows(hist, hist') PROVE ServerOK' /\ LookupOK'
      BY <1>0, <1>7, <1>i, <1>r, <1>w, <1>f, <2>1, <2>2 DEF GraceEnds, Grows
    <2> QED BY <2>1, <2>2, LiveKeeps
  <1>8. CASE Archive
    <2> DEFINE c == [copy EXCEPT !.row = IF up.db THEN "deleted" ELSE @, !.server = FALSE]
    <2>1. c \in CopyType /\ Live(c, {})
      BY <1>0, <1>8 DEF Archive
    <2>2. ASSUME copy' = c, read' = read, Grows(hist, hist') PROVE ServerOK' /\ LookupOK'
      BY <1>0, <1>8, <1>i, <1>r, <1>w, <1>f, <2>1, <2>2 DEF Archive, Grows
    <2> QED BY <2>1, <2>2, LiveKeeps
  <1>9. CASE OwnerDeletes
    <2> DEFINE c == [copy EXCEPT !.server = FALSE]
    <2>1. c \in CopyType /\ Live(c, {"pulled"})
      BY <1>0, <1>9 DEF OwnerDeletes
    <2>2. ASSUME copy' = c, read' = read, Grows(hist, hist') PROVE ServerOK' /\ LookupOK'
      BY <1>0, <1>9, <1>i, <1>r, <1>w, <1>f, <2>1, <2>2 DEF OwnerDeletes, Grows
    <2> QED BY <2>1, <2>2, LiveKeeps
  <1>10. CASE SyncDelete
    <2> DEFINE c == IF copy.row = "live"
                    THEN [copy EXCEPT !.row = "none", !.conv = "null", !.inv = "none"]
                    ELSE [copy EXCEPT !.row = "deleted"]
    <2>1. c \in CopyType /\ Live(c, {})
      BY <1>0, <1>10 DEF SyncDelete
    <2>2. ASSUME copy' = c, read' = read, Grows(hist, hist') PROVE ServerOK' /\ LookupOK'
      BY <1>0, <1>10, <1>i, <1>r, <1>w, <1>f, <2>1, <2>2 DEF SyncDelete, Grows
    <2> QED BY <2>1, <2>2, LiveKeeps
  <1> QED
    BY <1>1, <1>2, <1>3, <1>4, <1>5, <1>6, <1>7, <1>8, <1>9, <1>10

(* The manager warms up, a lane is synced, the inventory is stored.        *)
LEMMA OtherKeeps ==
    ASSUME ReadInv, Warm \/ LaneSynced \/ Inventory
    PROVE  ReadInv'
  <1>0. /\ up \in [db : BOOLEAN, ewsd : BOOLEAN, exchange : BOOLEAN, warm : BOOLEAN]
        /\ spent \in [outages : 0..MaxOutages, moves : 0..MaxMoves]
        /\ copy \in CopyType
    BY DEF ReadInv, ReadsTypeOK, CopyType
  <1>1. CASE Warm
    <2>1. /\ up' \in [db : BOOLEAN, ewsd : BOOLEAN, exchange : BOOLEAN, warm : BOOLEAN]
          /\ up'.db = up.db /\ up'.ewsd = up.ewsd /\ UNCHANGED <<read, copy, spent, hist>>
      BY <1>0, <1>1 DEF Warm
    <2>2. ReadsTypeOK' /\ LivedOK' /\ ServerOK' /\ LookupOK' /\ RouteOK' /\ KnownOK'
      BY <2>1 DEF ReadInv, ReadsTypeOK, LivedOK, Lived, InFlight, ServerOK, LookupOK, RouteOK, KnownOK
    <2>3. NoFalseMiss' /\ BlameIsRight' /\ MirrorServesAlone'
      BY <2>1 DEF ReadInv, NoFalseMiss, MayMiss, BlameIsRight, MirrorServesAlone, Answered
    <2> QED BY <2>2, <2>3 DEF ReadInv
  <1>2. CASE LaneSynced \/ Inventory
    <2>1. copy' \in CopyType /\ copy'.row = copy.row /\ copy'.server = copy.server
          /\ copy'.conv = copy.conv
      BY <1>0, <1>2 DEF LaneSynced, Inventory, CopyType
    <2>2. UNCHANGED <<read, up, spent>> /\ See({})
      BY <1>2 DEF LaneSynced, Inventory
    <2>3. Grows(hist, hist') => ServerOK' /\ LookupOK'
      BY <2>1, <2>2 DEF ReadInv, ServerOK, LookupOK, Grows
    <2> QED BY <1>0, <2>1, <2>2, <2>3, MeanwhileKeeps
  <1> QED
    BY <1>1, <1>2

(* A new read starts with an empty history.                                *)
LEMMA AskKeeps ==
    ASSUME ReadInv, NEW t \in Tools, NEW fresh \in BOOLEAN, Ask(t, fresh)
    PROVE  ReadInv'
  <1>1. Blank \in ReadHistory
    BY DEF Blank, ReadHistory
  <1>2. /\ hist' = Witness(Blank, read'.tool, up', copy', {}) /\ UNCHANGED <<up, copy, spent>>
        /\ read'.tool = t
    BY DEF Ask, NoRead
  <1>3. hist' \in ReadHistory /\ LivedOK'
    BY <1>1, <1>2, WitnessType, WitnessLived DEF LivedOK
  <1>4. /\ read' \in [tool : Tools, fresh : BOOLEAN, at : Steps, known : BOOLEAN,
                     seed : Convs, dbError : BOOLEAN, code : Codes]
        /\ read'.tool = t /\ read'.fresh = fresh /\ read'.known = FALSE
        /\ read'.dbError = FALSE
        /\ read'.at = IF t \in Local THEN "resolve" ELSE "forward"
    BY DEF Ask, NoRead, Steps, Codes, Convs
  <1>5. ReadsTypeOK'
    BY <1>2, <1>3, <1>4 DEF ReadInv, ReadsTypeOK, ReadHistory
  <1>6. RouteOK'
    BY <1>4 DEF Ask, RouteOK, Local
  <1>7. KnownOK' /\ ServerOK' /\ LookupOK'
    BY <1>4 DEF KnownOK, Behind, Local, Cached, ServerOK, LookupOK
  <1>8. NoFalseMiss' /\ BlameIsRight' /\ MirrorServesAlone'
    BY <1>4 DEF NoFalseMiss, BlameIsRight, MirrorServesAlone, Answered
  <1> QED
    BY <1>3, <1>5, <1>6, <1>7, <1>8 DEF ReadInv

(* The answer is handed over.                                              *)
LEMMA DeliverKeeps == ASSUME ReadInv, Deliver PROVE ReadInv'
  <1>1. read' = NoRead /\ hist' = Blank /\ UNCHANGED <<up, copy, spent>>
    BY DEF Deliver
  <1>2. ReadsTypeOK'
    BY <1>1 DEF ReadInv, ReadsTypeOK, NoRead, Blank, Steps, Codes, Convs, Tools, Local, Cached
  <1>3. LivedOK' /\ RouteOK' /\ KnownOK' /\ ServerOK' /\ LookupOK'
    BY <1>1 DEF NoRead, LivedOK, InFlight, RouteOK, KnownOK, ServerOK, LookupOK, Behind
  <1>4. NoFalseMiss' /\ BlameIsRight' /\ MirrorServesAlone'
    BY <1>1 DEF NoRead, NoFalseMiss, BlameIsRight, MirrorServesAlone, Answered
  <1> QED
    BY <1>2, <1>3, <1>4 DEF ReadInv

(* The request and what it knows.                                          *)
ReadType == [tool : Tools, fresh : BOOLEAN, at : Steps, known : BOOLEAN,
             seed : Convs, dbError : BOOLEAN, code : Codes]

(* A read that goes on to another step changes nothing but itself.         *)
LEMMA GoesOn ==
    ASSUME ReadInv, InFlight, NEW at \in Steps \ {"done"}, NEW known \in BOOLEAN,
           NEW dbError \in BOOLEAN,
           Step([read EXCEPT !.at = at, !.known = known, !.dbError = dbError])
    PROVE  /\ UNCHANGED <<up, copy, spent, hist>>
           /\ read'.at = at /\ read'.known = known /\ read'.dbError = dbError
           /\ read'.tool = read.tool /\ read'.fresh = read.fresh
           /\ RouteOK' /\ KnownOK' /\ ServerOK' /\ LookupOK' => ReadInv'
  <1>1. read \in ReadType
    BY DEF ReadInv, ReadsTypeOK, ReadType
  <1>2. /\ UNCHANGED <<up, copy, spent, hist>>
        /\ read' = [read EXCEPT !.at = at, !.known = known, !.dbError = dbError]
    BY DEF Step
  <1>3. /\ read'.at = at /\ read'.known = known /\ read'.dbError = dbError
        /\ read'.tool = read.tool /\ read'.fresh = read.fresh
        /\ read' \in ReadType
    BY <1>1, <1>2 DEF ReadType
  <1>4. ReadsTypeOK' /\ LivedOK'
    BY <1>2, <1>3 DEF ReadInv, ReadsTypeOK, LivedOK, Lived, ReadType
  <1>5. NoFalseMiss' /\ BlameIsRight' /\ MirrorServesAlone'
    BY <1>3 DEF NoFalseMiss, BlameIsRight, MirrorServesAlone, Answered
  <1> QED
    BY <1>2, <1>3, <1>4, <1>5 DEF ReadInv

(* A read that only moves keeps what it has learned.                       *)
LEMMA Goes ==
    ASSUME ReadInv, NEW at \in Steps \ {"done"}, To(at)
    PROVE  Step([read EXCEPT !.at = at, !.known = read.known, !.dbError = read.dbError])
  <1>1. read \in ReadType
    BY DEF ReadInv, ReadsTypeOK, ReadType
  <1>2. [read EXCEPT !.at = at] = [read EXCEPT !.at = at, !.known = read.known, !.dbError = read.dbError]
    BY <1>1 DEF ReadType
  <1> QED
    BY <1>2 DEF To

(* A read that answers changes nothing but itself.                         *)
LEMMA Answers ==
    ASSUME ReadInv, NEW code \in Codes, Answer(code)
    PROVE  /\ UNCHANGED <<up, copy, spent, hist>>
           /\ read'.at = "done" /\ read'.code = code
           /\ read'.tool = read.tool /\ read'.fresh = read.fresh
           /\ NoFalseMiss' /\ BlameIsRight' /\ MirrorServesAlone' => ReadInv'
  <1>1. read \in ReadType
    BY DEF ReadInv, ReadsTypeOK, ReadType
  <1>2. /\ UNCHANGED <<up, copy, spent, hist>>
        /\ read' = [read EXCEPT !.at = "done", !.code = code]
    BY DEF Answer, Step
  <1>3. /\ read'.at = "done" /\ read'.code = code /\ read'.dbError = read.dbError
        /\ read'.tool = read.tool /\ read'.fresh = read.fresh
        /\ read' \in ReadType
    BY <1>1, <1>2 DEF ReadType, Steps
  <1>4. ReadsTypeOK' /\ LivedOK'
    BY <1>2, <1>3 DEF ReadInv, ReadsTypeOK, LivedOK, InFlight, ReadType
  <1>5. RouteOK' /\ KnownOK' /\ ServerOK' /\ LookupOK'
    BY <1>2, <1>3 DEF ReadInv, RouteOK, KnownOK, ServerOK, LookupOK, Behind
  <1> QED
    BY <1>2, <1>3, <1>4, <1>5 DEF ReadInv

\* What each kind of answer has to show.
LEMMA GoodAnswer ==
    ASSUME ReadInv, NEW code \in {"cache", "archive", "live", "upstream_unavailable", "upstream_error"},
           Answer(code),
           \/ code = "cache" \/ read.tool \notin {"get_message", "get_thread"}
           \/ read.tool = "get_message" /\ read.fresh
           \/ hist.dbDown \/ hist.noRow
    PROVE  ReadInv'
  <1>1. code \in Codes
    BY DEF Codes
  <1>2. NoFalseMiss' /\ BlameIsRight'
    BY <1>1, Answers DEF NoFalseMiss, BlameIsRight, Answered
  <1>3. MirrorServesAlone'
    BY <1>1, Answers DEF MirrorServesAlone
  <1> QED
    BY <1>1, <1>2, <1>3, Answers

(* ewsd does not answer: the read says so, and it is so.                   *)
LEMMA UnreachableKeeps ==
    ASSUME ReadInv, ~up.ewsd, Answer(Unreachable),
           read.at \in {"forward", "gate", "ewsd_resolve", "ewsd_mirror", "ewsd_files", "exchange"}
    PROVE  ReadInv'
  <1>0. /\ read.tool \notin Store /\ hist.ewsdDown
        /\ read.dbError => hist.dbDown
        /\ read.tool \in Cached /\ ~read.fresh => read.dbError \/ hist.dbUp
        /\ read.tool = "get_message" /\ ~read.fresh => hist.dbDown \/ hist.noRow
    BY DEF ReadInv, RouteOK, KnownOK, LivedOK, Lived, InFlight, Behind
  <1>1. CASE read.dbError
    <2>1. Unreachable = "backend_unavailable" /\ Unreachable \in Codes
      BY <1>1 DEF Unreachable, Codes
    <2>2. /\ UNCHANGED hist /\ read'.at = "done" /\ read'.code = Unreachable
          /\ read'.tool = read.tool /\ read'.fresh = read.fresh
      BY <2>1, Answers
    <2>3. NoFalseMiss'
      BY <2>1, <2>2 DEF NoFalseMiss, Answered
    <2>4. BlameIsRight'
      BY <1>0, <1>1, <2>1, <2>2 DEF BlameIsRight, Answered
    <2>5. MirrorServesAlone'
      BY <1>0, <2>2 DEF MirrorServesAlone, Store
    <2> QED
      BY <2>1, <2>3, <2>4, <2>5, Answers
  <1>2. CASE ~read.dbError
    <2>1. Unreachable = "daemon_unavailable" /\ Unreachable \in Codes
      BY <1>2 DEF Unreachable, Codes
    <2>2. /\ UNCHANGED hist /\ read'.at = "done" /\ read'.code = Unreachable
          /\ read'.tool = read.tool /\ read'.fresh = read.fresh
      BY <2>1, Answers
    <2>3. NoFalseMiss'
      BY <2>1, <2>2 DEF NoFalseMiss, Answered
    <2>4. BlameIsRight'
      BY <1>0, <1>2, <2>1, <2>2 DEF BlameIsRight, Answered
    <2>5. MirrorServesAlone'
      BY <1>0, <2>2 DEF MirrorServesAlone, Store
    <2> QED
      BY <2>1, <2>3, <2>4, <2>5, Answers
  <1> QED
    BY <1>1, <1>2

(* Every step of the two processes on the way to an answer.                *)
LEMMA ServeKeeps ==
    ASSUME ReadInv, Serve
    PROVE  ReadInv'
  <1>t. /\ read.known \in BOOLEAN /\ read.dbError \in BOOLEAN /\ read.fresh \in BOOLEAN
        /\ read.tool \in Tools /\ up.db \in BOOLEAN /\ up.ewsd \in BOOLEAN
        /\ copy.row \in Rows /\ copy.server \in BOOLEAN /\ copy.disk \in BOOLEAN
    BY DEF ReadInv, ReadsTypeOK
  <1>i. InFlight
    BY DEF Serve, Resolve, TryMirror, Probe, SearchMessages, WaitingOn, StoreOnly, GetThread,
           ThreadRows, Forward, CallLost, ColdGate, EwsdResolve, GetMessage, ListFolders,
           MailboxOverview, ListTasks, MirrorThenLive, GetAttachment, AttachmentFromArchive,
           GetRawMessage, RawFromArchive, Exchange, InFlight
  <1>l. Lived /\ RouteOK /\ KnownOK /\ ServerOK /\ LookupOK
    BY <1>i DEF ReadInv, LivedOK
  <1> DEFINE Go(at, known, dbError) ==
               Step([read EXCEPT !.at = at, !.known = known, !.dbError = dbError])
  <1>s. read \in ReadType
    BY DEF ReadInv, ReadsTypeOK, ReadType
  <1> USE DEF Steps, Local, Cached, Store, Listings, OfMessage
  <1>1. CASE Resolve
    <2> DEFINE at == IF read.fresh THEN "forward" ELSE "mirror"
               known == up.db \/ read.tool \notin OfMessage
    <2>1. Go(at, known, read.dbError)
      BY <1>1, <1>s DEF Resolve, ReadType, Step
    <2>2. at \in Steps \ {"done"} /\ known \in BOOLEAN
      BY <1>t
    <2>3. read.at = "resolve"
      BY <1>1 DEF Resolve
    <2>4. RouteOK' /\ KnownOK' /\ ServerOK' /\ LookupOK'
      <3>1. /\ read'.at = at /\ read'.known = (known) /\ read'.dbError = (read.dbError)
            /\ read'.tool = read.tool /\ read'.fresh = read.fresh
            /\ UNCHANGED <<up, copy, spent, hist>>
        BY <1>t, <1>i, <2>1, <2>2, GoesOn
      <3>2. RouteOK'
        BY <1>t, <1>i, <1>l, <2>1, <2>2, <2>3, <3>1 DEF RouteOK
      <3>3. KnownOK'
        BY <1>t, <1>i, <1>l, <2>1, <2>2, <2>3, <3>1 DEF RouteOK, KnownOK, Behind, Lived
      <3>4. ServerOK' /\ LookupOK'
        BY <1>t, <1>i, <1>l, <2>1, <2>2, <2>3, <3>1 DEF RouteOK, ServerOK, LookupOK
      <3> QED
        BY <3>2, <3>3, <3>4
    <2> QED
      BY <1>t, <1>i, <2>1, <2>2, <2>4, GoesOn
  <1>2. CASE TryMirror
    <2>1. read.at = "mirror" /\ read.tool \in Cached
      BY <1>2 DEF TryMirror
    <2>2. CASE Hit
      BY <1>2, <2>2, GoodAnswer DEF TryMirror
    <2>3. CASE ~Hit
      <3>1. To("probe")
        BY <1>2, <2>3 DEF TryMirror
      <3>2. Go("probe", read.known, read.dbError)
        BY <3>1, Goes
      <3>3. read.tool = "get_message" => hist.dbDown \/ hist.noRow
        BY <1>t, <1>i, <1>l, <2>1, <2>3 DEF Hit, RowHit, Lived, KnownOK
      <3>4. RouteOK' /\ KnownOK' /\ ServerOK' /\ LookupOK'
        <4>1. /\ read'.at = "probe" /\ read'.known = (read.known) /\ read'.dbError = (read.dbError)
              /\ read'.tool = read.tool /\ read'.fresh = read.fresh
              /\ UNCHANGED <<up, copy, spent, hist>>
          BY <1>t, <1>i, <3>2, GoesOn
        <4>2. RouteOK'
          BY <1>t, <1>i, <1>l, <2>1, <3>2, <3>3, <4>1 DEF RouteOK
        <4>3. KnownOK'
          BY <1>t, <1>i, <1>l, <2>1, <3>2, <3>3, <4>1 DEF RouteOK, KnownOK, Behind
        <4>4. ServerOK' /\ LookupOK'
          BY <1>t, <1>i, <1>l, <2>1, <3>2, <3>3, <4>1 DEF RouteOK, ServerOK, LookupOK
        <4> QED
          BY <4>2, <4>3, <4>4
      <3> QED
        BY <1>t, <1>i, <3>2, <3>4, GoesOn
    <2> QED
      BY <2>2, <2>3
  <1>3. CASE Probe
    <2>1. Go("forward", read.known, ~up.db)
      BY <1>3, <1>s DEF Probe, ReadType, Step
    <2>2. read.at = "probe"
      BY <1>3 DEF Probe
    <2>3. RouteOK' /\ KnownOK' /\ ServerOK' /\ LookupOK'
      <3>1. /\ read'.at = "forward" /\ read'.known = (read.known) /\ read'.dbError = (~up.db)
            /\ read'.tool = read.tool /\ read'.fresh = read.fresh
            /\ UNCHANGED <<up, copy, spent, hist>>
        BY <1>t, <1>i, <2>1, <2>2, GoesOn
      <3>2. RouteOK'
        BY <1>t, <1>i, <1>l, <2>1, <2>2, <3>1 DEF RouteOK
      <3>3. KnownOK'
        BY <1>t, <1>i, <1>l, <2>1, <2>2, <3>1 DEF RouteOK, KnownOK, Behind, Lived
      <3>4. ServerOK' /\ LookupOK'
        BY <1>t, <1>i, <1>l, <2>1, <2>2, <3>1 DEF RouteOK, ServerOK, LookupOK
      <3> QED
        BY <3>2, <3>3, <3>4
    <2> QED
      BY <1>t, <1>i, <2>1, <2>3, GoesOn
  <1>4. CASE SearchMessages \/ WaitingOn
    <2>0. PICK t \in Store \ {"get_thread"} : StoreOnly(t)
      BY <1>4 DEF SearchMessages, WaitingOn
    <2>1. read.at = "mirror" /\ read.tool = t
      BY <2>0 DEF StoreOnly
    <2>2. CASE ~up.db
      <3>1. Answer("backend_unavailable") /\ hist.dbDown /\ "backend_unavailable" \in Codes
        BY <1>l, <2>0, <2>2 DEF StoreOnly, Lived, Codes
      <3>2. NoFalseMiss' /\ BlameIsRight' /\ MirrorServesAlone'
        BY <2>1, <3>1, Answers DEF NoFalseMiss, MayMiss, BlameIsRight, MirrorServesAlone, Answered
      <3> QED
        BY <3>1, <3>2, Answers
    <2>3. CASE up.db
      <3>1. Answer("cache") \/ Answer("upstream_unavailable")
        BY <2>0, <2>3 DEF StoreOnly
      <3> QED
        BY <2>1, <3>1, GoodAnswer
    <2> QED
      BY <2>2, <2>3
  <1>13. CASE GetThread
    <2>1. read.at = "mirror" /\ read.tool = "get_thread"
      BY <1>13 DEF GetThread
    <2>2. CASE ~up.db
      <3>1. Answer("backend_unavailable") /\ hist.dbDown /\ "backend_unavailable" \in Codes
        BY <1>l, <1>13, <2>2 DEF GetThread, Lived, Codes
      <3>2. NoFalseMiss' /\ BlameIsRight' /\ MirrorServesAlone'
        BY <2>1, <3>1, Answers DEF NoFalseMiss, MayMiss, BlameIsRight, MirrorServesAlone, Answered
      <3> QED
        BY <3>1, <3>2, Answers
    <2>3. CASE up.db /\ ~(RowHit /\ copy.conv # "null")
      <3>1. Answer("not_found") /\ "not_found" \in Codes /\ hist.dbUp
        BY <1>l, <1>13, <2>3 DEF GetThread, Lived, Codes
      <3>2. hist.dbDown \/ hist.noRow \/ hist.untied
        BY <1>t, <1>l, <2>1, <2>3 DEF RowHit, Lived, KnownOK
      <3>3. NoFalseMiss' /\ BlameIsRight' /\ MirrorServesAlone'
        BY <2>1, <3>1, <3>2, Answers DEF NoFalseMiss, MayMiss, BlameIsRight, MirrorServesAlone, Answered
      <3> QED
        BY <3>1, <3>3, Answers
    <2>4. CASE up.db /\ RowHit /\ copy.conv # "null"
      <3>1. /\ read' = [read EXCEPT !.at = "thread", !.seed = copy.conv]
            /\ UNCHANGED <<up, copy, spent, hist>>
        BY <1>13, <2>4 DEF GetThread, Step
      <3>2. copy.conv \in Convs
        BY DEF ReadInv, ReadsTypeOK
      <3>3. /\ read' \in ReadType /\ read'.at = "thread" /\ read'.seed = copy.conv
            /\ read'.tool = read.tool /\ read'.fresh = read.fresh
            /\ read'.known = read.known /\ read'.dbError = read.dbError
        BY <1>s, <3>1, <3>2 DEF ReadType
      <3>4. ReadsTypeOK' /\ LivedOK'
        BY <1>l, <3>1, <3>3 DEF ReadInv, ReadsTypeOK, ReadType, LivedOK, Lived
      <3>5. RouteOK' /\ KnownOK' /\ ServerOK' /\ LookupOK'
        BY <1>l, <2>1, <2>4, <3>1, <3>3 DEF RouteOK, KnownOK, ServerOK, LookupOK, Behind
      <3>6. NoFalseMiss' /\ BlameIsRight' /\ MirrorServesAlone'
        BY <3>3 DEF NoFalseMiss, BlameIsRight, MirrorServesAlone, Answered
      <3> QED
        BY <3>4, <3>5, <3>6 DEF ReadInv
    <2> QED
      BY <2>2, <2>3, <2>4
  <1>14. CASE ThreadRows
    <2>1. read.at = "thread" /\ read.tool = "get_thread"
      BY <1>14, <1>l DEF ThreadRows, RouteOK
    <2>2. CASE ~up.db
      <3>1. Answer("backend_unavailable") /\ hist.dbDown /\ "backend_unavailable" \in Codes
        BY <1>l, <1>14, <2>2 DEF ThreadRows, Lived, Codes
      <3>2. NoFalseMiss' /\ BlameIsRight' /\ MirrorServesAlone'
        BY <2>1, <3>1, Answers DEF NoFalseMiss, MayMiss, BlameIsRight, MirrorServesAlone, Answered
      <3> QED
        BY <3>1, <3>2, Answers
    <2>3. CASE up.db /\ copy.row # "none" /\ copy.conv = read.seed
      <3>1. Answer("cache")
        BY <1>14, <2>3 DEF ThreadRows
      <3> QED
        BY <3>1, GoodAnswer
    <2>4. CASE up.db /\ ~(copy.row # "none" /\ copy.conv = read.seed)
      <3>1. Answer("not_found") /\ "not_found" \in Codes /\ hist.dbUp
        BY <1>l, <1>14, <2>4 DEF ThreadRows, Lived, Codes
      <3>2. hist.noRow \/ hist.untied
        BY <1>l, <2>1, <2>4 DEF Lived, LookupOK
      <3>3. NoFalseMiss' /\ BlameIsRight' /\ MirrorServesAlone'
        BY <2>1, <3>1, <3>2, Answers DEF NoFalseMiss, MayMiss, BlameIsRight, MirrorServesAlone, Answered
      <3> QED
        BY <3>1, <3>3, Answers
    <2> QED
      BY <2>2, <2>3, <2>4
  <1>5. CASE Forward
    <2>1. CASE up.ewsd
      <3>1. Go("gate", read.known, read.dbError) /\ read.at = "forward"
        BY <1>5, <2>1, Goes DEF Forward
      <3>2. RouteOK' /\ KnownOK' /\ ServerOK' /\ LookupOK'
        <4>1. /\ read'.at = "gate" /\ read'.known = (read.known) /\ read'.dbError = (read.dbError)
              /\ read'.tool = read.tool /\ read'.fresh = read.fresh
              /\ UNCHANGED <<up, copy, spent, hist>>
          BY <1>t, <1>i, <3>1, GoesOn
        <4>2. RouteOK'
          BY <1>t, <1>i, <1>l, <3>1, <4>1 DEF RouteOK
        <4>3. KnownOK'
          BY <1>t, <1>i, <1>l, <3>1, <4>1 DEF RouteOK, KnownOK, Behind
        <4>4. ServerOK' /\ LookupOK'
          BY <1>t, <1>i, <1>l, <3>1, <4>1 DEF RouteOK, ServerOK, LookupOK
        <4> QED
          BY <4>2, <4>3, <4>4
      <3> QED
        BY <1>t, <1>i, <3>1, <3>2, GoesOn
    <2>2. CASE ~up.ewsd
      BY <1>5, <2>2, UnreachableKeeps DEF Forward
    <2> QED
      BY <2>1, <2>2
  <1>6. CASE CallLost
    BY <1>6, UnreachableKeeps DEF CallLost
  <1>7. CASE ColdGate
    <2>1. read.at = "gate"
      BY <1>7 DEF ColdGate
    <2>2. CASE read.tool \in NeedsEws /\ ~up.warm
      <3>1. Answer("upstream_unavailable")
        BY <1>7, <2>2 DEF ColdGate
      <3>2. read.tool = "get_message" /\ ~read.fresh => hist.dbDown \/ hist.noRow
        BY <1>l, <2>1 DEF KnownOK, Behind
      <3>3. read.tool # "get_thread"
        BY <1>l, <2>1 DEF RouteOK
      <3> QED
        BY <3>1, <3>2, <3>3, GoodAnswer
    <2>3. CASE ~(read.tool \in NeedsEws /\ ~up.warm)
      <3>1. Go("ewsd_resolve", read.known, read.dbError)
        BY <1>7, <2>3, Goes DEF ColdGate
      <3>2. RouteOK' /\ KnownOK' /\ ServerOK' /\ LookupOK'
        <4>1. /\ read'.at = "ewsd_resolve" /\ read'.known = (read.known) /\ read'.dbError = (read.dbError)
              /\ read'.tool = read.tool /\ read'.fresh = read.fresh
              /\ UNCHANGED <<up, copy, spent, hist>>
          BY <1>t, <1>i, <3>1, GoesOn
        <4>2. RouteOK'
          BY <1>t, <1>i, <1>l, <2>1, <3>1, <4>1 DEF RouteOK
        <4>3. KnownOK'
          BY <1>t, <1>i, <1>l, <2>1, <3>1, <4>1 DEF RouteOK, KnownOK, Behind
        <4>4. ServerOK' /\ LookupOK'
          BY <1>t, <1>i, <1>l, <2>1, <3>1, <4>1 DEF RouteOK, ServerOK, LookupOK
        <4> QED
          BY <4>2, <4>3, <4>4
      <3> QED
        BY <1>t, <1>i, <3>1, <3>2, GoesOn
    <2> QED
      BY <2>2, <2>3
  <1>8. CASE EwsdResolve
    <2> DEFINE at == IF read.fresh THEN "exchange" ELSE "ewsd_mirror"
               known == read.known \/ up.db
    <2>1. Go(at, known, read.dbError)
      BY <1>8, <1>s DEF EwsdResolve, ReadType, Step
    <2>2. at \in Steps \ {"done"} /\ known \in BOOLEAN
      BY <1>t
    <2>3. read.at = "ewsd_resolve"
      BY <1>8 DEF EwsdResolve
    <2>4. RouteOK' /\ KnownOK' /\ ServerOK' /\ LookupOK'
      <3>1. /\ read'.at = at /\ read'.known = (known) /\ read'.dbError = (read.dbError)
            /\ read'.tool = read.tool /\ read'.fresh = read.fresh
            /\ UNCHANGED <<up, copy, spent, hist>>
        BY <1>t, <1>i, <2>1, <2>2, GoesOn
      <3>2. RouteOK'
        BY <1>t, <1>i, <1>l, <2>1, <2>2, <2>3, <3>1 DEF RouteOK
      <3>3. KnownOK'
        BY <1>t, <1>i, <1>l, <2>1, <2>2, <2>3, <3>1 DEF RouteOK, KnownOK, Behind, Lived
      <3>4. ServerOK' /\ LookupOK'
        BY <1>t, <1>i, <1>l, <2>1, <2>2, <2>3, <3>1 DEF RouteOK, ServerOK, LookupOK
      <3> QED
        BY <3>2, <3>3, <3>4
    <2> QED
      BY <1>t, <1>i, <2>1, <2>2, <2>4, GoesOn
  <1>9. CASE GetMessage \/ ListFolders \/ MailboxOverview \/ ListTasks
    <2>0. PICK t \in Cached : MirrorThenLive(t)
      BY <1>9 DEF GetMessage, ListFolders, MailboxOverview, ListTasks
    <2>1. read.at = "ewsd_mirror" /\ read.tool = t
      BY <2>0 DEF MirrorThenLive
    <2>2. CASE Hit
      BY <2>0, <2>2, GoodAnswer DEF MirrorThenLive
    <2>3. CASE ~Hit
      <3>1. Go("exchange", read.known, read.dbError)
        BY <2>0, <2>3, Goes DEF MirrorThenLive
      <3>2. RouteOK' /\ KnownOK' /\ ServerOK' /\ LookupOK'
        <4>1. /\ read'.at = "exchange" /\ read'.known = (read.known) /\ read'.dbError = (read.dbError)
              /\ read'.tool = read.tool /\ read'.fresh = read.fresh
              /\ UNCHANGED <<up, copy, spent, hist>>
          BY <1>t, <1>i, <3>1, GoesOn
        <4>2. RouteOK'
          BY <1>t, <1>i, <1>l, <2>1, <3>1, <4>1 DEF RouteOK
        <4>3. KnownOK'
          BY <1>t, <1>i, <1>l, <2>1, <3>1, <4>1 DEF RouteOK, KnownOK, Behind
        <4>4. ServerOK' /\ LookupOK'
          BY <1>t, <1>i, <1>l, <2>1, <3>1, <4>1 DEF RouteOK, ServerOK, LookupOK
        <4> QED
          BY <4>2, <4>3, <4>4
      <3> QED
        BY <1>t, <1>i, <3>1, <3>2, GoesOn
    <2> QED
      BY <2>2, <2>3
  <1>10. CASE GetAttachment
    <2>1. read.at = "ewsd_mirror" /\ read.tool = "get_attachment"
      BY <1>10 DEF GetAttachment
    <2>2. CASE ~up.db
      BY <1>10, <2>1, <2>2, GoodAnswer DEF GetAttachment
    <2>3. CASE up.db /\ Hit /\ copy.row \in OnDisk
      <3>1. Go("ewsd_files", read.known, read.dbError)
        BY <1>10, <2>3, Goes DEF GetAttachment
      <3>2. /\ read'.at = "ewsd_files" /\ read'.known = read.known /\ read'.dbError = read.dbError
            /\ read'.tool = read.tool /\ read'.fresh = read.fresh
            /\ UNCHANGED <<up, copy, spent, hist>>
        BY <1>t, <1>i, <3>1, GoesOn
      <3>3. RouteOK' /\ ServerOK' /\ LookupOK'
        BY <1>l, <2>1, <2>3, <3>2 DEF RouteOK, ServerOK, LookupOK, FromFiles
      <3>4. KnownOK'
        BY <1>l, <2>1, <3>2 DEF KnownOK, Behind
      <3> QED
        BY <1>t, <1>i, <3>1, <3>3, <3>4, GoesOn
    <2>4. CASE up.db /\ ~(Hit /\ copy.row \in OnDisk)
      <3>1. Go("exchange", read.known, read.dbError)
        BY <1>10, <2>4, Goes DEF GetAttachment
      <3>2. \/ hist.dbDown \/ hist.pulled \/ hist.gone \/ hist.noRow
            \/ copy.row \in {"live", "captured"} /\ copy.server
        BY <1>t, <1>i, <1>l, <2>1, <2>4 DEF Hit, RowHit, Lived, KnownOK, OnDisk, Rows
      <3>3. RouteOK' /\ KnownOK' /\ ServerOK' /\ LookupOK'
        <4>1. /\ read'.at = "exchange" /\ read'.known = (read.known) /\ read'.dbError = (read.dbError)
              /\ read'.tool = read.tool /\ read'.fresh = read.fresh
              /\ UNCHANGED <<up, copy, spent, hist>>
          BY <1>t, <1>i, <3>1, GoesOn
        <4>2. RouteOK'
          BY <1>t, <1>i, <1>l, <2>1, <3>1, <3>2, <4>1 DEF RouteOK
        <4>3. KnownOK'
          BY <1>t, <1>i, <1>l, <2>1, <3>1, <3>2, <4>1 DEF RouteOK, KnownOK, Behind
        <4>4. ServerOK' /\ LookupOK'
          BY <1>t, <1>i, <1>l, <2>1, <3>1, <3>2, <4>1 DEF RouteOK, ServerOK, LookupOK
        <4> QED
          BY <4>2, <4>3, <4>4
      <3> QED
        BY <1>t, <1>i, <3>1, <3>3, GoesOn
    <2> QED
      BY <2>2, <2>3, <2>4
  <1>11. CASE GetRawMessage
    <2>1. read.at = "ewsd_mirror" /\ read.tool = "get_raw_message"
      BY <1>11 DEF GetRawMessage
    <2>2. CASE ~up.db \/ (Hit /\ copy.row \notin OnDisk /\ ~up.warm)
      BY <1>11, <2>1, <2>2, GoodAnswer DEF GetRawMessage
    <2>5. CASE up.db /\ Hit /\ copy.row \in OnDisk
      <3>1. Go("ewsd_files", read.known, read.dbError)
        BY <1>11, <2>5, Goes DEF GetRawMessage
      <3>2. /\ read'.at = "ewsd_files" /\ read'.known = read.known /\ read'.dbError = read.dbError
            /\ read'.tool = read.tool /\ read'.fresh = read.fresh
            /\ UNCHANGED <<up, copy, spent, hist>>
        BY <1>t, <1>i, <3>1, GoesOn
      <3>3. RouteOK' /\ ServerOK' /\ LookupOK'
        BY <1>l, <2>1, <2>5, <3>2 DEF RouteOK, ServerOK, LookupOK, FromFiles
      <3>4. KnownOK'
        BY <1>l, <2>1, <3>2 DEF KnownOK, Behind
      <3> QED
        BY <1>t, <1>i, <3>1, <3>3, <3>4, GoesOn
    <2>3. CASE up.db /\ ~Hit
      <3>1. Answer("not_found") /\ "not_found" \in Codes
        BY <1>11, <2>3 DEF GetRawMessage, Codes
      <3>2. hist.dbDown \/ hist.noRow
        BY <1>t, <1>i, <1>l, <2>1, <2>3 DEF Hit, RowHit, Lived, KnownOK
      <3>3. NoFalseMiss' /\ BlameIsRight' /\ MirrorServesAlone'
        BY <2>1, <3>1, <3>2, Answers DEF NoFalseMiss, MayMiss, BlameIsRight, MirrorServesAlone, Answered
      <3> QED
        BY <3>1, <3>3, Answers
    <2>4. CASE up.db /\ Hit /\ copy.row \notin OnDisk /\ up.warm
      <3>1. Go("exchange", read.known, read.dbError)
        BY <1>11, <2>4, Goes DEF GetRawMessage
      <3>2. hist.gone \/ (copy.row \in {"live", "captured"} /\ copy.server)
        <4>1. copy.row \in Rows \ OnDisk /\ (copy.server \/ hist.gone)
          BY <1>t, <1>i, <1>l, <2>4 DEF Lived
        <4>2. copy.row # "none"
          BY <2>1, <2>4 DEF Hit, RowHit
        <4> QED
          BY <4>1, <4>2 DEF Rows, OnDisk
      <3>3. RouteOK' /\ KnownOK' /\ ServerOK' /\ LookupOK'
        <4>1. /\ read'.at = "exchange" /\ read'.known = (read.known) /\ read'.dbError = (read.dbError)
              /\ read'.tool = read.tool /\ read'.fresh = read.fresh
              /\ UNCHANGED <<up, copy, spent, hist>>
          BY <1>t, <1>i, <3>1, GoesOn
        <4>2. RouteOK'
          BY <1>t, <1>i, <1>l, <2>1, <3>1, <3>2, <4>1 DEF RouteOK
        <4>3. KnownOK'
          BY <1>t, <1>i, <1>l, <2>1, <3>1, <3>2, <4>1 DEF RouteOK, KnownOK, Behind
        <4>4. ServerOK' /\ LookupOK'
          BY <1>t, <1>i, <1>l, <2>1, <3>1, <3>2, <4>1 DEF RouteOK, ServerOK, LookupOK
        <4> QED
          BY <4>2, <4>3, <4>4
      <3> QED
        BY <1>t, <1>i, <3>1, <3>3, GoesOn
    <2> QED
      BY <2>2, <2>3, <2>4, <2>5
  <1>15. CASE AttachmentFromArchive
    <2>1. read.at = "ewsd_files" /\ read.tool = "get_attachment"
      BY <1>15 DEF AttachmentFromArchive
    <2>2. CASE ~up.db \/ (copy.inv = "stored" /\ copy.disk)
      <3>1. Answer("upstream_error") \/ Answer("archive")
        BY <1>15, <2>2 DEF AttachmentFromArchive
      <3> QED
        BY <2>1, <3>1, GoodAnswer
    <2>3. CASE up.db /\ ~(copy.inv = "stored" /\ copy.disk)
      <3>1. Answer("not_found") /\ "not_found" \in Codes /\ hist.dbUp
        BY <1>l, <1>15, <2>3 DEF AttachmentFromArchive, Codes, Lived
      <3>2. hist.bare \/ hist.lost \/ hist.reset
        BY <1>t, <1>l, <2>1, <2>3 DEF Lived, LookupOK, FromFiles
      <3>3. NoFalseMiss' /\ BlameIsRight' /\ MirrorServesAlone'
        BY <2>1, <3>1, <3>2, Answers DEF NoFalseMiss, MayMiss, BlameIsRight, MirrorServesAlone, Answered
      <3> QED
        BY <3>1, <3>3, Answers
    <2> QED
      BY <2>2, <2>3
  <1>16. CASE RawFromArchive
    <2>1. read.at = "ewsd_files" /\ read.tool = "get_raw_message"
      BY <1>16 DEF RawFromArchive
    <2>2. CASE copy.disk
      <3>1. Answer("archive")
        BY <1>16, <2>2 DEF RawFromArchive
      <3> QED
        BY <2>1, <3>1, GoodAnswer
    <2>3. CASE ~copy.disk
      <3>1. Answer("not_found") /\ "not_found" \in Codes
        BY <1>16, <2>3 DEF RawFromArchive, Codes
      <3>2. hist.lost \/ hist.reset
        BY <1>t, <1>l, <2>1, <2>3 DEF Lived, LookupOK, FromFiles
      <3>3. NoFalseMiss' /\ BlameIsRight' /\ MirrorServesAlone'
        BY <2>1, <3>1, <3>2, Answers DEF NoFalseMiss, MayMiss, BlameIsRight, MirrorServesAlone, Answered
      <3> QED
        BY <3>1, <3>3, Answers
    <2> QED
      BY <2>2, <2>3
  <1>12. CASE Exchange
    <2>1. read.at = "exchange" /\ read.tool \notin Store
      BY <1>12, <1>l DEF Exchange, RouteOK
    <2>2. read.tool = "get_message" /\ ~read.fresh => hist.dbDown \/ hist.noRow
      BY <1>l, <2>1 DEF KnownOK, Behind
    <2>3. CASE read.tool \in OfMessage /\ ~(read.known /\ copy.server) /\ up.exchange
      <3>1. Answer("not_found") /\ "not_found" \in Codes
        BY <1>12, <2>3 DEF Exchange, Codes
      <3>2. hist.dbDown \/ (hist.unserved /\ ~copy.server)
        <4>1. read.known \/ hist.dbDown
          BY <1>l, <2>1 DEF KnownOK
        <4>2. ~copy.server => hist.unserved
          BY <1>l DEF Lived
        <4> QED
          BY <2>3, <4>1, <4>2
      <3>3. read.tool \in {"get_attachment", "get_raw_message"} =>
              \/ hist.dbDown \/ hist.pulled \/ hist.gone
              \/ read.tool = "get_attachment" /\ hist.noRow
        BY <1>l, <2>1, <3>2 DEF RouteOK, ServerOK, LookupOK
      <3>4. NoFalseMiss' /\ BlameIsRight' /\ MirrorServesAlone'
        BY <2>1, <2>2, <2>3, <3>1, <3>2, <3>3, Answers DEF NoFalseMiss, MayMiss, BlameIsRight, MirrorServesAlone, Answered
      <3> QED
        BY <3>1, <3>4, Answers
    <2>4. CASE ~(read.tool \in OfMessage /\ ~(read.known /\ copy.server) /\ up.exchange)
      <3>1. Answer("upstream_unavailable") \/ Answer("live")
        BY <1>12, <2>4 DEF Exchange
      <3> QED
        BY <2>1, <2>2, <3>1, GoodAnswer
    <2> QED
      BY <2>3, <2>4
  <1> QED
    BY <1>1, <1>2, <1>3, <1>4, <1>5, <1>6, <1>7, <1>8, <1>9, <1>10, <1>11, <1>12,
       <1>13, <1>14, <1>15, <1>16 DEF Serve

(* Every step keeps the invariant of the reads.                            *)
LEMMA ReadInvInductive == ReadInv /\ [ReadsNext]_readsVars => ReadInv'
  <1> SUFFICES ASSUME ReadInv, [ReadsNext]_readsVars PROVE ReadInv'
    OBVIOUS
  <1>1. CASE UNCHANGED readsVars
    <2>1. ReadsTypeOK' /\ LivedOK' /\ RouteOK' /\ KnownOK' /\ ServerOK' /\ LookupOK'
      BY <1>1 DEF readsVars, ReadInv, ReadsTypeOK, LivedOK, Lived, InFlight, RouteOK, KnownOK,
                  ServerOK, LookupOK
    <2>2. NoFalseMiss' /\ BlameIsRight' /\ MirrorServesAlone'
      BY <1>1 DEF readsVars, ReadInv, NoFalseMiss, MayMiss, BlameIsRight, MirrorServesAlone, Answered
    <2> QED
      BY <2>1, <2>2 DEF ReadInv
  <1>2. CASE ReadsNext
    BY <1>2, FlipKeeps, LifeKeeps, OtherKeeps, AskKeeps, DeliverKeeps, ServeKeeps
       DEF ReadsNext, World
  <1> QED
    BY <1>1, <1>2

(* The invariant of the reads holds from the start.                        *)
LEMMA ReadInvHolds == ReadsSpec => []ReadInv
  <1>1. ReadsInit => ReadInv
    <2> SUFFICES ASSUME ReadsInit PROVE ReadInv
      OBVIOUS
    <2>1. ReadsTypeOK
      BY ReadsAssumption DEF ReadsInit, NoRead, Blank, ReadsTypeOK, Tools, Local, Cached, Steps,
                             Codes, Rows, Convs
    <2>2. LivedOK /\ RouteOK /\ KnownOK /\ ServerOK /\ LookupOK
      BY DEF ReadsInit, NoRead, LivedOK, InFlight, RouteOK, KnownOK, ServerOK, LookupOK, Behind
    <2>3. NoFalseMiss /\ BlameIsRight /\ MirrorServesAlone
      BY DEF ReadsInit, NoRead, NoFalseMiss, BlameIsRight, MirrorServesAlone, Answered
    <2> QED
      BY <2>1, <2>2, <2>3 DEF ReadInv
  <1> QED
    BY <1>1, ReadInvInductive, PTL DEF ReadsSpec

(* NoFalseMiss, however often Postgres, ewsd and Exchange go down and come *)
(* back and wherever the message moves during the read: not_found is       *)
(* answered only for a message that, at some moment of the read, was       *)
(* missing where its tool looks - no row, no conversation, no inventory,   *)
(* no files, not on the server - or was reset between its two lookups      *)
(* (mail_read.py:309, cache_reads.py:129, :500, :515).                     *)
THEOREM NoReadFalselyMisses == ReadsSpec => []NoFalseMiss
  BY ReadInvHolds, PTL DEF ReadInv

(* BlameIsRight: an error names what was down at some moment of the read,  *)
(* and a dead Postgres is never a missing thread (mcp/local.py:60).        *)
THEOREM ReadErrorsNameTheFault == ReadsSpec => []BlameIsRight
  BY ReadInvHolds, PTL DEF ReadInv

(* MirrorServesAlone: with Postgres up and the row there throughout,       *)
(* get_message answers from the mirror, and so does get_thread when the    *)
(* row names one conversation throughout, whatever becomes of ewsd and of  *)
(* Exchange (mcp/local.py:149, cache_reads.py:129).                        *)
THEOREM MirrorAnswersAlone == ReadsSpec => []MirrorServesAlone
  BY ReadInvHolds, PTL DEF ReadInv

-----------------------------------------------------------------------------
(* Connection.                                                             *)

(* A pool thread; the manager.                                             *)
CallerType == [at : {"idle", "called", "walk", "work"}, session : 0..MaxSession,
               straddled : BOOLEAN]
ManagerType == [state : {"connecting", "warm", "degraded"}, attempts : 0..(ResetEvery - 1),
                loop : {"warmup", "on_warm", "heartbeat", "reset",
                        "clear_protocol", "clear_folders"}]

\* The loop is at the callback only when it has not fired yet.
FiredOnce == mgr.loop = "on_warm" => started.fired = 0

(* The account a loop or a call uses is one of the sessions built. *)
LEMMA AccountTyped ==
  ASSUME ConnTypeOK
  PROVE  Account \in [session : 0..MaxSession, wedged : BOOLEAN]
<1>1. NoAccount \in [session : 0..MaxSession, wedged : BOOLEAN]
  BY ConnectionAssumption DEF NoAccount
<1>2. ASSUME built < MaxSession
      PROVE  [session |-> built + 1, wedged |-> proto = "wedged"]
               \in [session : 0..MaxSession, wedged : BOOLEAN]
  <2>1. built + 1 \in 0..MaxSession
    BY <1>2, ConnectionAssumption DEF ConnTypeOK
  <2> QED
    BY <2>1
<1> QED
  BY <1>1, <1>2 DEF Account, ConnTypeOK

(* Taking the account keeps its type and the count of sessions.            *)
LEMMA UseTyped ==
  ASSUME ConnTypeOK, Use(Account)
  PROVE  /\ account' \in [session : 0..MaxSession, wedged : BOOLEAN]
         /\ built' \in 0..MaxSession /\ proto' \in {"none", "good", "wedged"}
<1>1. Account \in [session : 0..MaxSession, wedged : BOOLEAN]
  BY AccountTyped
<1>2. account' = Account /\ built' \in {Account.session, built} /\ proto' \in {"good", proto}
  BY DEF Use
<1> QED
  BY <1>1, <1>2 DEF ConnTypeOK

(* The count of attempts stays below the reset.                            *)
LEMMA AttemptTyped == ASSUME ConnTypeOK PROVE Attempt \in 0..(ResetEvery - 1)
<1>1. mgr.attempts + 1 \in Nat /\ ResetEvery \in Nat /\ ResetEvery > 0
  BY ConnectionAssumption DEF ConnTypeOK
<1>2. \A a, n \in Nat : n > 0 => a % n \in 0..(n - 1)
  OBVIOUS
<1> QED
  BY <1>1, <1>2 DEF Attempt

(* Each turn of a loop keeps the manager typed and the callback unfired    *)
(* until it is reached.                                                    *)
LEMMA ManagerTyped ==
  ASSUME ConnTypeOK, FiredOnce, Manager
  PROVE  /\ mgr' \in ManagerType /\ FiredOnce'
         /\ started' \in [fired : 0..1, sync : BOOLEAN, archive : BOOLEAN]
<1>t. mgr \in ManagerType /\ started \in [fired : 0..1, sync : BOOLEAN, archive : BOOLEAN]
  BY DEF ConnTypeOK, ManagerType
<1>a. Attempt \in 0..(ResetEvery - 1)
  BY AttemptTyped
<1>1. CASE Connects
  BY <1>t, <1>1 DEF Connects, ManagerType, FiredOnce
<1>2. CASE ConnectFails
  BY <1>t, <1>a, <1>2 DEF ConnectFails, ManagerType, FiredOnce
<1>3. CASE OnWarm
  <2>1. started.fired = 0 /\ mgr' \in ManagerType /\ mgr'.loop = "heartbeat"
    BY <1>t, <1>3 DEF OnWarm, FiredOnce, ManagerType
  <2>2. PICK s \in BOOLEAN, a \in BOOLEAN :
           started' = [fired |-> started.fired + 1, sync |-> s, archive |-> a]
    BY <1>3 DEF OnWarm
  <2>3. started' \in [fired : 0..1, sync : BOOLEAN, archive : BOOLEAN]
    BY <2>1, <2>2
  <2> QED
    BY <2>1, <2>3 DEF FiredOnce
<1>4. CASE Beat
  BY <1>t, <1>4 DEF Beat, ManagerType, FiredOnce
<1>5. CASE BeatMissed
  <2>1. mgr.attempts \in 0..(ResetEvery - 1)
    BY <1>t DEF ManagerType
  <2> DEFINE n == IF account.session = 0 THEN mgr.attempts ELSE Attempt
  <2>2. n \in 0..(ResetEvery - 1)
    BY <1>a, <2>1
  <2>3. mgr' = [state |-> "degraded", loop |-> "warmup", attempts |-> n] /\ started' = started
    BY <1>5 DEF BeatMissed
  <2> HIDE DEF n
  <2> QED
    BY <1>t, <2>2, <2>3 DEF ManagerType, FiredOnce
<1>6. CASE Drop
  BY <1>t, <1>6 DEF Drop, ManagerType, FiredOnce
<1>7. CASE ClearProtocol
  BY <1>t, <1>7 DEF ClearProtocol, ManagerType, FiredOnce
<1>8. CASE ClearFolders
  BY <1>t, <1>8 DEF ClearFolders, ManagerType, FiredOnce
<1> QED
  BY <1>1, <1>2, <1>3, <1>4, <1>5, <1>6, <1>7, <1>8 DEF Manager

(* Every step keeps the types. *)
LEMMA ConnTypes == ConnTypeOK /\ FiredOnce /\ [ConnNext]_connVars => ConnTypeOK' /\ FiredOnce'
<1> SUFFICES ASSUME ConnTypeOK, FiredOnce, [ConnNext]_connVars PROVE ConnTypeOK' /\ FiredOnce'
  OBVIOUS
<1>t. /\ ex \in [up : BOOLEAN, outages : 0..MaxDrops]
      /\ account \in [session : 0..MaxSession, wedged : BOOLEAN]
      /\ proto \in {"none", "good", "wedged"}
      /\ built \in 0..MaxSession
      /\ mgr \in ManagerType
      /\ started \in [fired : 0..1, sync : BOOLEAN, archive : BOOLEAN]
      /\ folders \in [session : 0..MaxSession, late : BOOLEAN]
      /\ caller \in [Callers -> CallerType]
  BY DEF ConnTypeOK, ManagerType, CallerType
<1>q. ASSUME ex' \in [up : BOOLEAN, outages : 0..MaxDrops],
             account' \in [session : 0..MaxSession, wedged : BOOLEAN],
             proto' \in {"none", "good", "wedged"},
             built' \in 0..MaxSession,
             mgr' \in ManagerType,
             started' \in [fired : 0..1, sync : BOOLEAN, archive : BOOLEAN],
             folders' \in [session : 0..MaxSession, late : BOOLEAN],
             caller' \in [Callers -> CallerType]
      PROVE  ConnTypeOK'
  BY <1>q DEF ConnTypeOK, ManagerType, CallerType
<1>i. /\ NoAccount \in [session : 0..MaxSession, wedged : BOOLEAN]
      /\ NoFolders \in [session : 0..MaxSession, late : BOOLEAN]
      /\ Idle \in CallerType
  BY ConnectionAssumption DEF NoAccount, NoFolders, Idle, CallerType
<1>s. (mgr' = mgr /\ started' = started) => FiredOnce'
  BY DEF FiredOnce
<1>1. CASE GoDown
  <2>1. ex' \in [up : BOOLEAN, outages : 0..MaxDrops]
    <3>1. ex.outages + 1 \in 0..MaxDrops
      BY <1>t, <1>1, ConnectionAssumption DEF GoDown
    <3> QED
      BY <1>1, <3>1 DEF GoDown
  <2>2. PICK w \in BOOLEAN :
           /\ account' = [account EXCEPT !.wedged = @ \/ (w /\ account.session # 0)]
           /\ proto' = IF w /\ proto # "none" THEN "wedged" ELSE proto
    BY <1>1 DEF GoDown
  <2>3. (account.wedged \/ (w /\ account.session # 0)) \in BOOLEAN
    OBVIOUS
  <2>4. account' \in [session : 0..MaxSession, wedged : BOOLEAN]
    BY <1>t, <2>2, <2>3
  <2> QED
    BY <1>t, <1>q, <1>s, <1>1, <2>1, <2>2, <2>4 DEF GoDown
<1>2. CASE ComeUp
  <2>1. ex' \in [up : BOOLEAN, outages : 0..MaxDrops]
    BY <1>t, <1>2 DEF ComeUp
  <2> QED
    BY <1>t, <1>q, <1>s, <1>2, <2>1 DEF ComeUp
<1>3. CASE Manager
  <2>1. /\ mgr' \in ManagerType /\ FiredOnce'
        /\ started' \in [fired : 0..1, sync : BOOLEAN, archive : BOOLEAN]
    BY <1>3, ManagerTyped
  <2>2. ex' = ex
    BY <1>3 DEF Manager, Connects, ConnectFails, OnWarm, Beat, BeatMissed, Drop,
                ClearProtocol, ClearFolders
  <2>3. CASE Use(Account) /\ Keep
    BY <1>t, <1>q, <2>1, <2>2, <2>3, UseTyped DEF Keep
  <2>4. CASE Drop
    <3>1. \A c \in Callers :
             (IF caller[c].at = "idle" THEN Idle ELSE [caller[c] EXCEPT !.straddled = TRUE])
             \in CallerType
      BY <1>t, <1>i DEF CallerType
    <3>2. caller' \in [Callers -> CallerType]
      BY <2>4, <3>1 DEF Drop
    <3>3. account' = NoAccount /\ UNCHANGED <<proto, built, folders>>
      BY <2>4 DEF Drop
    <3> QED
      BY <1>t, <1>i, <1>q, <2>1, <2>2, <3>2, <3>3
  <2>5. CASE OnWarm
    BY <1>t, <1>q, <2>1, <2>5 DEF OnWarm, Keep
  <2>6. CASE ClearProtocol
    BY <1>t, <1>q, <2>1, <2>6 DEF ClearProtocol, Keep
  <2>7. CASE ClearFolders
    BY <1>t, <1>i, <1>q, <2>1, <2>7 DEF ClearFolders
  <2> QED
    BY <1>3, <2>3, <2>4, <2>5, <2>6, <2>7 DEF Manager, Connects, ConnectFails, Beat, BeatMissed
<1>4. CASE FoldersExpire
  BY <1>t, <1>i, <1>q, <1>s, <1>4 DEF FoldersExpire
<1>5. ASSUME NEW c \in Callers, Call(c) PROVE ConnTypeOK' /\ FiredOnce'
  <2> DEFINE new == [at |-> "called", session |-> Account.session, straddled |-> FALSE]
  <2>1. /\ account' \in [session : 0..MaxSession, wedged : BOOLEAN]
        /\ built' \in 0..MaxSession /\ proto' \in {"none", "good", "wedged"}
    BY <1>5, UseTyped DEF Call
  <2>2. Account.session \in 0..MaxSession
    BY AccountTyped
  <2>3. caller' = [caller EXCEPT ![c] = new] /\ UNCHANGED <<mgr, started, folders>>
    BY <1>5 DEF Call
  <2>4. new \in CallerType
    BY <2>2 DEF CallerType
  <2> HIDE DEF new
  <2>5. caller' \in [Callers -> CallerType]
    BY <1>t, <2>3, <2>4
  <2>6. ex' \in [up : BOOLEAN, outages : 0..MaxDrops]
    <3> DEFINE n == IF InMidReset THEN ex.outages + 1 ELSE ex.outages
    <3>1. n \in 0..MaxDrops
      BY <1>t, <1>5, ConnectionAssumption DEF Call
    <3>2. ex' = [ex EXCEPT !.outages = n]
      BY <1>t, <1>5 DEF Call
    <3> HIDE DEF n
    <3> QED
      BY <1>t, <3>1, <3>2
  <2> QED
    BY <1>t, <1>q, <1>s, <2>1, <2>3, <2>5, <2>6
<1>9. ASSUME NEW c \in Callers, FolderMap(c) PROVE ConnTypeOK' /\ FiredOnce'
  <2> DEFINE place == IF folders.session = 0 THEN "walk" ELSE "work"
  <2>1. caller[c] \in CallerType /\ place \in {"walk", "work"}
    BY <1>t
  <2>2. caller' = [caller EXCEPT ![c] = [@ EXCEPT !.at = place]]
    BY <1>t, <1>9 DEF FolderMap
  <2> HIDE DEF place
  <2>3. [caller[c] EXCEPT !.at = place] \in CallerType
    BY <2>1 DEF CallerType
  <2>4. caller' \in [Callers -> CallerType]
    BY <1>t, <2>2, <2>3
  <2> QED
    BY <1>t, <1>q, <1>s, <1>9, <2>4 DEF FolderMap
<1>6. ASSUME NEW c \in Callers, Walked(c) PROVE ConnTypeOK' /\ FiredOnce'
  <2>1. caller[c] \in CallerType
    BY <1>t
  <2>2. [caller[c] EXCEPT !.at = "work"] \in CallerType
    BY <2>1 DEF CallerType
  <2>3. caller' \in [Callers -> CallerType]
    BY <1>t, <1>6, <2>2 DEF Walked
  <2>4. folders' \in [session : 0..MaxSession, late : BOOLEAN]
    BY <1>6, <2>1 DEF Walked, CallerType
  <2> QED
    BY <1>t, <1>q, <1>s, <1>6, <2>3, <2>4 DEF Walked
<1>7. ASSUME NEW c \in Callers, Return(c) PROVE ConnTypeOK' /\ FiredOnce'
  <2>1. caller' \in [Callers -> CallerType]
    BY <1>t, <1>i, <1>7 DEF Return
  <2> QED
    BY <1>t, <1>q, <1>s, <1>7, <2>1 DEF Return
<1>8. CASE UNCHANGED connVars
  BY <1>t, <1>q, <1>s, <1>8 DEF connVars
<1> QED
  BY <1>1, <1>2, <1>3, <1>4, <1>5, <1>6, <1>7, <1>8, <1>9 DEF ConnNext

(* It starts cold.                                                         *)
LEMMA ConnTypedInit == ConnInit => ConnTypeOK /\ FiredOnce
<1> SUFFICES ASSUME ConnInit PROVE ConnTypeOK /\ FiredOnce
  OBVIOUS
<1>1. 0 \in 0..MaxSession /\ 0 \in 0..MaxDrops /\ 0 \in 0..(ResetEvery - 1) /\ 0 \in 0..1
  BY ConnectionAssumption
<1> QED
  BY <1>1 DEF ConnInit, ConnTypeOK, FiredOnce, NoAccount, NoFolders, Idle

(* The on-warm callback fires at most once in a process, whatever the      *)
(* outages and resets, and every session in use or in the hands of a pool  *)
(* thread is one that was built.                                           *)
THEOREM ConnTyped == ConnSpec => []ConnTypeOK
  BY ConnTypedInit, ConnTypes, PTL DEF ConnSpec

\* A thread that no reset has overtaken works with the session in use.
CallersOK ==
    \A c \in Callers : caller[c].at # "idle" /\ ~caller[c].straddled
                       => caller[c].session = account.session /\ account.session # 0

(* What every step of the manager and of the pool keeps.                   *)
ConnInv == ConnTypeOK /\ FiredOnce /\ CallersOK /\ FoldersOfThisSession

Clearing == mgr.loop \in {"clear_protocol", "clear_folders"}

(* A step that at most makes a session where none was, leaves folders and  *)
(* threads alone, and does not end a reset.                                *)
LEMMA UseStep ==
  ASSUME ConnInv, Use(Account), UNCHANGED <<folders, caller>>, Clearing => Clearing'
  PROVE  CallersOK' /\ FoldersOfThisSession'
<1>1. account' = Account /\ (account.session # 0 => Account = account)
  BY DEF Use, Account
<1>2. CallersOK'
  BY <1>1 DEF ConnInv, CallersOK
<1>3. FoldersOfThisSession'
  BY <1>1 DEF ConnInv, FoldersOfThisSession, Clearing
<1> QED
  BY <1>2, <1>3

(* Once the account is dropped every thread at work is marked, and the     *)
(* folder cache is still to be emptied.                                    *)
LEMMA DropStep == ASSUME ConnInv, Drop PROVE CallersOK' /\ FoldersOfThisSession'
<1>1. CallersOK'
  <2> SUFFICES ASSUME NEW c \in Callers, caller'[c].at # "idle"
               PROVE  caller'[c].straddled
    BY DEF CallersOK
  <2>1. caller[c] \in CallerType
    BY DEF ConnInv, ConnTypeOK, CallerType
  <2> QED
    BY <2>1 DEF Drop, Idle, CallerType
<1>2. mgr'.loop = "clear_protocol"
  BY DEF Drop, ConnInv, ConnTypeOK
<1> QED
  BY <1>1, <1>2 DEF FoldersOfThisSession

(* Every step keeps folders and threads with their session. *)
LEMMA ConnInductive == ConnInv /\ [ConnNext]_connVars => ConnInv'
<1> SUFFICES ASSUME ConnInv, [ConnNext]_connVars PROVE CallersOK' /\ FoldersOfThisSession'
  BY ConnTypes DEF ConnInv
<1>t. /\ account \in [session : 0..MaxSession, wedged : BOOLEAN]
      /\ mgr \in ManagerType
      /\ caller \in [Callers -> CallerType]
  BY DEF ConnInv, ConnTypeOK, ManagerType, CallerType
<1>s. ASSUME account'.session = account.session, UNCHANGED <<folders, caller>>,
             Clearing => Clearing'
      PROVE  CallersOK' /\ FoldersOfThisSession'
  BY <1>s DEF ConnInv, CallersOK, FoldersOfThisSession, Clearing
<1>1. CASE GoDown
  <2>1. account'.session = account.session
    BY <1>t, <1>1 DEF GoDown
  <2> QED
    BY <1>s, <1>1, <2>1 DEF GoDown, Clearing
<1>2. CASE ComeUp
  BY <1>s, <1>2 DEF ComeUp, Clearing
<1>3. CASE Connects
  BY <1>3, UseStep DEF Connects, Keep, Clearing
<1>4. CASE ConnectFails
  BY <1>4, UseStep DEF ConnectFails, Keep, Clearing
<1>5. CASE OnWarm
  BY <1>s, <1>5 DEF OnWarm, Keep, Clearing
<1>6. CASE Beat
  BY <1>6, UseStep DEF Beat, Keep, Clearing
<1>7. CASE BeatMissed
  BY <1>7, UseStep DEF BeatMissed, Keep, Clearing
<1>8. CASE Drop
  BY <1>8, DropStep
<1>9. CASE ClearProtocol
  <2>1. Clearing'
    BY <1>t, <1>9 DEF ClearProtocol, Clearing, ManagerType
  <2> QED
    BY <1>s, <1>9, <2>1 DEF ClearProtocol, Keep
<1>10. CASE ClearFolders \/ FoldersExpire
  <2>1. folders' = NoFolders /\ UNCHANGED <<account, caller>>
    BY <1>10 DEF ClearFolders, FoldersExpire
  <2> QED
    BY <2>1 DEF NoFolders, ConnInv, CallersOK, FoldersOfThisSession
<1>11. ASSUME NEW c \in Callers, Call(c) PROVE CallersOK' /\ FoldersOfThisSession'
  <2> DEFINE new == [at |-> "called", session |-> Account.session, straddled |-> FALSE]
  <2>1. /\ account' = Account /\ (account.session # 0 => Account = account)
        /\ Account.session # 0
        /\ caller' = [caller EXCEPT ![c] = new] /\ UNCHANGED <<mgr, folders>>
    BY <1>11 DEF Call, Use, Account
  <2>2. CallersOK'
    <3> SUFFICES ASSUME NEW d \in Callers, caller'[d].at # "idle", ~caller'[d].straddled
                 PROVE  caller'[d].session = Account.session /\ Account.session # 0
      BY <2>1 DEF CallersOK
    <3>1. CASE d = c
      BY <1>t, <2>1, <3>1
    <3>2. CASE d # c
      BY <1>t, <2>1, <3>2 DEF ConnInv, CallersOK
    <3> QED
      BY <3>1, <3>2
  <2>3. FoldersOfThisSession'
    BY <2>1 DEF ConnInv, FoldersOfThisSession
  <2> QED
    BY <2>2, <2>3
<1>12. ASSUME NEW c \in Callers, FolderMap(c) PROVE CallersOK' /\ FoldersOfThisSession'
  <2>1. caller[c] \in CallerType /\ caller[c].at = "called"
    BY <1>t, <1>12 DEF FolderMap
  <2>2. \A d \in Callers : /\ caller'[d].session = caller[d].session
                           /\ caller'[d].straddled = caller[d].straddled
                           /\ caller'[d].at # "idle" => caller[d].at # "idle"
    BY <1>t, <1>12, <2>1 DEF FolderMap, CallerType
  <2>3. CallersOK'
    BY <1>12, <2>2 DEF FolderMap, ConnInv, CallersOK
  <2>4. FoldersOfThisSession'
    BY <1>12 DEF FolderMap, ConnInv, FoldersOfThisSession
  <2> QED
    BY <2>3, <2>4
<1>13. ASSUME NEW c \in Callers, Walked(c) PROVE CallersOK' /\ FoldersOfThisSession'
  <2>1. /\ caller' = [caller EXCEPT ![c].at = "work"]
        /\ folders' = [session |-> caller[c].session, late |-> caller[c].straddled]
        /\ account' = account /\ caller[c].at # "idle"
    BY <1>13 DEF Walked
  <2>2. CallersOK'
    BY <1>t, <2>1 DEF ConnInv, CallersOK, CallerType
  <2>3. FoldersOfThisSession'
    BY <2>1 DEF ConnInv, CallersOK, FoldersOfThisSession
  <2> QED
    BY <2>2, <2>3
<1>14. ASSUME NEW c \in Callers, Return(c) PROVE CallersOK' /\ FoldersOfThisSession'
  <2>1. /\ caller' = [caller EXCEPT ![c] = Idle]
        /\ UNCHANGED <<account, folders, mgr>>
    BY <1>14 DEF Return
  <2>2. CallersOK'
    BY <1>t, <2>1 DEF ConnInv, CallersOK, Idle
  <2>3. FoldersOfThisSession'
    BY <2>1 DEF ConnInv, FoldersOfThisSession
  <2> QED
    BY <2>2, <2>3
<1>15. CASE UNCHANGED connVars
  BY <1>s, <1>15 DEF connVars, Clearing
<1> QED
  BY <1>1, <1>2, <1>3, <1>4, <1>5, <1>6, <1>7, <1>8, <1>9, <1>10, <1>11, <1>12,
     <1>13, <1>14, <1>15 DEF ConnNext, Manager

(* Cached folders belong to the session in use, except from the moment a   *)
(* reset drops the account until it has emptied the cache, and when a      *)
(* thread that took its account before a reset stores its walk after it.   *)
THEOREM FoldersMatchSession == ConnSpec => []FoldersOfThisSession
<1>1. ConnInit => ConnInv
  <2> SUFFICES ASSUME ConnInit PROVE ConnInv
    OBVIOUS
  <2>1. ConnTypeOK /\ FiredOnce
    BY ConnTypedInit
  <2> QED
    BY <2>1 DEF ConnInit, ConnInv, CallersOK, FoldersOfThisSession, NoAccount, NoFolders, Idle
<1>2. ConnInv => FoldersOfThisSession
  BY DEF ConnInv
<1> QED
  BY <1>1, <1>2, ConnInductive, PTL DEF ConnSpec

-----------------------------------------------------------------------------
(* Links.                                                                  *)

(* The history of the links.                                               *)
LinkHistory == [given : SUBSET Tokens, ok : [Tokens -> Nat], cut : SUBSET Tokens,
            over : SUBSET Tokens, torn : SUBSET Tokens, mishaps : Nat]

\* The sweep of one request.
Sweeps == [due : BOOLEAN, todo : SUBSET Downs, doomed : SUBSET Downs]

(* The types the argument needs.                                           *)
LinkShapes ==
    /\ rec \in [Tokens -> Records]
    /\ past \subseteq linkhist.given
    /\ minting \subseteq Downs
    /\ stored.by \subseteq Ups
    /\ sweeper \in [Downs -> Sweeps]
    /\ linkhist \in LinkHistory

\* What a link's file says of its past.
RecordsOK ==
    \A t \in Tokens :
        /\ linkhist.ok[t] # 0 => linkhist.ok[t] = 1 /\ t \in linkhist.given
        /\ rec[t] = "fresh" => linkhist.ok[t] = 0 /\ t \in linkhist.given
        /\ rec[t] = "blank" => linkhist.ok[t] = 0 /\ t \in linkhist.torn \union minting
        /\ rec[t] = "used" => linkhist.ok[t] = 1 \/ t \in linkhist.torn

\* A link being minted is nobody's yet; its file is open, or a sweep took it.
MintingOK ==
    \A t \in minting : /\ t \notin linkhist.given
                       /\ rec[t] = "blank" \/ (rec[t] = "none" /\ t \in linkhist.torn)
                       /\ minting = {t}

\* What a sweep is about to unlink no one can miss.
DoomedOK ==
    \A s \in Downs : \A t \in sweeper[s].doomed : linkhist.ok[t] = 1 \/ t \in past \union linkhist.torn

\* A used upload link left its body behind, whole.
StoredOK ==
    \A t \in Ups : rec[t] = "used" =>
        \/ stored = [by |-> {t}, whole |-> TRUE]
        \/ t \in linkhist.cut \union linkhist.over

(* What every step of either route, of mint and of the sweep keeps.        *)
LinkInv == LinkShapes /\ RecordsOK /\ MintingOK /\ DoomedOK /\ StoredOK /\ LinkLives

USE DEF Tokens

(* A mishap is counted and nothing else. *)
LEMMA MishapFields ==
  ASSUME NEW h \in LinkHistory
  PROVE  /\ Mishap(h) \in LinkHistory
         /\ Mishap(h).given = h.given /\ Mishap(h).ok = h.ok /\ Mishap(h).cut = h.cut
         /\ Mishap(h).over = h.over /\ Mishap(h).torn = h.torn
  BY DEF Mishap, LinkHistory

(* What a redemption, and a failed one, write into the history. *)
LEMMA GotFields ==
  ASSUME NEW h \in LinkHistory, NEW t \in Tokens
  PROVE  LET k == [h EXCEPT !.ok[t] = @ + 1]
         IN /\ k \in LinkHistory /\ k.given = h.given /\ k.ok = [h.ok EXCEPT ![t] = @ + 1]
            /\ k.cut = h.cut /\ k.over = h.over /\ k.torn = h.torn
<1> DEFINE k == [h EXCEPT !.ok[t] = @ + 1]
<1>1. [h.ok EXCEPT ![t] = @ + 1] \in [Tokens -> Nat]
  BY DEF LinkHistory
<1>2. k = [given |-> h.given, ok |-> [h.ok EXCEPT ![t] = @ + 1], cut |-> h.cut,
           over |-> h.over, torn |-> h.torn, mishaps |-> h.mishaps]
  BY DEF LinkHistory
<1> HIDE DEF k
<1>3. k \in LinkHistory
  BY <1>1, <1>2 DEF LinkHistory
<1> QED
  BY <1>2, <1>3 DEF k

(* An upload that replaces another only adds to the ones replaced.         *)
LEMMA OverFields ==
  ASSUME NEW h \in LinkHistory, NEW o \in SUBSET Tokens,
         NEW k, k = [h EXCEPT !.over = @ \union o]
  PROVE  /\ k \in LinkHistory /\ k.given = h.given /\ k.ok = h.ok
         /\ k.cut = h.cut /\ k.over = h.over \union o /\ k.torn = h.torn
  BY DEF LinkHistory

\* A link is torn, and nothing else is written.
LEMMA TornFields ==
  ASSUME NEW h \in LinkHistory, NEW o \in SUBSET Tokens,
         NEW k, k = [h EXCEPT !.torn = @ \union o]
  PROVE  /\ k \in LinkHistory /\ k.given = h.given /\ k.ok = h.ok
         /\ k.cut = h.cut /\ k.over = h.over /\ k.torn = h.torn \union o
         /\ k.mishaps = h.mishaps
  BY DEF LinkHistory

\* One sweep changes: the others keep the file they are about to unlink.
LEMMA SweepFields ==
  ASSUME NEW sw \in [Downs -> Sweeps], NEW s \in Downs, NEW v \in Sweeps,
         NEW k, k = [sw EXCEPT ![s] = v]
  PROVE  /\ k \in [Downs -> Sweeps]
         /\ \A u \in Downs : k[u].doomed = IF u = s THEN v.doomed ELSE sw[u].doomed
  OBVIOUS

(* mint of an upload link, and its write that fails.                       *)
LEMMA MintUploadStep ==
  ASSUME LinkInv, NEW t \in Ups, MintUpload(t) \/ MintUploadFails(t)
  PROVE  LinkInv'
<1> USE LinksAssumption DEF LinkInv
<1>0. minting = {} /\ rec[t] = "none" /\ t \notin linkhist.given /\ t \notin linkhist.torn
  BY DEF MintUpload, MintUploadFails, Unminted
<1>u. UNCHANGED <<past, minting, stored, sweeper>>
  BY DEF MintUpload, MintUploadFails
<1>a. CASE MintUpload(t)
  <2>1. rec' = [u \in Tokens |-> IF u = t THEN "fresh"
                                 ELSE IF u \in Ups /\ Doomed(u) THEN "none" ELSE rec[u]]
    BY <1>a DEF MintUpload
  <2>2. /\ linkhist' \in LinkHistory /\ linkhist'.given = linkhist.given \union {t}
        /\ linkhist'.ok = linkhist.ok /\ linkhist'.cut = linkhist.cut
        /\ linkhist'.over = linkhist.over /\ linkhist'.torn = linkhist.torn
    BY <1>a DEF MintUpload, LinkShapes, LinkHistory
  <2>3. LinkShapes'
    BY <1>u, <2>1, <2>2 DEF LinkShapes, Records
  <2>4. RecordsOK'
    BY <1>0, <1>u, <2>1, <2>2 DEF RecordsOK, LinkShapes, LinkHistory
  <2>5. MintingOK' /\ DoomedOK' /\ StoredOK'
    BY <1>0, <1>u, <2>1, <2>2 DEF MintingOK, DoomedOK, StoredOK
  <2>6. LinkLives'
    BY <1>0, <1>u, <2>1, <2>2 DEF LinkLives, RecordsOK, LinkShapes, LinkHistory, Doomed
  <2> QED
    BY <2>3, <2>4, <2>5, <2>6
<1>b. CASE MintUploadFails(t)
  <2>1. rec' = [rec EXCEPT ![t] = "blank"]
    BY <1>b DEF MintUploadFails
  <2>2. /\ linkhist' \in LinkHistory /\ linkhist'.given = linkhist.given
        /\ linkhist'.ok = linkhist.ok /\ linkhist'.cut = linkhist.cut
        /\ linkhist'.over = linkhist.over /\ linkhist'.torn = linkhist.torn \union {t}
    <3> DEFINE h == Mishap(linkhist)
               x == {t}
    <3>1. linkhist \in LinkHistory /\ x \in SUBSET Tokens
      BY DEF LinkShapes
    <3>2. linkhist' = [h EXCEPT !.torn = @ \union x]
      BY <1>b DEF MintUploadFails
    <3>3. /\ h \in LinkHistory /\ h.given = linkhist.given /\ h.ok = linkhist.ok
          /\ h.cut = linkhist.cut /\ h.over = linkhist.over /\ h.torn = linkhist.torn
      BY <3>1, MishapFields
    <3> HIDE DEF h, x
    <3>4. /\ linkhist' \in LinkHistory /\ linkhist'.given = h.given /\ linkhist'.ok = h.ok
          /\ linkhist'.cut = h.cut /\ linkhist'.over = h.over /\ linkhist'.torn = h.torn \union x
      BY <3>1, <3>2, <3>3, TornFields
    <3> QED
      BY <3>3, <3>4 DEF x
  <2>3. LinkShapes'
    BY <1>u, <2>1, <2>2 DEF LinkShapes, Records
  <2>4. RecordsOK' /\ LinkLives'
    BY <1>0, <1>u, <2>1, <2>2 DEF RecordsOK, LinkLives, LinkShapes, LinkHistory
  <2>5. MintingOK' /\ DoomedOK' /\ StoredOK'
    BY <1>0, <1>u, <2>1, <2>2 DEF MintingOK, DoomedOK, StoredOK, LinkShapes
  <2> QED
    BY <2>3, <2>4, <2>5
<1> QED
  BY <1>a, <1>b

(* mint of a download link opens its file, and writes it.                  *)
LEMMA MintStep ==
  ASSUME LinkInv, NEW t \in Downs, MintOpen(t) \/ MintWrite(t) \/ MintFails(t)
  PROVE  LinkInv'
<1> USE LinksAssumption DEF LinkInv
<1>1. CASE MintOpen(t)
  BY <1>1 DEF MintOpen, Unminted, LinkShapes, LinkHistory, Records, RecordsOK, MintingOK,
              DoomedOK, StoredOK, LinkLives
<1>2. CASE MintWrite(t)
  <2>1. /\ t \in minting /\ minting' = {}
        /\ rec' = [rec EXCEPT ![t] = IF @ = "none" THEN "none" ELSE "fresh"]
        /\ UNCHANGED <<past, stored>>
        /\ sweeper' = [sweeper EXCEPT ![t].due = TRUE]
    BY <1>2 DEF MintWrite
  <2>2. /\ linkhist' \in LinkHistory /\ linkhist'.given = linkhist.given \union {t}
        /\ linkhist'.ok = linkhist.ok /\ linkhist'.cut = linkhist.cut
        /\ linkhist'.over = linkhist.over /\ linkhist'.torn = linkhist.torn
    BY <1>2 DEF MintWrite, LinkShapes, LinkHistory
  <2>3. sweeper' \in [Downs -> Sweeps] /\ \A s \in Downs : sweeper'[s].doomed = sweeper[s].doomed
    <3>1. sweeper \in [Downs -> Sweeps] /\ sweeper[t] \in Sweeps
      BY DEF LinkShapes
    <3> DEFINE v == [sweeper[t] EXCEPT !.due = TRUE]
    <3>2. v \in Sweeps /\ v.doomed = sweeper[t].doomed
      BY <3>1 DEF Sweeps
    <3>3. sweeper' = [sweeper EXCEPT ![t] = v]
      BY <2>1
    <3> HIDE DEF v
    <3> QED
      BY <3>1, <3>2, <3>3, SweepFields
  <2>4. LinkShapes'
    BY <2>1, <2>2, <2>3 DEF LinkShapes, Records
  <2>5. \A u \in Tokens : rec'[u] = IF u = t THEN (IF rec[t] = "none" THEN "none" ELSE "fresh")
                                   ELSE rec[u]
    BY <2>1 DEF LinkShapes
  <2>8. linkhist.ok \in [Tokens -> Nat]
    BY DEF LinkShapes, LinkHistory
  <2>9. RecordsOK'
    <3> SUFFICES ASSUME NEW u \in Tokens
                 PROVE  /\ linkhist'.ok[u] # 0 => linkhist'.ok[u] = 1 /\ u \in linkhist'.given
                        /\ rec'[u] = "fresh" => linkhist'.ok[u] = 0 /\ u \in linkhist'.given
                        /\ rec'[u] = "blank" => /\ linkhist'.ok[u] = 0
                                                /\ u \in linkhist'.torn \union minting'
                        /\ rec'[u] = "used" => linkhist'.ok[u] = 1 \/ u \in linkhist'.torn
      BY DEF RecordsOK
    <3>1. CASE u = t
      BY <2>1, <2>2, <2>5, <2>8, <3>1 DEF RecordsOK, MintingOK
    <3>2. CASE u # t
      <4>1. u \notin minting
        BY <2>1, <3>2 DEF MintingOK
      <4> QED
        BY <2>1, <2>2, <2>5, <2>8, <3>2, <4>1 DEF RecordsOK
    <3> QED
      BY <3>1, <3>2
  <2>10. LinkLives'
    BY <2>1, <2>2, <2>5, <2>8 DEF LinkLives, MintingOK, LinkShapes, LinkHistory
  <2>6. MintingOK' /\ DoomedOK'
    BY <2>1, <2>2, <2>3 DEF MintingOK, DoomedOK
  <2>7. StoredOK'
    BY <2>1, <2>2 DEF StoredOK, LinkShapes
  <2> QED
    BY <2>4, <2>6, <2>7, <2>9, <2>10
<1>3. CASE MintFails(t)
  <2>1. t \in minting /\ minting' = {} /\ UNCHANGED <<rec, past, stored, sweeper>>
    BY <1>3 DEF MintFails
  <2>2. minting = {t} /\ t \notin linkhist.given
    BY <2>1 DEF MintingOK
  <2>3. /\ linkhist' \in LinkHistory /\ linkhist'.given = linkhist.given
        /\ linkhist'.ok = linkhist.ok /\ linkhist'.cut = linkhist.cut
        /\ linkhist'.over = linkhist.over /\ linkhist'.torn = linkhist.torn \union {t}
    <3> DEFINE h == Mishap(linkhist)
               x == {t}
    <3>1. linkhist \in LinkHistory /\ x \in SUBSET Tokens
      BY DEF LinkShapes
    <3>2. linkhist' = [h EXCEPT !.torn = @ \union x]
      BY <1>3 DEF MintFails
    <3>3. /\ h \in LinkHistory /\ h.given = linkhist.given /\ h.ok = linkhist.ok
          /\ h.cut = linkhist.cut /\ h.over = linkhist.over /\ h.torn = linkhist.torn
      BY <3>1, MishapFields
    <3> HIDE DEF h, x
    <3>4. /\ linkhist' \in LinkHistory /\ linkhist'.given = h.given /\ linkhist'.ok = h.ok
          /\ linkhist'.cut = h.cut /\ linkhist'.over = h.over /\ linkhist'.torn = h.torn \union x
      BY <3>1, <3>2, <3>3, TornFields
    <3> QED
      BY <3>3, <3>4 DEF x
  <2> QED
    BY <2>1, <2>2, <2>3 DEF LinkShapes, RecordsOK, MintingOK, DoomedOK, StoredOK, LinkLives
<1> QED
  BY <1>1, <1>2, <1>3

(* A sweep lists the directory, looks at a file, and unlinks it.           *)
LEMMA SweepStepKeeps == ASSUME LinkInv, NEW s \in Downs, SweepStep(s) PROVE LinkInv'
<1> USE LinksAssumption DEF LinkInv
<1>0. CASE SweepList(s)
  <2>1. /\ UNCHANGED <<rec, past, minting, stored, linkhist>>
        /\ sweeper' = [sweeper EXCEPT ![s] = [due |-> FALSE, doomed |-> {},
                                              todo |-> {d \in Downs : rec[d] # "none"}]]
    BY <1>0 DEF SweepList
  <2>2. /\ sweeper' \in [Downs -> Sweeps]
        /\ \A u \in Downs : sweeper'[u].doomed \subseteq sweeper[u].doomed
    <3> DEFINE v == [due |-> FALSE, doomed |-> {}, todo |-> {d \in Downs : rec[d] # "none"}]
    <3>1. sweeper \in [Downs -> Sweeps] /\ v \in Sweeps /\ v.doomed = {}
      BY DEF LinkShapes, Sweeps
    <3>2. sweeper' = [sweeper EXCEPT ![s] = v]
      BY <2>1
    <3> HIDE DEF v
    <3> QED
      BY <3>1, <3>2, SweepFields
  <2> QED
    BY <2>1, <2>2 DEF LinkShapes, RecordsOK, MintingOK, DoomedOK, StoredOK, LinkLives
<1>1. ASSUME NEW t \in Downs, SweepRead(s, t) PROVE LinkInv'
  <2>1. /\ UNCHANGED <<rec, past, minting, stored>>
        /\ sweeper' = [sweeper EXCEPT ![s].todo = @ \ {t},
                                      ![s].doomed = IF Doomed(t) THEN {t} ELSE {}]
        /\ linkhist' = IF t \in minting /\ Doomed(t)
                       THEN [linkhist EXCEPT !.torn = @ \union {t}] ELSE linkhist
    BY <1>1 DEF SweepRead
  <2>2. /\ linkhist' \in LinkHistory /\ linkhist'.given = linkhist.given
        /\ linkhist'.ok = linkhist.ok /\ linkhist'.cut = linkhist.cut
        /\ linkhist'.over = linkhist.over /\ linkhist.torn \subseteq linkhist'.torn
        /\ (t \in minting /\ Doomed(t) => t \in linkhist'.torn)
    BY <2>1 DEF LinkShapes, LinkHistory
  <2>d. /\ sweeper' \in [Downs -> Sweeps]
        /\ \A u \in Downs : sweeper'[u].doomed = IF u = s THEN (IF Doomed(t) THEN {t} ELSE {})
                                                  ELSE sweeper[u].doomed
    <3> DEFINE D == IF Doomed(t) THEN {t} ELSE {}
    <3>1. D \in SUBSET Downs /\ sweeper \in [Downs -> Sweeps] /\ sweeper[s] \in Sweeps
      BY DEF LinkShapes
    <3> DEFINE v == [sweeper[s] EXCEPT !.todo = @ \ {t}, !.doomed = D]
    <3>2. sweeper' = [sweeper EXCEPT ![s] = v]
      BY <2>1
    <3> HIDE DEF D
    <3>4. v \in Sweeps /\ v.doomed = D
      BY <3>1 DEF Sweeps
    <3> HIDE DEF v
    <3>3. /\ sweeper' \in [Downs -> Sweeps]
          /\ \A u \in Downs : sweeper'[u].doomed = IF u = s THEN D ELSE sweeper[u].doomed
      BY <3>1, <3>2, <3>4, SweepFields
    <3> QED
      BY <3>3 DEF D
  <2>3. LinkShapes' /\ RecordsOK' /\ MintingOK' /\ StoredOK' /\ LinkLives'
    BY <2>1, <2>2, <2>d DEF LinkShapes, RecordsOK, MintingOK, StoredOK, LinkLives
  <2>4. DoomedOK'
    <3>1. Doomed(t) => linkhist.ok[t] = 1 \/ t \in past \union linkhist'.torn
      BY <2>2 DEF Doomed, RecordsOK
    <3> QED
      BY <2>1, <2>2, <2>d, <3>1 DEF DoomedOK
  <2> QED
    BY <2>3, <2>4
<1>2. ASSUME NEW t \in Downs, SweepUnlink(s, t) PROVE LinkInv'
  <2>1. /\ t \in sweeper[s].doomed /\ rec' = [rec EXCEPT ![t] = "none"]
        /\ sweeper' = [sweeper EXCEPT ![s].doomed = {}]
        /\ UNCHANGED <<past, minting, stored, linkhist>>
    BY <1>2 DEF SweepUnlink
  <2>d. /\ sweeper' \in [Downs -> Sweeps]
        /\ \A u \in Downs : sweeper'[u].doomed \subseteq sweeper[u].doomed
    <3>1. sweeper \in [Downs -> Sweeps] /\ sweeper[s] \in Sweeps
      BY DEF LinkShapes
    <3> DEFINE v == [sweeper[s] EXCEPT !.doomed = {}]
    <3>2. v \in Sweeps /\ v.doomed = {}
      BY <3>1 DEF Sweeps
    <3>3. sweeper' = [sweeper EXCEPT ![s] = v]
      BY <2>1
    <3> HIDE DEF v
    <3> QED
      BY <3>1, <3>2, <3>3, SweepFields
  <2>2. LinkShapes' /\ RecordsOK' /\ DoomedOK' /\ StoredOK'
    BY <2>1, <2>d DEF LinkShapes, Records, RecordsOK, DoomedOK, StoredOK, LinkHistory
  <2>3. MintingOK'
    BY <2>1 DEF MintingOK, DoomedOK, RecordsOK, LinkShapes, LinkHistory
  <2>4. LinkLives'
    BY <2>1 DEF LinkLives, DoomedOK, LinkShapes, LinkHistory
  <2> QED
    BY <2>2, <2>3, <2>4
<1> QED
  BY <1>0, <1>1, <1>2 DEF SweepStep

(* ewsd dies: what was being minted is torn, the sweeps are gone.          *)
LEMMA DieStep == ASSUME LinkInv, Die PROVE LinkInv'
<1> USE LinksAssumption DEF LinkInv
<1>1. /\ minting' = {} /\ sweeper' = [d \in Downs |-> Resting] /\ UNCHANGED <<rec, past, stored>>
      /\ linkhist' = [Mishap(linkhist) EXCEPT !.torn = @ \union minting]
  BY DEF Die
<1>2. /\ linkhist' \in LinkHistory /\ linkhist'.given = linkhist.given
      /\ linkhist'.ok = linkhist.ok /\ linkhist'.cut = linkhist.cut
      /\ linkhist'.over = linkhist.over /\ linkhist'.torn = linkhist.torn \union minting
  <2> DEFINE h == Mishap(linkhist)
  <2>1. linkhist \in LinkHistory /\ minting \in SUBSET Tokens
    BY DEF LinkShapes
  <2>2. /\ h \in LinkHistory /\ h.given = linkhist.given /\ h.ok = linkhist.ok
        /\ h.cut = linkhist.cut /\ h.over = linkhist.over /\ h.torn = linkhist.torn
    BY <2>1, MishapFields
  <2>3. linkhist' = [h EXCEPT !.torn = @ \union minting]
    BY <1>1
  <2> HIDE DEF h
  <2> QED
    BY <2>1, <2>2, <2>3, TornFields
<1>3. sweeper' \in [Downs -> Sweeps] /\ \A u \in Downs : sweeper'[u].doomed = {}
  BY <1>1 DEF Sweeps, Resting
<1> QED
  BY <1>1, <1>2, <1>3 DEF LinkShapes, RecordsOK, MintingOK, DoomedOK, StoredOK, LinkLives

(* A link expires, and is turned away.                                     *)
LEMMA AgesStep == ASSUME LinkInv, NEW t \in Tokens, Ages(t) PROVE LinkInv'
<1> USE LinksAssumption DEF LinkInv
<1>1. CASE Expire(t)
  BY <1>1 DEF Expire, LinkShapes, RecordsOK, MintingOK, DoomedOK, StoredOK, LinkLives
<1>2. CASE RedeemExpired(t)
  BY <1>2 DEF RedeemExpired, Records, LinkShapes, LinkHistory, RecordsOK, MintingOK, DoomedOK, StoredOK,
              LinkLives
<1> QED
  BY <1>1, <1>2 DEF Ages

(* PUT redeems, or fails to store the body.                                *)
LEMMA PutStep ==
  ASSUME LinkInv, NEW t \in Ups, PutFails(t) \/ \E w \in BOOLEAN : Put(t, w)
  PROVE  LinkInv'
<1> USE LinksAssumption DEF LinkInv
<1>0. rec[t] = "fresh" /\ t \notin past
  BY DEF PutFails, Put, Redeemable
<1>1. ASSUME NEW w \in BOOLEAN, Put(t, w) PROVE LinkInv'
  <2>1. /\ stored' = [by |-> {t}, whole |-> w] /\ rec' = [rec EXCEPT ![t] = "used"]
        /\ UNCHANGED <<past, minting, sweeper>>
    BY <1>1 DEF Put
  <2>2. /\ linkhist' \in LinkHistory /\ linkhist'.given = linkhist.given
        /\ linkhist'.ok = [linkhist.ok EXCEPT ![t] = @ + 1]
        /\ linkhist.cut \subseteq linkhist'.cut /\ (~w => t \in linkhist'.cut)
        /\ linkhist'.over = linkhist.over \union (stored.by \ {t})
        /\ linkhist'.torn = linkhist.torn
    <3> DEFINE h == IF w THEN linkhist ELSE Mishap(linkhist)
               o == stored.by \ {t}
               x == IF w THEN {} ELSE {t}
    <3>1. linkhist \in LinkHistory /\ o \in SUBSET Tokens /\ x \in SUBSET Tokens
      BY DEF LinkShapes
    <3>2. /\ h \in LinkHistory /\ h.given = linkhist.given /\ h.ok = linkhist.ok
          /\ h.cut = linkhist.cut /\ h.over = linkhist.over /\ h.torn = linkhist.torn
      BY <3>1, MishapFields
    <3>3. linkhist' = [h EXCEPT !.ok[t] = @ + 1, !.over = @ \union o, !.cut = @ \union x]
      BY <1>1 DEF Put
    <3> HIDE DEF h, o, x
    <3>4. /\ linkhist' \in LinkHistory /\ linkhist'.given = h.given
          /\ linkhist'.ok = [h.ok EXCEPT ![t] = @ + 1] /\ linkhist'.cut = h.cut \union x
          /\ linkhist'.over = h.over \union o /\ linkhist'.torn = h.torn
      <4> DEFINE j == [h EXCEPT !.ok[t] = @ + 1]
      <4>1. /\ j \in LinkHistory /\ j.given = h.given /\ j.ok = [h.ok EXCEPT ![t] = @ + 1]
            /\ j.cut = h.cut /\ j.over = h.over /\ j.torn = h.torn
        BY <3>2, GotFields
      <4>2. linkhist' = [j EXCEPT !.over = @ \union o, !.cut = @ \union x]
        BY <3>2, <3>3 DEF LinkHistory
      <4> HIDE DEF j
      <4>3. /\ linkhist' \in LinkHistory /\ linkhist'.given = j.given /\ linkhist'.ok = j.ok
            /\ linkhist'.cut = j.cut \union x /\ linkhist'.over = j.over \union o
            /\ linkhist'.torn = j.torn
        BY <3>1, <4>1, <4>2 DEF LinkHistory
      <4> QED
        BY <4>1, <4>3
    <3> QED
      BY <3>2, <3>4 DEF o, x
  <2>3. LinkShapes'
    BY <2>1, <2>2 DEF LinkShapes, Records
  <2>4. RecordsOK' /\ LinkLives'
    BY <1>0, <2>1, <2>2 DEF RecordsOK, LinkLives, LinkShapes, LinkHistory
  <2>5. MintingOK' /\ DoomedOK'
    BY <1>0, <2>1, <2>2 DEF MintingOK, DoomedOK, RecordsOK, LinkShapes, LinkHistory
  <2>6. StoredOK'
    <3> SUFFICES ASSUME NEW u \in Ups, rec'[u] = "used"
                 PROVE  \/ stored' = [by |-> {u}, whole |-> TRUE]
                        \/ u \in linkhist'.cut \union linkhist'.over
      BY DEF StoredOK
    <3>1. CASE u = t
      <4>1. CASE w
        <5>1. w = TRUE
          BY <4>1
        <5> QED
          BY <2>1, <3>1, <5>1
      <4>2. CASE ~w
        BY <2>2, <3>1, <4>2
      <4> QED
        BY <4>1, <4>2
    <3>2. CASE u # t
      <4>1. rec[u] = "used"
        BY <2>1, <3>2 DEF LinkShapes
      <4>2. CASE stored = [by |-> {u}, whole |-> TRUE]
        BY <2>2, <3>2, <4>2
      <4>3. CASE u \in linkhist.cut \union linkhist.over
        BY <2>2, <4>3
      <4> QED
        BY <4>1, <4>2, <4>3 DEF StoredOK
    <3> QED
      BY <3>1, <3>2
  <2> QED
    BY <2>3, <2>4, <2>5, <2>6
<1>2. CASE PutFails(t)
  <2>1. /\ stored' = [by |-> {t}, whole |-> FALSE]
        /\ UNCHANGED <<rec, past, minting, sweeper>>
    BY <1>2 DEF PutFails
  <2>2. /\ linkhist' \in LinkHistory /\ linkhist'.given = linkhist.given
        /\ linkhist'.ok = linkhist.ok /\ linkhist'.cut = linkhist.cut
        /\ linkhist'.over = linkhist.over \union (stored.by \ {t})
        /\ linkhist'.torn = linkhist.torn
    <3> DEFINE h == Mishap(linkhist)
               o == stored.by \ {t}
    <3>1. linkhist \in LinkHistory /\ o \in SUBSET Tokens
      BY DEF LinkShapes
    <3>2. /\ h \in LinkHistory /\ h.given = linkhist.given /\ h.ok = linkhist.ok
          /\ h.cut = linkhist.cut /\ h.over = linkhist.over /\ h.torn = linkhist.torn
      BY <3>1, MishapFields
    <3>3. linkhist' = [h EXCEPT !.over = @ \union o]
      BY <1>2 DEF PutFails
    <3> HIDE DEF h, o
    <3>4. /\ linkhist' \in LinkHistory /\ linkhist'.given = h.given /\ linkhist'.ok = h.ok
          /\ linkhist'.cut = h.cut /\ linkhist'.over = h.over \union o
          /\ linkhist'.torn = h.torn
      BY <3>1, <3>2, <3>3, OverFields
    <3> QED
      BY <3>2, <3>4 DEF o
  <2>3. LinkShapes' /\ RecordsOK' /\ MintingOK' /\ DoomedOK' /\ LinkLives'
    BY <2>1, <2>2 DEF LinkShapes, RecordsOK, MintingOK, DoomedOK, LinkLives
  <2>4. StoredOK'
    <3> SUFFICES ASSUME NEW u \in Ups, rec[u] = "used"
                 PROVE  u \in linkhist'.cut \union linkhist'.over
      BY <2>1 DEF StoredOK
    <3>1. u # t
      BY <1>0
    <3>2. stored = [by |-> {u}, whole |-> TRUE] \/ u \in linkhist.cut \union linkhist.over
      BY DEF StoredOK
    <3> QED
      BY <2>2, <3>1, <3>2
  <2> QED
    BY <2>3, <2>4
<1> QED
  BY <1>1, <1>2

(* The rewrite of a redeemed record fails, with h the history so far: a    *)
(* record that is no longer fresh is torn, and the rest is as it was.      *)
LEMMA RewriteStep ==
  ASSUME LinkInv, NEW t \in Tokens, NEW r \in Records, NEW dies \in BOOLEAN,
         NEW h \in LinkHistory, h.given = linkhist.given, h.ok = linkhist.ok,
         h.torn = linkhist.torn, Redeemable(t), RewriteFails(t, r, dies, h),
         stored'.by \subseteq Ups
  PROVE  /\ LinkShapes' /\ RecordsOK' /\ MintingOK' /\ DoomedOK' /\ LinkLives'
         /\ linkhist'.cut = h.cut /\ linkhist'.over = h.over
         /\ \A u \in Tokens : u # t => rec'[u] = rec[u]
<1> USE DEF LinkInv
<1>0. minting = {} /\ rec[t] = "fresh" /\ t \notin past
  BY DEF Redeemable
<1>1. /\ rec' = [rec EXCEPT ![t] = r] /\ r # "none" /\ UNCHANGED <<past, minting>>
      /\ sweeper' = IF dies THEN [d \in Downs |-> Resting] ELSE sweeper
      /\ linkhist' = [Mishap(h) EXCEPT !.torn = @ \union (IF r = "fresh" THEN {} ELSE {t})]
  BY DEF RewriteFails
<1>2. /\ linkhist' \in LinkHistory /\ linkhist'.given = linkhist.given
      /\ linkhist'.ok = linkhist.ok /\ linkhist'.cut = h.cut /\ linkhist'.over = h.over
      /\ linkhist'.torn = linkhist.torn \union (IF r = "fresh" THEN {} ELSE {t})
  <2> DEFINE k == Mishap(h)
             x == IF r = "fresh" THEN {} ELSE {t}
  <2>1. x \in SUBSET Tokens
    OBVIOUS
  <2>2. /\ k \in LinkHistory /\ k.given = h.given /\ k.ok = h.ok
        /\ k.cut = h.cut /\ k.over = h.over /\ k.torn = h.torn
    BY MishapFields
  <2>3. linkhist' = [k EXCEPT !.torn = @ \union x]
    BY <1>1
  <2> HIDE DEF k, x
  <2>4. /\ linkhist' \in LinkHistory /\ linkhist'.given = k.given /\ linkhist'.ok = k.ok
        /\ linkhist'.cut = k.cut /\ linkhist'.over = k.over /\ linkhist'.torn = k.torn \union x
    BY <2>1, <2>2, <2>3, TornFields
  <2> QED
    BY <2>2, <2>4 DEF x
<1>3. /\ sweeper' \in [Downs -> Sweeps]
      /\ \A u \in Downs : sweeper'[u].doomed \subseteq sweeper[u].doomed
  <2>1. CASE dies
    <3>1. sweeper' = [d \in Downs |-> Resting]
      BY <1>1, <2>1
    <3>2. Resting \in Sweeps /\ Resting.doomed = {}
      BY DEF Sweeps, Resting
    <3> QED
      BY <3>1, <3>2
  <2>2. CASE ~dies
    BY <1>1, <2>2 DEF LinkShapes
  <2> QED
    BY <2>1, <2>2
<1>4. LinkShapes'
  BY <1>1, <1>2, <1>3 DEF LinkShapes
<1>5. \A u \in Tokens : rec'[u] = IF u = t THEN r ELSE rec[u]
  BY <1>1 DEF LinkShapes
<1>6. RecordsOK'
  BY <1>0, <1>1, <1>2, <1>5 DEF RecordsOK, Records
<1>7. LinkLives'
  BY <1>0, <1>1, <1>2, <1>5 DEF LinkLives, LinkShapes, LinkHistory
<1>8. MintingOK' /\ DoomedOK'
  BY <1>0, <1>1, <1>2, <1>3 DEF MintingOK, DoomedOK
<1> QED
  BY <1>2, <1>4, <1>5, <1>6, <1>7, <1>8

(* PUT stores the body and fails to mark the link, or dies then.           *)
LEMMA PutTornStep ==
  ASSUME LinkInv, NEW t \in Ups, NEW r \in Records, NEW dies \in BOOLEAN, PutTorn(t, r, dies)
  PROVE  LinkInv'
<1> USE LinksAssumption DEF LinkInv
<1> DEFINE h == [linkhist EXCEPT !.over = @ \union (stored.by \ {t})]
<1>1. /\ Redeemable(t) /\ stored' = [by |-> {t}, whole |-> TRUE] /\ RewriteFails(t, r, dies, h)
  BY DEF PutTorn
<1>2. linkhist \in LinkHistory /\ stored.by \ {t} \in SUBSET Tokens
  BY DEF LinkShapes
<1>3. /\ h \in LinkHistory /\ h.given = linkhist.given /\ h.ok = linkhist.ok
      /\ h.cut = linkhist.cut /\ h.over = linkhist.over \union (stored.by \ {t})
      /\ h.torn = linkhist.torn
  BY <1>2 DEF LinkHistory
<1>4. stored'.by \subseteq Ups
  BY <1>1
<1> HIDE DEF h
<1>5. /\ LinkShapes' /\ RecordsOK' /\ MintingOK' /\ DoomedOK' /\ LinkLives'
      /\ linkhist'.cut = h.cut /\ linkhist'.over = h.over
      /\ \A u \in Tokens : u # t => rec'[u] = rec[u]
  BY <1>1, <1>3, <1>4, RewriteStep
<1>6. StoredOK'
  <2> SUFFICES ASSUME NEW u \in Ups, rec'[u] = "used"
               PROVE  \/ stored' = [by |-> {u}, whole |-> TRUE]
                      \/ u \in linkhist'.cut \union linkhist'.over
    BY DEF StoredOK
  <2>1. CASE u = t
    BY <1>1, <2>1
  <2>2. CASE u # t
    <3>1. rec[u] = "used"
      BY <1>5, <2>2
    <3>2. stored = [by |-> {u}, whole |-> TRUE] \/ u \in linkhist.cut \union linkhist.over
      BY <3>1 DEF StoredOK
    <3> QED
      BY <1>3, <1>5, <2>2, <3>2
  <2> QED
    BY <2>1, <2>2
<1> QED
  BY <1>5, <1>6

(* GET fails to mark the link, or dies then.                               *)
LEMMA GetTornStep ==
  ASSUME LinkInv, NEW t \in Downs, NEW r \in Records, NEW dies \in BOOLEAN, GetTorn(t, r, dies)
  PROVE  LinkInv'
<1> USE LinksAssumption DEF LinkInv
<1>1. Redeemable(t) /\ stored' = stored /\ RewriteFails(t, r, dies, linkhist)
  BY DEF GetTorn
<1>2. linkhist \in LinkHistory /\ stored'.by \subseteq Ups
  BY <1>1 DEF LinkShapes
<1>3. /\ LinkShapes' /\ RecordsOK' /\ MintingOK' /\ DoomedOK' /\ LinkLives'
      /\ linkhist'.cut = linkhist.cut /\ linkhist'.over = linkhist.over
      /\ \A u \in Tokens : u # t => rec'[u] = rec[u]
  BY <1>1, <1>2, RewriteStep
<1>4. StoredOK'
  BY <1>1, <1>3 DEF StoredOK
<1> QED
  BY <1>3, <1>4

(* GET redeems a download link.                                            *)
LEMMA GetStep == ASSUME LinkInv, NEW t \in Downs, NEW w \in BOOLEAN, Get(t, w) PROVE LinkInv'
<1> USE LinksAssumption DEF LinkInv
<1>0. rec[t] = "fresh" /\ t \notin past
  BY DEF Get, Redeemable
<1>1. rec' = [rec EXCEPT ![t] = "used"] /\ UNCHANGED <<past, minting, stored, sweeper>>
  BY DEF Get
<1>2. /\ linkhist' \in LinkHistory /\ linkhist'.given = linkhist.given
      /\ linkhist'.ok = [linkhist.ok EXCEPT ![t] = @ + 1]
      /\ linkhist'.cut = linkhist.cut /\ linkhist'.over = linkhist.over
      /\ linkhist'.torn = linkhist.torn
  <2> DEFINE h == IF w THEN linkhist ELSE Mishap(linkhist)
  <2>1. /\ h \in LinkHistory /\ h.given = linkhist.given /\ h.ok = linkhist.ok
        /\ h.cut = linkhist.cut /\ h.over = linkhist.over /\ h.torn = linkhist.torn
    BY MishapFields DEF LinkShapes
  <2>2. linkhist' = [h EXCEPT !.ok[t] = @ + 1]
    BY DEF Get
  <2> HIDE DEF h
  <2> QED
    BY <2>1, <2>2, GotFields
<1>3. LinkShapes' /\ StoredOK'
  BY <1>1, <1>2 DEF LinkShapes, StoredOK, Records
<1>4. RecordsOK' /\ LinkLives'
  BY <1>0, <1>1, <1>2 DEF RecordsOK, LinkLives, LinkShapes, LinkHistory
<1>5. MintingOK' /\ DoomedOK'
  BY <1>0, <1>1, <1>2 DEF MintingOK, DoomedOK, RecordsOK, LinkShapes, LinkHistory
<1> QED
  BY <1>3, <1>4, <1>5

(* Every step keeps the records, the sweep and the stored file in step. *)
THEOREM LinksInvariance == LinksSpec => []LinkInv
<1>1. LinksInit => LinkInv
  BY DEF LinksInit, LinkInv, LinkShapes, LinkHistory, RecordsOK, MintingOK, DoomedOK, StoredOK,
         LinkLives, Nothing, Resting, Records, Sweeps
<1>2. LinkInv /\ [UploadsNext \/ DownloadsNext]_linkVars => LinkInv'
  <2> SUFFICES ASSUME LinkInv, [UploadsNext \/ DownloadsNext]_linkVars PROVE LinkInv'
    OBVIOUS
  <2>1. CASE UploadsNext
    BY <2>1, MintUploadStep, PutStep, PutTornStep, AgesStep DEF UploadsNext
  <2>2. CASE DownloadsNext
    BY <2>2, MintStep, SweepStepKeeps, DieStep, AgesStep, GetStep, GetTornStep DEF DownloadsNext
  <2>3. CASE UNCHANGED linkVars
    BY <2>3 DEF linkVars, LinkInv, LinkShapes, LinkHistory, RecordsOK, MintingOK, DoomedOK, StoredOK,
                LinkLives
  <2> QED
    BY <2>1, <2>2, <2>3
<1> QED
  BY <1>1, <1>2, PTL DEF LinksSpec

(* A link is honoured at most once, and an upload link is spent only for   *)
(* its own body, stored whole, but for a client that hung up and a later   *)
(* link for the same name.                                                 *)
THEOREM HonouredOnce == LinksSpec => []SpentOnceAndStored
<1>1. LinkInv => SpentOnceAndStored
  BY DEF LinkInv, LinkShapes, LinkHistory, RecordsOK, StoredOK, SpentOnceAndStored
<1> QED
  BY <1>1, LinksInvariance, PTL

(* A link handed out, not redeemed and not expired works, unless a sweep   *)
(* read its record while it was being minted, or a redemption's rewrite of *)
(* it failed or was cut off.                                               *)
THEOREM LinksLive == LinksSpec => []LinkLives
<1>1. LinkInv => LinkLives
  BY DEF LinkInv
<1> QED
  BY <1>1, LinksInvariance, PTL

\* What LinkInv leaves open of the types: every mishap is counted against
\* its bound, and the stored file has its shape.
LinkBounds ==
    /\ stored \in [by : SUBSET Ups, whole : BOOLEAN]
    /\ linkhist.mishaps \in 0..MaxMishaps

(* Only what may fail counts a mishap. *)
LEMMA MishapCounted ==
  ASSUME NEW h \in LinkHistory, h.mishaps \in 0..MaxMishaps, h.mishaps < MaxMishaps
  PROVE  Mishap(h) \in LinkHistory /\ Mishap(h).mishaps \in 0..MaxMishaps
<1>1. h.mishaps + 1 \in 0..MaxMishaps
  BY LinksAssumption
<1>2. Mishap(h).mishaps = h.mishaps + 1
  BY DEF Mishap, LinkHistory
<1> QED
  BY <1>1, <1>2, MishapFields

(* Every step keeps the count of mishaps and the shape of the file.        *)
LEMMA BoundsKept ==
  ASSUME LinkShapes, LinkBounds, [UploadsNext \/ DownloadsNext]_linkVars
  PROVE  LinkBounds'
<1>h. linkhist \in LinkHistory /\ linkhist.mishaps \in 0..MaxMishaps
  BY DEF LinkShapes, LinkBounds
<1>m. \A h \in LinkHistory : MayFail /\ h.mishaps = linkhist.mishaps =>
         Mishap(h) \in LinkHistory /\ Mishap(h).mishaps \in 0..MaxMishaps
  BY <1>h, MishapCounted DEF MayFail
<1>e. \A h \in LinkHistory, S \in SUBSET Tokens :
         /\ [h EXCEPT !.given = @ \union S].mishaps = h.mishaps
         /\ [h EXCEPT !.torn = @ \union S].mishaps = h.mishaps
         /\ [h EXCEPT !.over = @ \union S].mishaps = h.mishaps
         /\ [h EXCEPT !.over = @ \union S] \in LinkHistory
  BY DEF LinkHistory
<1>o. \A h \in LinkHistory, t \in Tokens, S \in SUBSET Tokens, R \in SUBSET Tokens :
         /\ [h EXCEPT !.ok[t] = @ + 1].mishaps = h.mishaps
         /\ [h EXCEPT !.ok[t] = @ + 1, !.over = @ \union S, !.cut = @ \union R].mishaps = h.mishaps
  BY DEF LinkHistory
<1>s. stored.by \subseteq Ups /\ minting \subseteq Downs
  BY DEF LinkShapes
<1>f. ASSUME NEW h \in LinkHistory, h.mishaps = linkhist.mishaps, MayFail,
             NEW S \in SUBSET Tokens, linkhist' = [Mishap(h) EXCEPT !.torn = @ \union S],
             stored' \in [by : SUBSET Ups, whole : BOOLEAN]
      PROVE  LinkBounds'
  <2> DEFINE k == Mishap(h)
  <2>1. k \in LinkHistory /\ k.mishaps \in 0..MaxMishaps
    BY <1>f, <1>m
  <2>2. linkhist' = [k EXCEPT !.torn = @ \union S]
    BY <1>f
  <2> HIDE DEF k
  <2> QED
    BY <1>e, <1>f, <2>1, <2>2 DEF LinkBounds
<1>1. ASSUME NEW t \in Ups, MintUpload(t) PROVE LinkBounds'
  BY <1>1, <1>h, <1>e DEF MintUpload, LinkBounds
<1>2. ASSUME NEW t \in Ups, PutFails(t) PROVE LinkBounds'
  <2>1. stored' = [by |-> {t}, whole |-> FALSE] /\ MayFail
    BY <1>2 DEF PutFails
  <2>2. {t} \in SUBSET Ups /\ stored.by \ {t} \in SUBSET Tokens
    BY <1>s
  <2>3. stored' \in [by : SUBSET Ups, whole : BOOLEAN]
    BY <2>1, <2>2
  <2> DEFINE k == Mishap(linkhist)
  <2>4. k \in LinkHistory /\ k.mishaps \in 0..MaxMishaps
    BY <1>h, <1>m, <2>1
  <2>5. linkhist' = [k EXCEPT !.over = @ \union (stored.by \ {t})]
    BY <1>2 DEF PutFails
  <2> HIDE DEF k
  <2> QED
    BY <1>e, <2>2, <2>3, <2>4, <2>5 DEF LinkBounds
<1>a. ASSUME NEW t \in Ups, MintUploadFails(t) PROVE LinkBounds'
  BY <1>a, <1>h, <1>f, {t} \in SUBSET Tokens DEF MintUploadFails, LinkBounds
<1>b. ASSUME NEW t \in Downs, MintFails(t) PROVE LinkBounds'
  BY <1>b, <1>h, <1>f, {t} \in SUBSET Tokens DEF MintFails, LinkBounds
<1>c. CASE Die
  BY <1>c, <1>h, <1>f, <1>s, minting \in SUBSET Tokens DEF Die, LinkBounds
<1>d. ASSUME NEW t \in Tokens, NEW r \in Records, NEW dies \in BOOLEAN, NEW h \in LinkHistory,
             h.mishaps = linkhist.mishaps, RewriteFails(t, r, dies, h),
             stored' \in [by : SUBSET Ups, whole : BOOLEAN]
      PROVE  LinkBounds'
  <2> DEFINE x == IF r = "fresh" THEN {} ELSE {t}
  <2>1. x \in SUBSET Tokens
    OBVIOUS
  <2>2. MayFail /\ linkhist' = [Mishap(h) EXCEPT !.torn = @ \union x]
    BY <1>d DEF RewriteFails
  <2> HIDE DEF x
  <2> QED
    BY <1>d, <1>f, <2>1, <2>2
<1>p. ASSUME NEW t \in Ups, NEW r \in Records, NEW dies \in BOOLEAN, PutTorn(t, r, dies)
      PROVE  LinkBounds'
  <2> DEFINE h == [linkhist EXCEPT !.over = @ \union (stored.by \ {t})]
  <2>1. stored' = [by |-> {t}, whole |-> TRUE] /\ RewriteFails(t, r, dies, h)
    BY <1>p DEF PutTorn
  <2>2. {t} \in SUBSET Ups /\ stored.by \ {t} \in SUBSET Tokens
    BY <1>s
  <2>3. stored' \in [by : SUBSET Ups, whole : BOOLEAN]
    BY <2>1, <2>2
  <2>4. h \in LinkHistory /\ h.mishaps = linkhist.mishaps
    BY <1>h, <1>e, <2>2
  <2> HIDE DEF h
  <2> QED
    BY <1>d, <2>1, <2>3, <2>4
<1>g. ASSUME NEW t \in Downs, NEW r \in Records, NEW dies \in BOOLEAN, GetTorn(t, r, dies)
      PROVE  LinkBounds'
  <2>1. RewriteFails(t, r, dies, linkhist) /\ stored' \in [by : SUBSET Ups, whole : BOOLEAN]
    BY <1>g DEF GetTorn, LinkBounds
  <2> QED
    BY <1>d, <1>h, <2>1
<1>3. ASSUME NEW t \in Ups, NEW w \in BOOLEAN, Put(t, w) PROVE LinkBounds'
  <2> DEFINE h == IF w THEN linkhist ELSE Mishap(linkhist)
             cut == IF w THEN {} ELSE {t}
  <2>1. h \in LinkHistory /\ h.mishaps \in 0..MaxMishaps
    BY <1>3, <1>h, <1>m DEF Put
  <2>2. linkhist' = [h EXCEPT !.ok[t] = @ + 1, !.over = @ \union (stored.by \ {t}),
                              !.cut = @ \union cut]
    BY <1>3 DEF Put
  <2>3. cut \in SUBSET Tokens /\ stored.by \ {t} \in SUBSET Tokens
    BY <1>s
  <2> HIDE DEF h, cut
  <2>4. linkhist'.mishaps = h.mishaps
    BY <1>o, <2>1, <2>2, <2>3
  <2>5. stored' \in [by : SUBSET Ups, whole : BOOLEAN] 
    BY <1>3 DEF Put
  <2> QED
    BY <2>1, <2>4, <2>5 DEF LinkBounds
<1>4. ASSUME NEW t \in Tokens, Ages(t) PROVE LinkBounds'
  BY <1>4 DEF Ages, Expire, RedeemExpired, LinkBounds
<1>5. ASSUME NEW t \in Downs, MintOpen(t) PROVE LinkBounds'
  BY <1>5 DEF MintOpen, LinkBounds
<1>6. ASSUME NEW t \in Downs, MintWrite(t) PROVE LinkBounds'
  BY <1>6, <1>h, <1>e DEF MintWrite, LinkBounds
<1>7. ASSUME NEW s \in Downs, SweepStep(s) PROVE LinkBounds'
  <2>1. ASSUME NEW t \in Downs, SweepRead(s, t) PROVE LinkBounds'
    BY <2>1, <1>h, <1>e DEF SweepRead, LinkBounds
  <2>2. ASSUME NEW t \in Downs, SweepUnlink(s, t) PROVE LinkBounds'
    BY <2>2 DEF SweepUnlink, LinkBounds
  <2>3. CASE SweepList(s)
    BY <2>3 DEF SweepList, LinkBounds
  <2> QED
    BY <1>7, <2>1, <2>2, <2>3 DEF SweepStep
<1>9. ASSUME NEW t \in Downs, NEW w \in BOOLEAN, Get(t, w) PROVE LinkBounds'
  <2> DEFINE h == IF w THEN linkhist ELSE Mishap(linkhist)
  <2>1. h \in LinkHistory /\ h.mishaps \in 0..MaxMishaps
    BY <1>9, <1>h, <1>m DEF Get
  <2>2. linkhist' = [h EXCEPT !.ok[t] = @ + 1] /\ stored' = stored
    BY <1>9 DEF Get
  <2> HIDE DEF h
  <2> QED
    BY <1>o, <2>1, <2>2 DEF LinkBounds
<1>10. CASE UNCHANGED linkVars
  BY <1>10 DEF linkVars, LinkBounds
<1> QED
  BY <1>a, <1>b, <1>c, <1>p, <1>g, <1>1, <1>2, <1>3, <1>4, <1>5, <1>6, <1>7, <1>9, <1>10
     DEF UploadsNext, DownloadsNext

(* The types of the links: at most one link is being minted at a time, and *)
(* only a link that was handed out expires.                                *)
THEOREM LinksTyped == LinksSpec => []LinksTypeOK
<1>1. LinksInit => LinkBounds
  BY LinksAssumption DEF LinksInit, LinkBounds, Nothing, Resting
<1>2. LinkInv /\ LinkBounds /\ [UploadsNext \/ DownloadsNext]_linkVars => LinkBounds'
  BY BoundsKept DEF LinkInv
<1>3. LinkInv /\ LinkBounds => LinksTypeOK
  <2> SUFFICES ASSUME LinkInv, LinkBounds PROVE LinksTypeOK
    OBVIOUS
  <2>1. minting = {} \/ \E t \in minting : minting = {t}
    BY DEF LinkInv, MintingOK
  <2>2. Cardinality(minting) <= 1
    <3>1. CASE minting = {}
      BY <3>1, FS_EmptySet
    <3>2. ASSUME NEW t \in minting, minting = {t} PROVE Cardinality(minting) = 1
      BY <3>2, FS_Singleton
    <3> QED
      BY <2>1, <3>1, <3>2
  <2>3. linkhist.given \subseteq Tokens
    BY DEF LinkInv, LinkShapes, LinkHistory
  <2> QED
    BY <2>2, <2>3 DEF LinksTypeOK, LinkInv, LinkShapes, LinkBounds, Sweeps
<1> QED
  BY <1>1, <1>2, <1>3, LinksInvariance, PTL DEF LinksSpec

=============================================================================
