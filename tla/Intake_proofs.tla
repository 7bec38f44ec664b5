---------------------------- MODULE Intake_proofs ---------------------------
(***************************************************************************)
(* What holds of what the server takes in beside the operations: files, of *)
(* which there are any number, as of documents, tenants, requests and      *)
(* mishaps (Files), and the catalogues of suppliers (ArticleImport).       *)
(*                                                                         *)
(* On the server: what a request has put lies there as new, or aside to be *)
(* moved back, until its row is written; so what the sweep finds old and   *)
(* nobody held when it asked is nobody's still (StoreInv).  On the device: *)
(* a file a version may name is on the list of uploads, or the server has  *)
(* its row, unless it was refused for good or erased (DeviceInv).          *)
(*                                                                         *)
(* The second half is about the rows an import writes past the stamp of    *)
(* the sync: what a device has of the part it holds is ahead of its        *)
(* cursor, as it is, or accounted for (PartInv), because a takeover        *)
(* numbers what it found held and takes the next numbers of the counter    *)
(* (TakeoverInv).                                                          *)
(***************************************************************************)
EXTENDS Files, ArticleImport, FiniteSetTheorems, WellFoundedInduction, TLAPS

\* Bytes that are there, or will be moved back.
Here(h) == stored[h] # "none" \/ (aside = h /\ asideNew)

PutInv == \A q \in Request : pc[q] = "put" =>
             stored[file[q]] = "new" \/ (aside = file[q] /\ asideNew)

SweepInv ==
    /\ asideNew => aside # NoHash
    /\ aside # NoHash => stored[aside] # "old"
    /\ sweep = "idle" => unheld = {}
    /\ \A h \in unheld : stored[h] = "old" => \A t \in Tenant : <<t, h>> \notin row

NamedInv ==
    /\ \A d \in gone : d \in Photo /\ named[d] = {} /\ receipt[d] = "applied"
    /\ \A d \in Doc : \A h \in named[d] : <<TenantOf[d], h>> \in row

StoreInv == PutInv /\ SweepInv /\ NamedInv

RowHeld == \A t \in Tenant, h \in Hash : <<t, h>> \in row => Here(h)

\* The row of a file a photo names is there, unless it was let go of or erased.
Settled(h) == <<Ours, h>> \in row \/ <<Ours, h>> \in erased \/ h \in letGo

DeviceInv ==
    /\ ~mayWait => waiting = {}
    /\ \A d \in Photo : \A h \in kept[d] : h \in waiting \/ Settled(h)
    /\ \A d \in outbox : \A h \in FilesOf[d] : h \in waiting \/ Settled(h)
    /\ \A d \in sending : \A h \in FilesOf[d] : Settled(h)
    /\ NeverAheadOfItsFile

IInv == TypeOK /\ StoreInv /\ DeviceInv

\* What is shown of each step.
Stays == IInv' /\ (~EndsAside /\ RowHeld => RowHeld')

-----------------------------------------------------------------------------
(* What the steps share. *)

LEMMA DocFacts ==
  /\ \A d \in Photo : d \in Doc /\ TenantOf[d] = Ours
  /\ \A d \in Paper : d \in Doc /\ d \notin Photo
  /\ \A d \in Doc : TenantOf[d] \in Tenant /\ FilesOf[d] \in SUBSET Hash /\ FilesOf[d] # {}
  /\ NoHash \notin Hash /\ NoDoc \notin Doc /\ NoRequest \notin Request
BY FilesAssumption DEF Doc

\* A step that leaves the store, the rows, the requests and the sweep alone.
LEMMA StoreStays ==
  ASSUME StoreInv, UNCHANGED <<stored, database, requests, sweeper>>
  PROVE  StoreInv' /\ (RowHeld => RowHeld')
BY DEF StoreInv, PutInv, SweepInv, NamedInv, RowHeld, Here, database, requests, sweeper

\* What a step must keep of the device: a file leaves the list only where it is
\* settled, and a version goes up only with its files settled.
LEMMA DeviceOn ==
  ASSUME DeviceInv, sending \subseteq outbox, outbox \subseteq Photo,
         erased \subseteq erased', letGo \subseteq letGo', row \subseteq row' \cup erased',
         \A h \in waiting : h \in waiting' \/ Settled(h)',
         \A d \in Photo : \A h \in kept'[d] : h \in kept[d] \/ h \in waiting',
         \A d \in outbox' : d \in outbox \/ (d \in Photo /\ kept[d] = FilesOf[d]),
         \A d \in sending' : d \in sending \/ \A h \in FilesOf[d] : Settled(h),
         ~mayWait' => waiting' = {},
         \A d \in Photo : receipt'[d] = "record_missing" =>
            \/ receipt[d] = "record_missing"
            \/ \E h \in FilesOf[d] : h \in letGo' \/ <<TenantOf[d], h>> \in erased'
  PROVE  DeviceInv'
<1>1. \A h : Settled(h) => Settled(h)'
  BY DEF Settled
<1>2. \A d \in Photo : \A h \in kept'[d] : h \in waiting' \/ Settled(h)'
  BY <1>1 DEF DeviceInv
<1>3. \A d \in outbox' : \A h \in FilesOf[d] : h \in waiting' \/ Settled(h)'
  BY <1>1 DEF DeviceInv
<1>4. \A d \in sending' : \A h \in FilesOf[d] : Settled(h)'
  BY <1>1 DEF DeviceInv
<1>5. NeverAheadOfItsFile'
  BY DEF DeviceInv, NeverAheadOfItsFile
<1> QED
  BY <1>2, <1>3, <1>4, <1>5 DEF DeviceInv

\* A step of the server: the device keeps what it has, rows come or go erased.
LEMMA DeviceStays ==
  ASSUME DeviceInv, TypeOK, UNCHANGED <<kept, outbox, waiting, mayWait, receipt, letGo>>,
         sending' \subseteq sending, erased \subseteq erased', row \subseteq row' \cup erased'
  PROVE  DeviceInv'
BY DeviceOn DEF TypeOK, DeviceInv

LEMMA Free ==
  ASSUME NEW q \in Request, q = FreeRequest
  PROVE  pc[q] = "idle"
BY DocFacts DEF FreeRequest

-----------------------------------------------------------------------------
(* The device. *)

LEMMA NextKeepFile ==
  ASSUME IInv, NEW d \in Photo, NEW h \in Hash, KeepFile(d, h)
  PROVE  Stays
<1>1. TypeOK'
  BY DEF IInv, TypeOK, KeepFile, database, requests, sweeper, history
<1>2. StoreInv' /\ (RowHeld => RowHeld')
  BY StoreStays DEF IInv, KeepFile
<1>3. DeviceInv'
  BY DeviceOn DEF IInv, TypeOK, KeepFile, database, history
<1> QED
  BY <1>1, <1>2, <1>3 DEF IInv, Stays

LEMMA NextQueueVersion ==
  ASSUME IInv, NEW d \in Photo, QueueVersion(d)
  PROVE  Stays
<1>1. TypeOK'
  BY DEF IInv, TypeOK, QueueVersion, database, requests, sweeper, exchange, history
<1>2. StoreInv' /\ (RowHeld => RowHeld')
  BY StoreStays DEF IInv, QueueVersion
<1>3. DeviceInv'
  BY DeviceOn DEF IInv, DeviceInv, TypeOK, QueueVersion, database, exchange, history
<1> QED
  BY <1>1, <1>2, <1>3 DEF IInv, Stays

\* The versions that go up have their files settled.
LEMMA Sends ==
  ASSUME IInv, NEW versions, versions \subseteq outbox, Send(versions),
         \A d \in versions : FilesOf[d] \cap waiting = {},
         UNCHANGED <<stored, database, requests, sweeper, onDevice, history>>,
         mayWait' \in BOOLEAN, ~mayWait' => waiting = {}
  PROVE  Stays
<1>1. TypeOK'
  BY DEF IInv, TypeOK, Send, database, requests, sweeper, onDevice, history
<1>2. StoreInv' /\ (RowHeld => RowHeld')
  BY StoreStays DEF IInv
<1>3. DeviceInv'
  <2>1. \A d \in versions : \A h \in FilesOf[d] : Settled(h)
    BY DEF IInv, DeviceInv
  <2> QED
    BY <2>1, DeviceOn DEF IInv, TypeOK, Send, database, onDevice, history
<1> QED
  BY <1>1, <1>2, <1>3 DEF IInv, Stays

\* The exchange goes on, or ends, and no version goes up with it.
LEMMA ExchangeStays ==
  ASSUME IInv, UNCHANGED <<stored, database, requests, sweeper, onDevice, letGo>>,
         mishaps' \in 0 .. MaxMishaps, step' \in {"idle", "upload", "push", "sending"},
         uploads' \subseteq Hash, awaits' \in Request \cup {NoRequest}, sending' \subseteq sending,
         mayWait' \in BOOLEAN, ~mayWait' => waiting = {}
  PROVE  Stays
<1>1. TypeOK'
  BY DEF IInv, TypeOK, database, requests, sweeper, onDevice
<1>2. StoreInv' /\ (RowHeld => RowHeld')
  BY StoreStays DEF IInv
<1>3. DeviceInv'
  BY DeviceOn DEF IInv, TypeOK, database, onDevice
<1> QED
  BY <1>1, <1>2, <1>3 DEF IInv, Stays

LEMMA NextStartExchange ==
  ASSUME IInv, StartExchange
  PROVE  Stays
<1>1. CASE mayWait
  BY <1>1, ExchangeStays DEF StartExchange, IInv, TypeOK, onDevice, history
<1>2. CASE ~mayWait
  <2>1. waiting = {} /\ Send(outbox)
    BY <1>2 DEF StartExchange, IInv, DeviceInv
  <2> QED
    BY <1>2, <2>1, Sends DEF StartExchange, IInv, TypeOK
<1> QED
  BY <1>1, <1>2 DEF IInv, TypeOK

LEMMA NextUploadsDone ==
  ASSUME IInv, UploadsDone
  PROVE  Stays
<1>1. CASE waiting = {}
  BY <1>1, Sends DEF UploadsDone
<1>2. CASE waiting # {}
  BY <1>2, ExchangeStays DEF UploadsDone, IInv, TypeOK, history
<1> QED
  BY <1>1, <1>2

LEMMA NextReady ==
  ASSUME IInv, Ready
  PROVE  Stays
BY Sends DEF Ready, NamesAWaitingFile, IInv, DeviceInv, TypeOK

\* An exchange that stops, by a mishap.
LEMMA NextStops ==
  ASSUME IInv, TransmitLost \/ UploadGivenUp
  PROVE  Stays
<1>1. mishaps' \in 0 .. MaxMishaps
  BY FilesAssumption DEF IInv, TypeOK, TransmitLost, UploadGivenUp, Mishap
<1> QED
  BY <1>1, ExchangeStays DEF TransmitLost, UploadGivenUp, Stopped, IInv, TypeOK, DeviceInv

LEMMA NextPageClosed ==
  ASSUME IInv, PageClosed
  PROVE  Stays
<1>1. TypeOK'
  BY FilesAssumption
  DEF IInv, TypeOK, PageClosed, Mishap, Stopped, database, requests, sweeper
<1>2. StoreInv' /\ (RowHeld => RowHeld')
  BY StoreStays DEF IInv, PageClosed
<1>3. DeviceInv'
  BY DeviceOn DEF IInv, TypeOK, PageClosed, Stopped, database
<1> QED
  BY <1>1, <1>2, <1>3 DEF IInv, Stays

LEMMA NextRefusedForGood ==
  ASSUME IInv, NEW h \in Hash, RefusedForGood(h)
  PROVE  Stays
<1>1. TypeOK'
  BY FilesAssumption
  DEF IInv, TypeOK, RefusedForGood, FileSent, Mishap, database, requests, sweeper
<1>2. StoreInv' /\ (RowHeld => RowHeld')
  BY StoreStays DEF IInv, RefusedForGood
<1>3. DeviceInv'
  BY DeviceOn DEF IInv, DeviceInv, TypeOK, RefusedForGood, FileSent, Settled, database
<1> QED
  BY <1>1, <1>2, <1>3 DEF IInv, Stays

\* A version decided about: applied it names its files, and their rows are
\* there; refused over a file, that file is none of those the device settled.
LEMMA Decides ==
  ASSUME IInv, NEW d \in sending, Decide(d)
  PROVE  /\ receipt' \in [Photo -> {"none", "applied", "record_missing"}]
         /\ named' \in [Doc -> SUBSET Hash]
         /\ \A e \in Doc : named'[e] = named[e] \/ \A h \in named'[e] : <<TenantOf[e], h>> \in row
         /\ \A e \in gone : e \in Photo /\ named'[e] = {} /\ receipt'[e] = "applied"
         /\ \A e \in Photo : receipt'[e] = "record_missing" =>
               \/ receipt[e] = "record_missing"
               \/ \E h \in FilesOf[e] : h \in letGo \/ <<TenantOf[e], h>> \in erased
<1>1. d \in Photo /\ d \in Doc /\ TenantOf[d] = Ours /\ FilesOf[d] \subseteq Hash
  BY DocFacts DEF IInv, TypeOK
<1>2. gone \subseteq Doc /\ Photo \subseteq Doc
  BY DEF IInv, TypeOK, Doc
<1>3. CASE receipt[d] # "none"
  BY <1>2, <1>3 DEF Decide, IInv, TypeOK, StoreInv, NamedInv
<1>4. CASE receipt[d] = "none" /\ RowsThere(d)
  <2>1. d \notin gone
    BY <1>4 DEF IInv, StoreInv, NamedInv
  <2> QED
    BY <1>1, <1>2, <1>4, <2>1 DEF Decide, RowsThere, IInv, TypeOK, StoreInv, NamedInv
<1>5. CASE receipt[d] = "none" /\ ~RowsThere(d)
  <2>1. \E h \in FilesOf[d] : h \in letGo \/ <<TenantOf[d], h>> \in erased
    BY <1>1, <1>5 DEF RowsThere, IInv, DeviceInv, Settled
  <2> QED
    BY <1>1, <1>2, <1>5, <2>1 DEF Decide, IInv, TypeOK, StoreInv, NamedInv
<1> QED
  BY <1>3, <1>4, <1>5

\* A transmission that reaches the server, whether or not its answer comes back.
LEMMA Transmitted ==
  ASSUME IInv, NEW d \in sending, Decide(d),
         UNCHANGED <<stored, row, gone, erased, requests, sweeper, kept, waiting, mayWait, letGo>>,
         mishaps' \in 0 .. MaxMishaps, step' \in {"idle", "upload", "push", "sending"},
         uploads' \subseteq Hash, awaits' \in Request \cup {NoRequest},
         outbox' \subseteq outbox, sending' \subseteq sending \cap outbox'
  PROVE  Stays
<1>1. TypeOK'
  BY Decides DEF IInv, TypeOK, requests, sweeper
<1>2. NamedInv'
  BY Decides DEF IInv, TypeOK, StoreInv, NamedInv
<1>3. StoreInv' /\ (RowHeld => RowHeld')
  BY <1>2 DEF IInv, StoreInv, PutInv, SweepInv, RowHeld, Here, requests, sweeper
<1>4. DeviceInv'
  BY Decides, DeviceOn DEF IInv, DeviceInv, TypeOK
<1> QED
  BY <1>1, <1>3, <1>4 DEF IInv, Stays

LEMMA NextTransmitAnswered ==
  ASSUME IInv, NEW d \in Photo, TransmitAnswered(d)
  PROVE  Stays
BY Transmitted DEF TransmitAnswered, IInv, TypeOK, history

LEMMA NextTransmitAnswerLost ==
  ASSUME IInv, NEW d \in Photo, TransmitAnswerLost(d)
  PROVE  Stays
<1>1. mishaps' \in 0 .. MaxMishaps
  BY FilesAssumption DEF IInv, TypeOK, TransmitAnswerLost, Mishap
<1> QED
  BY <1>1, Transmitted DEF TransmitAnswerLost, Stopped, IInv, TypeOK, onDevice

-----------------------------------------------------------------------------
(* Requests on the server. *)

\* A step of requests that puts and erases nothing, and leaves the sweep alone.
LEMMA RequestStays ==
  ASSUME IInv, UNCHANGED <<stored, database, sweeper, onDevice, mayWait, letGo>>,
         mishaps' \in 0 .. MaxMishaps, step' \in {"idle", "upload", "push", "sending"},
         uploads' \subseteq Hash, awaits' \in Request \cup {NoRequest}, sending' \subseteq sending,
         pc' \in [Request -> {"idle", "found", "writing", "put"}],
         file' \in [Request -> Hash \cup {NoHash}], doc' \in [Request -> Paper \cup {NoDoc}],
         \A q \in Request : pc'[q] = "idle" <=> file'[q] = NoHash,
         \A q \in Request : pc'[q] = "put" => pc[q] = "put" /\ file'[q] = file[q]
  PROVE  Stays
<1>1. TypeOK'
  BY DEF IInv, TypeOK, database, sweeper, onDevice
<1>2. StoreInv' /\ (RowHeld => RowHeld')
  BY DEF IInv, StoreInv, PutInv, SweepInv, NamedInv, RowHeld, Here, database, sweeper
<1>3. DeviceInv'
  BY DeviceStays DEF IInv, database, onDevice
<1> QED
  BY <1>1, <1>2, <1>3 DEF IInv, Stays

LEMMA NextStartUpload ==
  ASSUME IInv, NEW q \in Request, NEW h \in Hash, StartUpload(q, h)
  PROVE  Stays
<1>1. pc[q] = "idle"
  BY Free DEF StartUpload
<1> QED
  BY <1>1, DocFacts, RequestStays DEF StartUpload, Put, IInv, TypeOK, history

LEMMA NextStartPaper ==
  ASSUME IInv, NEW q \in Request, NEW d \in Paper, StartPaper(q, d)
  PROVE  Stays
<1>1. pc[q] = "idle"
  BY Free DEF StartPaper
<1>2. FilesOf[d] \subseteq Hash
  BY DocFacts
<1> QED
  BY <1>1, <1>2, DocFacts, RequestStays DEF StartPaper, Put, IInv, TypeOK, exchange, history

\* What a request has put is new.
LEMMA Puts ==
  ASSUME IInv, NEW q \in Request, pc[q] \in {"found", "writing"},
         stored' = [stored EXCEPT ![file[q]] = "new"], pc' = [pc EXCEPT ![q] = "put"],
         UNCHANGED <<database, file, doc, sweeper, onDevice, exchange, history>>
  PROVE  Stays
<1>1. file[q] \in Hash
  BY DEF IInv, TypeOK
<1>2. TypeOK'
  BY <1>1 DEF IInv, TypeOK, database, sweeper, onDevice, exchange, history
<1>3. StoreInv'
  BY <1>1 DEF IInv, TypeOK, StoreInv, PutInv, SweepInv, NamedInv, database, sweeper
<1>4. RowHeld => RowHeld'
  BY <1>1 DEF IInv, TypeOK, RowHeld, Here, database, sweeper
<1>5. DeviceInv'
  BY DeviceStays DEF IInv, database, onDevice, exchange, history
<1> QED
  BY <1>2, <1>3, <1>4, <1>5 DEF IInv, Stays

LEMMA NextRenew ==
  ASSUME IInv, NEW q \in Request, Renew(q)
  PROVE  Stays
<1>1. CASE stored[file[q]] # "none"
  BY <1>1, Puts DEF Renew, Touch
<1>2. CASE stored[file[q]] = "none"
  BY <1>2, DocFacts, RequestStays
  DEF Renew, Idle, Stopped, IInv, TypeOK, onDevice, exchange, history
<1> QED
  BY <1>1, <1>2

LEMMA NextWrite ==
  ASSUME IInv, NEW q \in Request, Write(q)
  PROVE  Stays
BY Puts DEF Write

\* A row is written for a file that is put.
LEMMA RowOfPut ==
  ASSUME IInv, NEW q \in Request, pc[q] = "put", NEW t \in Tenant,
         row' = row \cup {<<t, file[q]>>}, UNCHANGED <<stored, sweeper>>,
         Idle(q), NamedInv'
  PROVE  StoreInv' /\ (RowHeld => RowHeld')
<1>1. stored[file[q]] = "new" \/ (aside = file[q] /\ asideNew)
  BY DEF IInv, StoreInv, PutInv
<1>2. PutInv'
  BY DEF IInv, TypeOK, StoreInv, PutInv, Idle, sweeper
<1>3. SweepInv'
  BY <1>1 DEF IInv, StoreInv, SweepInv, sweeper
<1>4. RowHeld => RowHeld'
  BY <1>1 DEF RowHeld, Here, sweeper
<1> QED
  BY <1>2, <1>3, <1>4 DEF StoreInv

LEMMA NextRowOfUpload ==
  ASSUME IInv, NEW q \in Request, RowOfUpload(q)
  PROVE  Stays
<1>1. /\ pc[q] = "put" /\ file[q] \in Hash /\ Idle(q)
      /\ row' = row \cup {<<Ours, file[q]>>} /\ <<Ours, file[q]>> \in row'
      /\ UNCHANGED <<stored, named, gone, receipt, erased, sweeper, kept, outbox, mayWait, step,
                     sending, history>>
  BY DEF RowOfUpload, IInv, TypeOK
<1>2. /\ awaits' \in Request \cup {NoRequest} /\ uploads' \subseteq Hash
      /\ waiting' \subseteq waiting /\ waiting \subseteq waiting' \cup {file[q]}
  BY DEF RowOfUpload, FileSent, IInv, TypeOK
<1>3. Ours \in Tenant
  BY FilesAssumption
<1>4. TypeOK'
  BY <1>1, <1>2, <1>3, DocFacts DEF Idle, IInv, TypeOK, sweeper, history
<1>5. NamedInv'
  BY <1>1 DEF IInv, StoreInv, NamedInv
<1>6. StoreInv' /\ (RowHeld => RowHeld')
  BY <1>1, <1>3, <1>5, RowOfPut
<1>7. DeviceInv'
  <2>1. \A h \in waiting : h \in waiting' \/ Settled(h)'
    BY <1>1, <1>2 DEF Settled
  <2> QED
    BY <1>1, <1>2, <2>1, DeviceOn DEF IInv, DeviceInv, TypeOK, history
<1> QED
  BY <1>4, <1>6, <1>7 DEF IInv, Stays

LEMMA NextRowOfPaper ==
  ASSUME IInv, NEW q \in Request, RowOfPaper(q)
  PROVE  Stays
<1> DEFINE d == doc[q]
<1>1. /\ d \in Paper /\ d \in Doc /\ d \notin Photo /\ TenantOf[d] \in Tenant
      /\ pc[q] = "put" /\ file[q] \in Hash /\ Idle(q)
      /\ UNCHANGED <<stored, gone, receipt, erased, sweeper, onDevice, exchange, history>>
  BY DocFacts DEF RowOfPaper, IInv, TypeOK
<1>2. CASE named[d] = {} /\ row' = row \cup {<<TenantOf[d], file[q]>>}
           /\ named' = [named EXCEPT ![d] = {file[q]}]
  <2>1. TypeOK'
    BY <1>1, <1>2, DocFacts DEF Idle, IInv, TypeOK, sweeper, onDevice, exchange, history
  <2>2. d \notin gone
    BY <1>1 DEF IInv, StoreInv, NamedInv
  <2>3. NamedInv'
    BY <1>1, <1>2, <2>2 DEF IInv, TypeOK, StoreInv, NamedInv
  <2>4. StoreInv' /\ (RowHeld => RowHeld')
    BY <1>1, <1>2, <2>3, RowOfPut
  <2>5. DeviceInv'
    BY <1>1, <1>2, DeviceStays DEF IInv, onDevice, exchange, history
  <2> QED
    BY <2>1, <2>4, <2>5 DEF IInv, Stays
<1>3. CASE UNCHANGED <<row, named>>
  BY <1>1, <1>3, DocFacts, RequestStays
  DEF Idle, IInv, TypeOK, database, onDevice, exchange, history
<1> QED
  BY <1>2, <1>3 DEF RowOfPaper

-----------------------------------------------------------------------------
(* Erasure, and the sweep of the store. *)

LEMMA NextErase ==
  ASSUME IInv, NEW d \in Photo, Erase(d)
  PROVE  Stays
<1> DEFINE Names(e) == TenantOf[e] = TenantOf[d] /\ e # d /\ e \notin gone
           theirs == {h \in named[d] : ~\E e \in Doc : Names(e) /\ h \in named[e]}
<1>1. /\ d \in Doc /\ TenantOf[d] \in Tenant /\ theirs \subseteq Hash
      /\ receipt[d] = "applied"
      /\ row' = row \ ({TenantOf[d]} \X theirs)
      /\ erased' = erased \cup ({TenantOf[d]} \X theirs)
      /\ named' = [named EXCEPT ![d] = {}] /\ gone' = gone \cup {d}
      /\ UNCHANGED <<stored, receipt, requests, sweeper, onDevice, exchange, history>>
  BY DocFacts DEF Erase, IInv, TypeOK
<1>2. \A e \in Doc, h \in Hash : h \in named'[e] => <<TenantOf[e],
    h>> \notin {TenantOf[d]} \X theirs
  BY <1>1 DEF IInv, TypeOK, StoreInv, NamedInv
<1> HIDE DEF theirs
<1>3. TypeOK'
  BY <1>1 DEF IInv, TypeOK, requests, sweeper, onDevice, exchange, history
<1>4. NamedInv'
  BY <1>1, <1>2, <1>3 DEF IInv, TypeOK, StoreInv, NamedInv
<1>5. StoreInv' /\ (RowHeld => RowHeld')
  BY <1>1, <1>4 DEF IInv, StoreInv, PutInv, SweepInv, RowHeld, Here, requests, sweeper
<1>6. DeviceInv'
  BY <1>1, DeviceStays DEF IInv, onDevice, exchange, history
<1> QED
  BY <1>3, <1>5, <1>6 DEF IInv, Stays

\* A step of the store alone.
LEMMA StoreMoves ==
  ASSUME IInv, UNCHANGED <<database, requests, onDevice, exchange, history>>,
         stored' \in [Hash -> {"none", "old", "new"}],
         sweep' \in {"idle", "running", "aside"}, todo' \subseteq Hash, unheld' \subseteq Hash,
         aside' \in Hash \cup {NoHash}, aside' = NoHash <=> sweep' # "aside",
         asideNew' \in BOOLEAN, PutInv', SweepInv', RowHeld => RowHeld'
  PROVE  Stays
<1>1. TypeOK'
  BY DEF IInv, TypeOK, database, requests, onDevice, exchange, history
<1>2. NamedInv'
  BY DEF IInv, StoreInv, NamedInv, database
<1>3. DeviceInv'
  BY DeviceStays DEF IInv, database, onDevice, exchange, history
<1> QED
  BY <1>1, <1>2, <1>3 DEF IInv, StoreInv, Stays

LEMMA NextTurnsOld ==
  ASSUME IInv, NEW h \in Hash, TurnsOld(h)
  PROVE  Stays
<1>1. PutInv' /\ SweepInv'
  BY DocFacts
  DEF TurnsOld, IInv, TypeOK, StoreInv, PutInv, SweepInv, database, requests, sweeper
<1>2. RowHeld => RowHeld'
  BY DEF TurnsOld, IInv, TypeOK, RowHeld, Here, database, sweeper
<1> QED
  BY <1>1, <1>2, StoreMoves DEF TurnsOld, IInv, TypeOK, sweeper

\* The sweep goes on and moves nothing.
LEMMA SweepMoves ==
  ASSUME IInv, UNCHANGED <<stored, database, requests, aside, asideNew, onDevice, exchange,
      history>>,
         sweep # "aside", sweep' \in {"idle", "running"}, todo' \subseteq Hash,
         unheld' \subseteq Hash, sweep' = "idle" => unheld' = {},
         \A h \in unheld' : stored[h] = "old" => \A t \in Tenant : <<t, h>> \notin row
  PROVE  Stays
<1>1. PutInv' /\ SweepInv'
  BY DEF IInv, StoreInv, PutInv, SweepInv, database, requests
<1>2. RowHeld => RowHeld'
  BY DEF RowHeld, Here, database
<1> QED
  BY <1>1, <1>2, StoreMoves DEF IInv, TypeOK

LEMMA NextSweepStart ==
  ASSUME IInv, SweepStart
  PROVE  Stays
BY SweepMoves DEF SweepStart, IInv, TypeOK, StoreInv, SweepInv

LEMMA NextAsk ==
  ASSUME IInv, Ask
  PROVE  Stays
<1>1. PICK batch \in SUBSET todo : todo' = todo \ batch /\ unheld' = batch \ FilesHeld(batch)
  BY DEF Ask
<1>2. \A h \in unheld', t \in Tenant : <<t, h>> \notin row
  BY <1>1 DEF FilesHeld
<1> QED
  BY <1>1, <1>2, SweepMoves DEF Ask, IInv, TypeOK

LEMMA NextSweepEnds ==
  ASSUME IInv, SweepEnds
  PROVE  Stays
BY SweepMoves DEF SweepEnds, IInv, TypeOK

\* What is moved aside is old and nobody's, or new and to be moved back.
LEMMA NextTakeOut ==
  ASSUME IInv, NEW h \in Hash, TakeOut(h)
  PROVE  Stays
<1>1. sweep = "running" /\ aside = NoHash /\ ~asideNew /\ h \in unheld /\ unheld' = unheld \ {h}
  BY DEF TakeOut, IInv, TypeOK, StoreInv, SweepInv
<1>2. CASE stored[h] = "none"
  BY <1>1, <1>2, SweepMoves DEF TakeOut, IInv, TypeOK, StoreInv, SweepInv
<1>3. CASE stored[h] # "none"
  <2>1. /\ stored' = [stored EXCEPT ![h] = "none"] /\ sweep' = "aside" /\ aside' = h
        /\ asideNew' = (stored[h] = "new")
        /\ UNCHANGED <<database, requests, todo, onDevice, exchange, history>>
    BY <1>3 DEF TakeOut
  <2>2. PutInv'
    BY <1>1, <2>1, DocFacts DEF IInv, TypeOK, StoreInv, PutInv, requests
  <2>3. SweepInv'
    BY <1>1, <2>1, DocFacts DEF IInv, TypeOK, StoreInv, SweepInv, database
  <2>4. RowHeld => RowHeld'
    BY <1>1, <1>3, <2>1 DEF IInv, TypeOK, StoreInv, SweepInv, RowHeld, Here, database
  <2> QED
    BY <1>1, <2>1, <2>2, <2>3, <2>4, DocFacts, StoreMoves DEF IInv, TypeOK
<1> QED
  BY <1>2, <1>3

LEMMA NextPutBack ==
  ASSUME IInv, PutBack
  PROVE  Stays
<1>1. aside \in Hash
  BY DEF PutBack, IInv, TypeOK
<1>2. PutInv' /\ SweepInv'
  BY <1>1 DEF PutBack, IInv, TypeOK, StoreInv, PutInv, SweepInv, database, requests
<1>3. RowHeld => RowHeld'
  BY <1>1 DEF PutBack, IInv, TypeOK, RowHeld, Here, database
<1> QED
  BY <1>1, <1>2, <1>3, StoreMoves DEF PutBack, IInv, TypeOK

LEMMA NextRemoveAside ==
  ASSUME IInv, RemoveAside
  PROVE  Stays
<1>1. PutInv' /\ SweepInv'
  BY DEF RemoveAside, IInv, TypeOK, StoreInv, PutInv, SweepInv, database, requests
<1>2. RowHeld => RowHeld'
  BY DEF RemoveAside, RowHeld, Here, database
<1> QED
  BY <1>1, <1>2, StoreMoves DEF RemoveAside, IInv, TypeOK

\* The one step that may lose what a row names, and only where the process ends aside.
LEMMA NextProcessEnds ==
  ASSUME IInv, ProcessEnds
  PROVE  Stays
<1>1. TypeOK'
  <2>1. mishaps' \in 0 .. MaxMishaps
    BY FilesAssumption DEF ProcessEnds, Mishap, IInv, TypeOK
  <2>2. /\ step' \in {"idle", "upload", "push", "sending"} /\ uploads' \subseteq Hash
        /\ awaits' \in Request \cup {NoRequest} /\ sending' \subseteq sending
    BY DEF ProcessEnds, Stopped, IInv, TypeOK
  <2> QED
    BY <2>1, <2>2 DEF ProcessEnds, IInv, TypeOK, database, onDevice
<1>2. StoreInv'
  BY DEF ProcessEnds, IInv, StoreInv, PutInv, SweepInv, NamedInv, database
<1>3. ~EndsAside /\ RowHeld => RowHeld'
  BY DEF ProcessEnds, RowHeld, Here, database
<1>4. DeviceInv'
  BY DeviceStays DEF ProcessEnds, Stopped, IInv, TypeOK, database, onDevice
<1> QED
  BY <1>1, <1>2, <1>3, <1>4 DEF IInv, Stays

-----------------------------------------------------------------------------
(* The theorems. *)

LEMMA InitInv == Init => IInv /\ RowHeld
<1> SUFFICES ASSUME Init PROVE IInv /\ RowHeld
  OBVIOUS
<1>1. TypeOK
  <2>1. mishaps \in 0 .. MaxMishaps
    BY FilesAssumption DEF Init
  <2>2. \A q \in Request : pc[q] = "idle" <=> file[q] = NoHash
    BY DEF Init
  <2> QED
    BY <2>1, <2>2 DEF Init, TypeOK
<1>2. StoreInv /\ RowHeld
  BY DocFacts DEF Init, StoreInv, PutInv, SweepInv, NamedInv, RowHeld
<1>3. DeviceInv
  BY DEF Init, DeviceInv, NeverAheadOfItsFile
<1> QED
  BY <1>1, <1>2, <1>3 DEF IInv

LEMMA NextInv ==
  ASSUME IInv, [Next]_vars
  PROVE  Stays
<1>1. CASE UNCHANGED vars
  <2>1. TypeOK'
    BY <1>1 DEF IInv, TypeOK, vars, database, requests, sweeper, onDevice, exchange, history
  <2>2. StoreInv' /\ (RowHeld => RowHeld')
    BY <1>1, StoreStays DEF IInv, vars
  <2>3. DeviceInv'
    BY <1>1, DeviceStays DEF IInv, vars, database, onDevice, exchange, history
  <2> QED
    BY <2>1, <2>2, <2>3 DEF IInv, Stays
<1>2. CASE Device
  <2>1. CASE \E d \in Photo, h \in Hash : KeepFile(d, h)
    BY <2>1, NextKeepFile
  <2>2. CASE \E d \in Photo : QueueVersion(d) \/ TransmitAnswered(d) \/ TransmitAnswerLost(d)
    BY <2>2, NextQueueVersion, NextTransmitAnswered, NextTransmitAnswerLost
  <2>3. CASE \E h \in Hash : RefusedForGood(h)
    BY <2>3, NextRefusedForGood
  <2>4. CASE \E q \in Request, h \in Hash : StartUpload(q, h)
    BY <2>4, NextStartUpload
  <2>5. CASE StartExchange \/ UploadsDone \/ Ready \/ TransmitLost \/ UploadGivenUp \/ PageClosed
    BY <2>5, NextStartExchange, NextUploadsDone, NextReady, NextStops, NextPageClosed
  <2> QED
    BY <1>2, <2>1, <2>2, <2>3, <2>4, <2>5 DEF Device
<1>3. CASE Sweep
  BY <1>3, NextSweepStart, NextAsk, NextPutBack, NextRemoveAside, NextSweepEnds, NextTakeOut
     DEF Sweep
<1>4. CASE \E q \in Request : Serve(q) \/ \E d \in Paper : StartPaper(q, d)
  BY <1>4, NextRenew, NextWrite, NextRowOfUpload, NextRowOfPaper, NextStartPaper DEF Serve
<1>5. CASE ProcessEnds \/ (\E d \in Photo : Erase(d)) \/ (\E h \in Hash : TurnsOld(h))
  BY <1>5, NextProcessEnds, NextErase, NextTurnsOld
<1> QED
  BY <1>1, <1>2, <1>3, <1>4, <1>5 DEF Next

LEMMA Invariant == Spec => []IInv
<1>1. IInv /\ [Next]_vars => IInv'
  BY NextInv DEF Stays
<1> QED
  BY <1>1, InitInv, PTL DEF Spec

\* Requests, the sweep and the exchange keep to their states, and what goes up
\* is still in the outbox (files/store.ts, files/controller.ts, sync/client.ts).
THEOREM TypeCorrect == Spec => []TypeOK
<1>1. IInv => TypeOK
  BY DEF IInv
<1> QED
  BY <1>1, Invariant, PTL

\* As long as the process does not end with a file aside that it means to move
\* back, no row is without its bytes and what stands has its rows, whatever is
\* put, printed or erased while the sweep asks and removes (FileStore.sweep, files/store.ts).
THEOREM NothingNamedIsSwept ==
  ASSUME EndsAside = FALSE
  PROVE  Spec => []KeepsWhatIsNamed
<1>1. IInv /\ RowHeld /\ [Next]_vars => (IInv /\ RowHeld)'
  BY NextInv DEF Stays
<1>2. IInv /\ RowHeld => KeepsWhatIsNamed
  BY DEF IInv, StoreInv, NamedInv, RowHeld, Here, KeepsWhatIsNamed
<1> QED
  BY <1>1, <1>2, InitInv, PTL DEF Spec

\* Whether or not it ends so: a version is answered with a conflict over its file
\* only where the file was refused for good or erased, whichever requests are
\* lost and whenever the page is closed (ready, sync/client.ts).
THEOREM FilesGoFirst == Spec => []NeverAheadOfItsFile
<1>1. IInv => NeverAheadOfItsFile
  BY DEF IInv, DeviceInv
<1> QED
  BY <1>1, Invariant, PTL

-----------------------------------------------------------------------------
(* The rows an import writes past the stamp. *)

\* What is in line runs, so there is one job at most.
LineInv == \A n \in 1 .. Len(queue) : status[queue[n][2]] \in Running

\* Numbers are reserved behind the counter, which is held from there on; what a
\* device holds, or asks for, was in the part the takeover read, or is accounted for.
TakeoverInv ==
    /\ at = "reserved" => first = counter + 1
    /\ at \in {"numbering", "reserved"} =>
          /\ used \subseteq held \cup late
          /\ noted \cup asked \subseteq held \cup late \cup away

\* What a device has of its part is as it is, still ahead of its cursor, or excused.
PartInv ==
    /\ ~told => cursor = 0
    /\ asking => Cardinality(asked) <= Limit
    /\ \A a \in noted : number[a] > cursor \/ copy[a] = price[a] \/ a \in excused

ImportInv ==
    /\ ImportsTypeOK /\ SaysWhatWasTaken
    /\ LineInv /\ TakeoverInv

\* One answer holds all the devices hold.
PartFits == Cardinality(used) <= Limit

\* A step keeps the first, and the second with it.
Kept == ImportInv' /\ (PartInv => PartInv')

-----------------------------------------------------------------------------
(* Numbers and pages. *)

\* A set of numbers with a bound has a greatest one.
LEMMA GreatestOfAll ==
  ASSUME NEW n \in Nat, NEW S \in SUBSET (0 .. n), S # {}
  PROVE  Max(S) \in S /\ \A m \in S : m <= Max(S)
<1> DEFINE Above == {x .. n : x \in S}
           Sub   == StrictSubsetOrdering(Nat)
<1>1. Above \subseteq FiniteSubsetsOf(Nat) /\ Above # {}
  <2>1. \A x \in S : IsFiniteSet(x .. n) /\ x .. n \in SUBSET Nat
    BY FS_Interval
  <2> QED
    BY <2>1 DEF FiniteSubsetsOf
<1>2. IsWellFoundedOn(Sub, FiniteSubsetsOf(Nat))
  BY FS_StrictSubsetOrderingWellFounded
<1>3. \E X \in Above : \A Y \in Above : ~(<<Y, X>> \in Sub)
  <2> HIDE DEF Above, Sub
  <2> QED
    BY <1>1, <1>2, WFMin
<1>4. PICK x \in S : \A y \in S : ~(<<y .. n, x .. n>> \in Sub)
  BY <1>3
<1>5. ASSUME NEW y \in S, ~(y <= x)
      PROVE  FALSE
  <2>1. y .. n \subseteq x .. n /\ x \in x .. n /\ x \notin y .. n
    BY <1>5
  <2>2. y .. n \in SUBSET Nat /\ x .. n \in SUBSET Nat
    BY <1>5
  <2> QED
    BY <1>4, <2>1, <2>2 DEF StrictSubsetOrdering
<1>6. \E y \in S : \A z \in S : y >= z
  <2>1. \A z \in S : x >= z
    BY <1>5
  <2> QED
    BY <2>1
<1>7. Max(S) \in S /\ \A m \in S : Max(S) >= m
  BY <1>6 DEF Max
<1> QED
  BY <1>7

\* Of two numbers the greater one is above both.
LEMMA Greater ==
  ASSUME NEW m \in Nat, NEW n \in Nat
  PROVE  Max({m, n}) \in Nat /\ Max({m, n}) >= m /\ Max({m, n}) >= n
BY DEF Max

\* An answer holds what is asked for and behind the cursor, or as much of it as
\* it may.
LEMMA PageOf ==
  ASSUME ImportInv, NEW page \in Page
  PROVE  LET behind == {a \in asked : number[a] > cursor}
         IN  /\ page \subseteq behind /\ Cardinality(page) \in Nat
             /\ Cardinality(page) = Limit => page # {}
             /\ PartInv /\ asking => page = behind
<1> DEFINE behind == {a \in asked : number[a] > cursor}
           size   == Cardinality(behind)
<1>1. IsFiniteSet(Article) /\ Limit \in Nat \ {0}
  BY ImportAssumption
<1>2. asked \in SUBSET Article /\ behind \in SUBSET asked
  BY DEF ImportInv, ImportsTypeOK
<1> HIDE DEF behind
<1>3. IsFiniteSet(asked) /\ Cardinality(asked) \in Nat
  BY <1>1, <1>2, FS_Subset, FS_CardinalityType
<1>4. IsFiniteSet(behind) /\ size \in Nat /\ size <= Cardinality(asked)
  BY <1>2, <1>3, FS_Subset, FS_CardinalityType
<1>5. page \in SUBSET behind /\ Cardinality(page) = Min({Limit, size})
  BY DEF Page, behind
<1>6. IsFiniteSet(page) /\ Cardinality(page) \in Nat
  BY <1>4, <1>5, FS_Subset, FS_CardinalityType
<1>7. Cardinality(page) = Limit => page # {}
  BY <1>1, FS_EmptySet
<1>8. ASSUME PartInv, asking PROVE page = behind
  <2>1. size <= Limit
    BY <1>1, <1>3, <1>4, <1>8 DEF PartInv
  <2> HIDE DEF size
  <2>2. Min({Limit, size}) = size
    BY <1>1, <1>4, <2>1 DEF Min
  <2>3. Cardinality(page) = Cardinality(behind)
    BY <1>5, <2>2 DEF size
  <2> QED
    BY <1>4, <1>5, <2>3, FS_Subset
<1> QED
  BY <1>5, <1>6, <1>7, <1>8 DEF behind

-----------------------------------------------------------------------------
(* Beside the import. *)

\* What joins while a takeover runs is accounted for.
LEMMA NextJoin ==
  ASSUME ImportInv, NEW a \in Article, Join(a)
  PROVE  Kept
<1>1. /\ changes' \in 0 .. MaxChanges /\ counter \in Nat \ {0} /\ counter' = counter + 1
      /\ used' = used \cup {a} /\ CounterFree
      /\ late' = IF at \in {"numbering", "reserved"} THEN late \cup {a} ELSE late
      /\ UNCHANGED <<status, price, number, process, device, taken, unmarked, away, excused,
          failures>>
  BY ImportAssumption DEF Join, Change, ImportInv, ImportsTypeOK
<1>2. number \in [Article -> 1 .. counter + 1] /\ cursor \in 0 .. counter + 1
  <2>1. \A b \in Article : number[b] \in 1 .. counter + 1
    BY <1>1 DEF ImportInv, ImportsTypeOK
  <2>2. number = [b \in Article |-> number[b]] /\ cursor \in 0 .. counter
    BY DEF ImportInv, ImportsTypeOK
  <2> QED
    BY <1>1, <2>1, <2>2
<1>3. ImportsTypeOK'
  <2>1. /\ used' \subseteq Article /\ counter' \in Nat \ {0}
        /\ number' \in [Article -> 1 .. counter'] /\ cursor' \in 0 .. counter'
        /\ late' \subseteq Article
    <3>1. used \subseteq Article /\ late \subseteq Article /\ cursor' = cursor
      BY <1>1 DEF ImportInv, ImportsTypeOK, device
    <3>2. counter' \in Nat \ {0} /\ used' \subseteq Article /\ late' \subseteq Article
      BY <1>1, <3>1
    <3> QED
      BY <1>1, <1>2, <3>1, <3>2
  <2>2. /\ UNCHANGED <<status, price, process, device, taken, unmarked, away, excused, failures>>
        /\ changes' \in 0 .. MaxChanges
    BY <1>1
  <2> QED
    BY <2>1, <2>2 DEF ImportInv, ImportsTypeOK, process, device
<1>4. TakeoverInv'
  BY <1>1 DEF ImportInv, TakeoverInv, process, device, CounterFree
<1> QED
  BY <1>1, <1>3, <1>4 DEF Kept, ImportInv, SaysWhatWasTaken, LineInv, PartInv, process, device

\* What leaves the part leaves nothing behind.
LEMMA NextLeave ==
  ASSUME ImportInv, NEW a \in Article, Leave(a)
  PROVE  Kept
<1>1. /\ changes' \in 0 .. MaxChanges /\ used' = used \ {a}
      /\ UNCHANGED <<status, price, number, counter, process, device, ghosts, failures>>
  BY ImportAssumption DEF Leave, Change, ImportInv, ImportsTypeOK
<1>2. ImportsTypeOK' /\ TakeoverInv'
  BY <1>1 DEF ImportInv, ImportsTypeOK, TakeoverInv, process, device, ghosts
<1> QED
  BY <1>1, <1>2 DEF Kept, ImportInv, SaysWhatWasTaken, LineInv, PartInv, process, device, ghosts

\* A price is set behind every cursor.
LEMMA NextSetPrice ==
  ASSUME ImportInv, NEW a \in Article, SetPrice(a)
  PROVE  Kept
<1>1. /\ changes' \in 0 .. MaxChanges /\ counter \in Nat \ {0} /\ counter' = counter + 1
      /\ CounterFree
      /\ price' = [price EXCEPT ![a] = price[a] + 1]
      /\ number' = [number EXCEPT ![a] = counter + 1]
      /\ excused' = excused \ {a}
      /\ UNCHANGED <<status, used, process, device, taken, unmarked, away, late, failures>>
  BY ImportAssumption DEF SetPrice, Change, ImportInv, ImportsTypeOK
<1>2. /\ number' \in [Article -> 1 .. counter + 1] /\ cursor \in 0 .. counter + 1
      /\ price' \in [Article -> Nat \ {0}]
      /\ \A b \in Article : b # a => number'[b] = number[b] /\ price'[b] = price[b]
      /\ number'[a] = counter + 1 /\ price'[a] = price[a] + 1
  <2>1. /\ number \in [Article -> 1 .. counter] /\ price \in [Article -> Nat \ {0}]
        /\ cursor \in 0 .. counter
    BY DEF ImportInv, ImportsTypeOK
  <2>2. \A b \in Article :
           /\ number'[b] = IF b = a THEN counter + 1 ELSE number[b]
           /\ price'[b] = IF b = a THEN price[b] + 1 ELSE price[b]
    BY <1>1, <2>1
  <2>3. \A b \in Article : number'[b] \in 1 .. counter + 1 /\ price'[b] \in Nat \ {0}
    BY <1>1, <2>1, <2>2
  <2>4. number' = [b \in Article |-> number'[b]] /\ price' = [b \in Article |-> price'[b]]
    BY <1>1, <2>1
  <2> QED
    BY <1>1, <2>1, <2>2, <2>3, <2>4
<1>3. \A b \in Article : copy[b] <= price'[b]
  <2>1. \A b \in Article : copy[b] \in Nat /\ price[b] \in Nat /\ copy[b] <= price[b]
    BY DEF ImportInv, ImportsTypeOK
  <2> QED
    BY <1>2, <2>1
<1>4. ImportsTypeOK'
  <2>1. /\ counter' \in Nat \ {0} /\ number' \in [Article -> 1 .. counter']
        /\ cursor' \in 0 .. counter'
        /\ price' \in [Article -> Nat \ {0}] /\ \A b \in Article : copy'[b] <= price'[b]
        /\ excused' \subseteq Article /\ changes' \in 0 .. MaxChanges
    BY <1>1, <1>2, <1>3 DEF ImportInv, ImportsTypeOK, device
  <2>2. UNCHANGED <<status, used, process, device, taken, unmarked, away, late, failures>>
    BY <1>1
  <2> QED
    BY <2>1, <2>2 DEF ImportInv, ImportsTypeOK, process, device
<1>5. TakeoverInv'
  BY <1>1 DEF ImportInv, TakeoverInv, process, device, CounterFree
<1>6. PartInv => PartInv'
  <2>1. cursor < counter + 1 /\ noted \subseteq Article
    BY DEF ImportInv, ImportsTypeOK
  <2> QED
    BY <1>1, <1>2, <2>1 DEF PartInv, process, device
<1> QED
  BY <1>1, <1>4, <1>5, <1>6 DEF Kept, ImportInv, SaysWhatWasTaken, LineInv, process

\* A route asks for an import that does not run, and starts one when none does.
LEMMA NextRoute ==
  ASSUME ImportInv, NEW i \in Import,
         Start(i) \/ ChangeOptions(i) \/ Apply(i) \/ Discard(i)
  PROVE  Kept
<1>1. ASSUME NEW from, NEW to \in Running \cup {"discarded"}, Route(i, from, to),
    UNCHANGED unmarked,
             from \subseteq {"none", "ready", "failed"},
             \/ UNCHANGED queue /\ to = "discarded"
             \/ /\ NoneRuns /\ to \in Running
                /\ \E kind \in {"read", "take"} : InLine(kind, i)
      PROVE  Kept
  <2>1. /\ up /\ status[i] \in {"none", "ready", "failed"}
        /\ status' = [status EXCEPT ![i] = to]
        /\ UNCHANGED <<records, up, at, held, first, device, taken, away, late, excused, changes,
                       failures, unmarked>>
    BY <1>1 DEF Route
  <2>2. queue \in Seq(Job) /\ Len(queue) \in Nat
    BY DEF ImportInv, ImportsTypeOK
  <2>3. /\ queue' \in Seq(Job)
        /\ \A n, m \in 1 .. Len(queue') : queue'[n][2] = queue'[m][2] => n = m
        /\ at # "none" => queue' # <<>> /\ queue'[1][1] = "take"
        /\ LineInv'
    <3>1. CASE UNCHANGED queue /\ to = "discarded"
      <4>1. \A n \in 1 .. Len(queue) : queue[n][2] # i
        BY <2>1 DEF ImportInv, LineInv, Running
      <4>2. \A n \in 1 .. Len(queue) : queue[n][2] \in Import
        BY <2>2 DEF Job
      <4> QED
        BY <2>1, <3>1, <4>1, <4>2 DEF ImportInv, ImportsTypeOK, LineInv
    <3>2. ASSUME NoneRuns, to \in Running, NEW kind \in {"read", "take"}, InLine(kind, i)
          PROVE  /\ queue' \in Seq(Job) /\ at = "none" /\ LineInv'
                 /\ \A n, m \in 1 .. Len(queue') : queue'[n][2] = queue'[m][2] => n = m
      <4>1. queue = <<>>
        <5>1. \A n \in 1 .. Len(queue) : queue[n][2] \in Import
          BY <2>2 DEF Job
        <5> QED
          BY <2>2, <3>2, <5>1 DEF ImportInv, LineInv, NoneRuns
      <4>2. queue' = <<<<kind, i>>>> /\ at = "none"
        BY <3>2, <4>1 DEF InLine, ImportInv, ImportsTypeOK
      <4>3. <<kind, i>> \in Job
        BY DEF Job
      <4>4. status'[i] = to
        BY <2>1 DEF ImportInv, ImportsTypeOK
      <4> QED
        BY <3>2, <4>2, <4>3, <4>4 DEF LineInv
    <3> QED
      BY <1>1, <3>1, <3>2
  <2>4. status' \in [Import -> Status]
    BY <1>1, <2>1 DEF ImportInv, ImportsTypeOK, Status
  <2>5. ImportsTypeOK'
    BY <2>1, <2>3, <2>4 DEF ImportInv, ImportsTypeOK, records, device
  <2>6. SaysWhatWasTaken'
    BY <1>1, <2>1 DEF ImportInv, ImportsTypeOK, SaysWhatWasTaken, Running
  <2> QED
    BY <2>1, <2>3, <2>5, <2>6 DEF Kept, ImportInv, TakeoverInv, PartInv, records, device
<1> QED
  BY <1>1 DEF Start, ChangeOptions, Apply, Discard, Running

-----------------------------------------------------------------------------
(* The line of jobs. *)

\* The job under way ends, and what it wrote of its import is its own.
LEMMA JobOver ==
  ASSUME ImportInv, NEW i \in Import, queue # <<>>, Head(queue)[2] = i, Over,
         status' \in [Import -> Status],
         \A j \in Import : j # i => status'[j] = status[j]
  PROVE  /\ queue' \in Seq(Job) /\ (~up' => queue' = <<>>) /\ LineInv'
         /\ \A n, m \in 1 .. Len(queue') : queue'[n][2] = queue'[m][2] => n = m
         /\ at' = "none" /\ held' = {} /\ first' = 0 /\ away' = {} /\ late' = {} /\ up' = up
<1>1. queue \in Seq(Job) /\ queue' = Tail(queue) /\ up' = up
  BY DEF ImportInv, ImportsTypeOK, Over
<1>2. /\ queue' \in Seq(Job) /\ Len(queue') = Len(queue) - 1 /\ Len(queue) \in Nat
      /\ \A n \in 1 .. Len(queue') : n + 1 \in 1 .. Len(queue) /\ queue'[n] = queue[n + 1]
      /\ 1 \in 1 .. Len(queue) /\ queue[1][2] = i
  BY <1>1
<1>3. ASSUME NEW n \in 1 .. Len(queue'), NEW m \in 1 .. Len(queue'), queue'[n][2] = queue'[m][2]
      PROVE  n = m
  <2>1. /\ n + 1 \in 1 .. Len(queue) /\ m + 1 \in 1 .. Len(queue)
        /\ queue[n + 1][2] = queue[m + 1][2]
    BY <1>2, <1>3
  <2>2. n + 1 = m + 1
    BY <2>1 DEF ImportInv, ImportsTypeOK
  <2> QED
    BY <1>2, <2>2
<1>4. LineInv'
  <2> SUFFICES ASSUME NEW n \in 1 .. Len(queue')
               PROVE  status'[queue'[n][2]] \in Running
    BY DEF LineInv, Running
  <2>1. /\ n + 1 \in 1 .. Len(queue) /\ 1 \in 1 .. Len(queue) /\ n + 1 # 1
        /\ queue'[n] = queue[n + 1] /\ queue[1][2] = i
    BY <1>2
  <2>2. queue[n + 1][2] # i
    BY <2>1 DEF ImportInv, ImportsTypeOK
  <2>3. status[queue[n + 1][2]] \in Running
    BY <2>1 DEF ImportInv, LineInv
  <2>4. queue[n + 1][2] \in Import
    BY <1>1, <2>1 DEF Job
  <2> QED
    BY <2>1, <2>2, <2>3, <2>4
<1> QED
  BY <1>1, <1>2, <1>3, <1>4 DEF Over, ImportInv, ImportsTypeOK

\* What is marked as failed was running, and is nothing that is applied.
LEMMA Failing ==
  ASSUME ImportInv, NEW i \in Import, NEW from \in Running
  PROVE  /\ Fail(status, i, from) \in [Import -> Status]
         /\ \A j \in Import : j # i => Fail(status, i, from)[j] = status[j]
         /\ \A j \in Import :
               Fail(status, i, from)[j] = "applied" <=> status[j] = "applied"
BY DEF ImportInv, ImportsTypeOK, Fail, Status, Running

\* A job that ends without a trace in the rows.
LEMMA EndsWithoutRows ==
  ASSUME ImportInv, NEW i \in Import, queue # <<>>, Head(queue)[2] = i, Over,
         status' \in [Import -> Status],
         \A j \in Import : j # i => status'[j] = status[j],
         \A j \in Import : status'[j] = "applied" <=> status[j] = "applied",
         unmarked' \subseteq Import, failures' \in 0 .. MaxFailures,
         UNCHANGED <<records, device, taken, excused, changes>>
  PROVE  Kept
<1>1. /\ queue' \in Seq(Job) /\ (~up' => queue' = <<>>) /\ LineInv'
      /\ \A n, m \in 1 .. Len(queue') : queue'[n][2] = queue'[m][2] => n = m
      /\ at' = "none" /\ held' = {} /\ first' = 0 /\ away' = {} /\ late' = {} /\ up' = up
  BY JobOver
<1>2. ImportsTypeOK'
  BY <1>1 DEF ImportInv, ImportsTypeOK, records, device
<1>3. SaysWhatWasTaken' /\ TakeoverInv'
  BY <1>1 DEF ImportInv, SaysWhatWasTaken, TakeoverInv
<1> QED
  BY <1>1, <1>2, <1>3 DEF Kept, ImportInv, PartInv, records, device

\* A job that fails has written nothing, whether its end is noted or not.
LEMMA NextEndsBadly ==
  ASSUME ImportInv, NEW i \in Import, NEW from \in Running, queue # <<>>, Head(queue)[2] = i,
         EndsBadly(i, from), UNCHANGED <<records, device, taken, excused, changes>>
  PROVE  Kept
<1>1. failures' \in 0 .. MaxFailures /\ Over
  BY ImportAssumption DEF EndsBadly, Failure, ImportInv, ImportsTypeOK
<1>2. status' \in {status, Fail(status, i, from)} /\ unmarked' \subseteq Import
  BY DEF EndsBadly, ImportInv, ImportsTypeOK
<1>3. CASE status' = status
  <2>1. status' \in [Import -> Status]
    BY <1>3 DEF ImportInv, ImportsTypeOK
  <2> QED
    BY <1>1, <1>2, <1>3, <2>1, EndsWithoutRows
<1>4. CASE status' = Fail(status, i, from)
  BY <1>1, <1>2, <1>4, Failing, EndsWithoutRows
<1> QED
  BY <1>2, <1>3, <1>4

\* A reading ends, one way or the other.
LEMMA NextReadFiles ==
  ASSUME ImportInv, NEW i \in Import, ReadFiles(i)
  PROVE  Kept
<1>1. /\ queue # <<>> /\ Head(queue)[2] = i /\ "reading" \in Running
      /\ UNCHANGED <<records, device, taken, excused, changes>>
  BY DEF ReadFiles, First, Running
<1>2. CASE EndsBadly(i, "reading")
  BY <1>1, <1>2, NextEndsBadly
<1>3. CASE /\ status' = [status EXCEPT ![i] = IF @ = "reading" THEN "ready" ELSE @]
           /\ Over /\ UNCHANGED <<unmarked, failures>>
  <2>1. /\ status' \in [Import -> Status]
        /\ \A j \in Import : j # i => status'[j] = status[j]
        /\ \A j \in Import : status'[j] = "applied" <=> status[j] = "applied"
        /\ unmarked' \subseteq Import /\ failures' \in 0 .. MaxFailures
    BY <1>3 DEF ImportInv, ImportsTypeOK, Status, Running
  <2> QED
    BY <1>1, <1>3, <2>1, EndsWithoutRows
<1> QED
  BY <1>2, <1>3 DEF ReadFiles

\* So does a takeover that fails.
LEMMA NextTakeoverFails ==
  ASSUME ImportInv, NEW i \in Import, TakeoverFails(i)
  PROVE  Kept
BY NextEndsBadly DEF TakeoverFails, First, Running

\* With a process goes its line, and the next one ends what was interrupted.
LEMMA NextServer ==
  ASSUME ImportInv, ServerEnds \/ ServerStarts
  PROVE  Kept
<1>1. CASE ServerEnds
  <2>1. failures' \in 0 .. MaxFailures
    BY <1>1, ImportAssumption DEF ServerEnds, Failure, ImportInv, ImportsTypeOK
  <2>2. queue' = <<>> /\ queue' \in Seq(Job) /\ Len(queue') = 0 /\ at' = "none"
    BY <1>1 DEF ServerEnds
  <2>3. /\ up' = FALSE /\ held' = {} /\ first' = 0 /\ away' = {} /\ late' = {}
        /\ UNCHANGED <<status, records, device, taken, unmarked, excused, changes>>
    BY <1>1 DEF ServerEnds
  <2>4. \A n, m \in 1 .. Len(queue') : queue'[n][2] = queue'[m][2] => n = m
    BY <2>2
  <2>5. ImportsTypeOK'
    BY <2>1, <2>2, <2>3, <2>4 DEF ImportInv, ImportsTypeOK, records, device
  <2>6. TakeoverInv' /\ LineInv'
    BY <2>2 DEF TakeoverInv, LineInv
  <2> QED
    BY <2>3, <2>5, <2>6 DEF Kept, ImportInv, SaysWhatWasTaken, PartInv, records, device
<1>2. CASE ServerStarts
  <2>1. /\ status' \in [Import -> Status]
        /\ \A i \in Import : status'[i] = "applied" <=> status[i] = "applied"
    BY <1>2 DEF ServerStarts, EndInterrupted, ImportInv, ImportsTypeOK, Status, Running
  <2>2. queue = <<>> /\ queue' = <<>>
    BY <1>2 DEF ServerStarts, ImportInv, ImportsTypeOK
  <2>3. ImportsTypeOK'
    BY <1>2, <2>1, <2>2 DEF ServerStarts, ImportInv, ImportsTypeOK, records, device
  <2>4. LineInv'
    BY <2>2 DEF LineInv
  <2> QED
    BY <1>2, <2>1, <2>3, <2>4 DEF Kept, ServerStarts, ImportInv, SaysWhatWasTaken, TakeoverInv,
                                       PartInv, records, device
<1> QED
  BY <1>1, <1>2

-----------------------------------------------------------------------------
(* A takeover. *)

\* The rows are written, below every cursor and not yet to be seen.
LEMMA NextWriteRows ==
  ASSUME ImportInv, NEW i \in Import, WriteRows(i)
  PROVE  Kept
<1>1. /\ at' = "written" /\ queue # <<>> /\ Head(queue) = <<"take", i>>
      /\ UNCHANGED <<status, records, up, queue, held, first, device, ghosts, changes, failures>>
  BY DEF WriteRows, First
<1>2. queue[1][1] = "take"
  BY <1>1 DEF ImportInv, ImportsTypeOK
<1>3. ImportsTypeOK'
  BY <1>1, <1>2 DEF ImportInv, ImportsTypeOK, records, device, ghosts
<1> QED
  BY <1>1, <1>3 DEF Kept, ImportInv, SaysWhatWasTaken, LineInv, TakeoverInv, PartInv, records,
                    device, ghosts

\* What is used now is the part; what devices have beyond it is left away.
LEMMA NextReadPart ==
  ASSUME ImportInv, ReadPart
  PROVE  Kept
<1>1. /\ at = "written" /\ at' = "numbering" /\ held' = used
      /\ away' = (noted \cup asked) \ used
      /\ UNCHANGED <<status, records, up, queue, first, device, taken, unmarked, late, excused,
                     changes, failures>>
  BY DEF ReadPart
<1>2. ImportsTypeOK'
  BY <1>1 DEF ImportInv, ImportsTypeOK, records, device
<1>3. TakeoverInv'
  BY <1>1 DEF TakeoverInv, records, device
<1> QED
  BY <1>1, <1>2, <1>3 DEF Kept, ImportInv, SaysWhatWasTaken, LineInv, PartInv, records, device

\* The numbers reserved come next on the counter.
LEMMA NextReserve ==
  ASSUME ImportInv, NEW i \in Import, Reserve(i)
  PROVE  Kept
<1>1. /\ at = "numbering" /\ at' = "reserved" /\ first' = counter + 1
      /\ UNCHANGED <<status, records, up, queue, held, device, ghosts, changes, failures>>
  BY DEF Reserve
<1>2. ImportsTypeOK' /\ TakeoverInv'
  BY <1>1 DEF ImportInv, ImportsTypeOK, TakeoverInv, records, device, ghosts
<1> QED
  BY <1>1, <1>2 DEF Kept, ImportInv, SaysWhatWasTaken, LineInv, PartInv, records, device, ghosts

\* What the devices hold is numbered above every cursor. What else a device may
\* take to be its own came late or was away, and is excused.
LEMMA NextCommit ==
  ASSUME ImportInv, NEW i \in Import, Commit(i)
  PROVE  Kept
<1> DEFINE numbered == ToNumber(i)
           left     == Contents[i] \ numbered
           last     == first + Cardinality(numbered) - 1
           applied  == [status EXCEPT ![i] = "applied"]
<1>a. counter' = IF numbered = {} THEN counter ELSE Max({counter, last})
  BY DEF Commit
<1>1. /\ queue # <<>> /\ Head(queue)[2] = i /\ Over
      /\ at = IF numbered = {} THEN "numbering" ELSE "reserved"
      /\ excused' = (excused \ Contents[i]) \cup (left \cap (late \cup away))
      /\ price' = [a \in Article |-> IF a \in Contents[i] THEN price[a] + 1 ELSE price[a]]
      /\ taken' = taken \cup {i}
      /\ UNCHANGED <<used, device, unmarked, changes>>
  BY DEF Commit, First
<1>2. PICK run \in [numbered -> first .. last] :
         number' = [a \in Article |-> IF a \in numbered THEN run[a]
                                      ELSE IF a \in left THEN Unnumbered ELSE number[a]]
  BY DEF Commit
<1>3. /\ numbered \in SUBSET Article /\ IsFiniteSet(numbered) /\ Cardinality(numbered) \in Nat
      /\ Contents[i] \subseteq Article
  <2>1. numbered \in SUBSET Article /\ Contents[i] \subseteq Article /\ IsFiniteSet(Article)
    BY ImportAssumption DEF ToNumber, ImportInv
  <2> HIDE DEF numbered
  <2> QED
    BY <2>1, FS_Subset, FS_CardinalityType
<1>4. /\ counter \in Nat \ {0} /\ counter' \in Nat \ {0} /\ counter <= counter'
      /\ \A a \in numbered : run[a] \in Nat /\ counter < run[a] /\ run[a] <= counter'
  <2>1. counter \in Nat \ {0} /\ first \in Nat
    BY DEF ImportInv, ImportsTypeOK
  <2>2. CASE numbered = {}
    BY <1>a, <2>1, <2>2
  <2>3. CASE numbered # {}
    <3>1. first = counter + 1
      BY <1>1, <2>3 DEF ImportInv, TakeoverInv
    <3>2. last \in Nat
      BY <1>3, <2>1, <3>1
    <3>3. counter' \in Nat /\ counter' >= counter /\ counter' >= last
      <4> HIDE DEF last
      <4> QED
        BY <1>a, <2>1, <2>3, <3>2, Greater
    <3>4. \A a \in numbered : run[a] \in first .. last
      BY <1>2
    <3> QED
      BY <2>1, <3>1, <3>2, <3>3, <3>4
  <2> QED
    BY <2>2, <2>3
<1> HIDE DEF numbered, last
<1>5. /\ number' \in [Article -> 1 .. counter']
      /\ price' \in [Article -> Nat \ {0}] /\ \A a \in Article : copy[a] <= price'[a]
      /\ cursor \in 0 .. counter' /\ cursor <= counter
  <2>1. \A a \in Article : /\ number[a] \in 1 .. counter /\ price[a] \in Nat \ {0}
                           /\ copy[a] \in Nat /\ copy[a] <= price[a]
    BY DEF ImportInv, ImportsTypeOK
  <2>2. cursor \in 0 .. counter
    BY DEF ImportInv, ImportsTypeOK
  <2>3. \A a \in Article : number'[a] \in 1 .. counter'
    BY <1>2, <1>4, <2>1 DEF Unnumbered
  <2>4. \A a \in Article : price'[a] \in Nat \ {0} /\ copy[a] <= price'[a]
    BY <1>1, <2>1
  <2>5. number' = [a \in Article |-> number'[a]] /\ price' = [a \in Article |-> price'[a]]
    BY <1>1, <1>2
  <2> QED
    BY <1>4, <2>2, <2>3, <2>4, <2>5
<1>6. /\ failures' \in 0 .. MaxFailures
      /\ status' \in [Import -> Status]
      /\ \A j \in Import : j # i => status'[j] = status[j]
      /\ status'[i] = "applied"
  <2>1. /\ status' \in {applied, Fail(applied, i, "applying")}
        /\ failures' \in 0 .. MaxFailures
    BY ImportAssumption DEF Commit, Failure, ImportInv, ImportsTypeOK
  <2> QED
    BY <2>1 DEF Fail, ImportInv, ImportsTypeOK, Status
<1>7. /\ queue' \in Seq(Job) /\ (~up' => queue' = <<>>) /\ LineInv'
      /\ \A n, m \in 1 .. Len(queue') : queue'[n][2] = queue'[m][2] => n = m
      /\ at' = "none" /\ held' = {} /\ first' = 0 /\ away' = {} /\ late' = {} /\ up' = up
  BY <1>1, <1>6, JobOver
<1>8. ImportsTypeOK'
  <2>1. excused' \subseteq Article /\ taken' \subseteq Import
    BY <1>1, <1>3 DEF ImportInv, ImportsTypeOK
  <2>2. /\ UNCHANGED <<used, device, unmarked, changes>>
    BY <1>1
  <2> QED
    BY <1>4, <1>5, <1>6, <1>7, <2>1, <2>2 DEF ImportInv, ImportsTypeOK, device
<1>9. SaysWhatWasTaken'
  BY <1>1, <1>6 DEF ImportInv, SaysWhatWasTaken
<1>10. TakeoverInv'
  BY <1>7 DEF TakeoverInv
<1>11. ASSUME PartInv PROVE PartInv'
  <2>1. UNCHANGED <<copy, told, noted, cursor, asking, asked>>
    BY <1>1 DEF device
  <2>2. ASSUME NEW a \in noted
        PROVE  number'[a] > cursor \/ copy[a] = price'[a] \/ a \in excused'
    <3>1. a \in Article /\ (number[a] > cursor \/ copy[a] = price[a] \/ a \in excused)
      BY <1>11 DEF ImportInv, ImportsTypeOK, PartInv
    <3>2. CASE a \in numbered
      BY <1>2, <1>4, <1>5, <3>1, <3>2
    <3>3. CASE a \in left
      <4>1. a \notin held
        BY <3>3 DEF numbered, ToNumber
      <4>2. a \in late \cup away
        BY <1>1, <4>1 DEF ImportInv, TakeoverInv
      <4> QED
        BY <1>1, <3>3, <4>2
    <3>4. CASE a \notin Contents[i]
      <4>1. a \notin numbered
        BY <3>4 DEF numbered, ToNumber
      <4> QED
        BY <1>1, <1>2, <3>1, <3>4, <4>1
    <3> QED
      BY <3>2, <3>3, <3>4
  <2> QED
    BY <1>11, <2>1, <2>2 DEF PartInv
<1> QED
  BY <1>7, <1>8, <1>9, <1>10, <1>11 DEF Kept, ImportInv

-----------------------------------------------------------------------------
(* The device. *)

\* The part is read for an answer; it fits into one, if the part does.
LEMMA NextAskPart ==
  ASSUME ImportInv, AskPart
  PROVE  ImportInv' /\ (PartInv /\ PartFits => PartInv')
<1>1. /\ asking' = TRUE /\ asked' = used
      /\ UNCHANGED <<status, records, process, copy, told, noted, cursor, ghosts, changes,
          failures>>
  BY DEF AskPart
<1>2. ImportsTypeOK' /\ TakeoverInv'
  BY <1>1 DEF ImportInv, ImportsTypeOK, TakeoverInv, records, process, ghosts
<1> QED
  BY <1>1, <1>2 DEF ImportInv, SaysWhatWasTaken, LineInv, PartInv, PartFits, records, process,
                    ghosts

\* A lost answer changes nothing on the device.
LEMMA NextAnswerLost ==
  ASSUME ImportInv, AnswerLost
  PROVE  Kept
<1>1. /\ asking' = FALSE /\ asked' = {} /\ failures' \in 0 .. MaxFailures
      /\ UNCHANGED <<status, records, process, copy, told, noted, cursor, ghosts, changes>>
  BY ImportAssumption DEF AnswerLost, Failure, ImportInv, ImportsTypeOK
<1>2. ImportsTypeOK' /\ TakeoverInv'
  BY <1>1 DEF ImportInv, ImportsTypeOK, TakeoverInv, records, process, ghosts
<1> QED
  BY <1>1, <1>2 DEF Kept, ImportInv, SaysWhatWasTaken, LineInv, PartInv, records, process, ghosts

\* What an answer holds is there afterwards, and all that is behind its cursor.
LEMMA NextAnswer ==
  ASSUME ImportInv, Answer
  PROVE  Kept
<1>1. /\ told' = TRUE /\ noted' = asked /\ asking' = FALSE /\ asked' = {}
      /\ UNCHANGED <<status, records, process, taken, unmarked, away, late, changes, failures>>
  BY DEF Answer
<1>2. /\ counter \in Nat \ {0} /\ cursor \in 0 .. counter /\ asked \subseteq Article
      /\ \A a \in Article : /\ number[a] \in 1 .. counter /\ price[a] \in Nat \ {0}
                           /\ copy[a] \in Nat /\ copy[a] <= price[a]
      /\ excused \subseteq Article
  BY DEF ImportInv, ImportsTypeOK
<1>3. asking /\ (DropArticles \/ TakeRows)
  BY DEF Answer
<1>4. /\ copy' \in [Article -> Nat] /\ \A a \in Article : copy'[a] <= price[a]
      /\ cursor' \in 0 .. counter /\ excused' \subseteq Article
      /\ PartInv => \A a \in asked : number[a] > cursor' \/ copy'[a] = price[a] \/ a \in excused'
  <2>1. CASE DropArticles
    BY <1>2, <2>1 DEF DropArticles
  <2>2. CASE TakeRows
    <3>1. PICK page \in Page :
             /\ copy' = [a \in Article |-> IF a \in page THEN price[a] ELSE copy[a]]
             /\ cursor' = IF Cardinality(page) = Limit THEN Max({number[a] : a \in page})
                                                    ELSE counter
      BY <2>2 DEF TakeRows
    <3>2. excused' = {a \in excused : copy'[a] # price[a]} /\ ~PartChanged
      BY <2>2 DEF TakeRows
    <3>3. /\ page \subseteq {a \in asked : number[a] > cursor} /\ Cardinality(page) \in Nat
          /\ Cardinality(page) = Limit => page # {}
          /\ PartInv => page = {a \in asked : number[a] > cursor}
      BY <1>3, PageOf
    <3>4. cursor' \in 0 .. counter
      <4>1. CASE Cardinality(page) = Limit
        <5>1. /\ {number[a] : a \in page} \in SUBSET (0 .. counter)
              /\ {number[a] : a \in page} # {}
          BY <1>2, <3>3, <4>1
        <5>2. Max({number[a] : a \in page}) \in {number[a] : a \in page}
          BY <1>2, <5>1, GreatestOfAll
        <5> QED
          BY <3>1, <4>1, <5>1, <5>2
      <4>2. CASE Cardinality(page) # Limit
        BY <1>2, <3>1, <4>2
      <4> QED
        BY <4>1, <4>2
    <3>5. ASSUME PartInv, NEW a \in asked
          PROVE  copy'[a] = price[a] \/ a \in excused'
      <4>1. CASE a \in page
        BY <1>2, <3>1, <4>1
      <4>2. CASE a \notin page
        <5>1. a \in Article /\ ~(number[a] > cursor) /\ copy'[a] = copy[a]
          BY <1>2, <3>1, <3>3, <3>5, <4>2
        <5>2. told /\ noted = asked
          BY <1>2, <3>2, <3>5, <5>1 DEF PartChanged, PartInv
        <5> QED
          BY <3>2, <3>5, <5>1, <5>2 DEF PartInv
      <4> QED
        BY <4>1, <4>2
    <3>6. copy' \in [Article -> Nat] /\ \A a \in Article : copy'[a] <= price[a]
      BY <1>2, <3>1
    <3> QED
      BY <1>2, <3>2, <3>4, <3>5, <3>6
  <2> QED
    BY <1>3, <2>1, <2>2
<1>5. ImportsTypeOK'
  BY <1>1, <1>2, <1>4 DEF ImportInv, ImportsTypeOK, records, process
<1>6. TakeoverInv'
  BY <1>1 DEF ImportInv, TakeoverInv, records, process
<1>7. PartInv => PartInv'
  BY <1>1, <1>4 DEF PartInv, records
<1> QED
  BY <1>1, <1>5, <1>6, <1>7 DEF Kept, ImportInv, SaysWhatWasTaken, LineInv, process

-----------------------------------------------------------------------------
(* The theorems. *)

\* It begins so, and every step keeps it.
LEMMA ImportInit ==
  ASSUME ImportsInit
  PROVE  ImportInv /\ PartInv
<1>1. Len(queue) = 0 /\ queue \in Seq(Job)
  BY DEF ImportsInit
<1>2. ImportsTypeOK
  <2>1. /\ status \in [Import -> Status]
        /\ price \in [Article -> Nat \ {0}] /\ number \in [Article -> 1 .. counter]
        /\ counter \in Nat \ {0} /\ cursor \in 0 .. counter
        /\ copy \in [Article -> Nat] /\ \A a \in Article : copy[a] <= price[a]
    BY DEF ImportsInit, Unnumbered, Status
  <2>2. changes \in 0 .. MaxChanges /\ failures \in 0 .. MaxFailures
    BY ImportAssumption DEF ImportsInit
  <2>3. \A n, m \in 1 .. Len(queue) : queue[n][2] = queue[m][2] => n = m
    BY <1>1
  <2>4. /\ used \subseteq Article /\ up = TRUE /\ at = "none" /\ held = {} /\ first = 0
        /\ told = FALSE /\ noted = {} /\ asking = FALSE /\ asked = {}
        /\ taken = {} /\ unmarked = {} /\ away = {} /\ late = {} /\ excused = {}
    BY DEF ImportsInit
  <2> QED
    BY <1>1, <2>1, <2>2, <2>3, <2>4 DEF ImportsTypeOK
<1> QED
  BY <1>1, <1>2 DEF ImportsInit, ImportInv, SaysWhatWasTaken, LineInv, TakeoverInv, PartInv

\* The part needs that it fits into one answer whenever it is read.
LEMMA ImportNext ==
  ASSUME ImportInv, [ImportsNext]_importVars
  PROVE  ImportInv' /\ (PartInv /\ PartFits => PartInv')
<1>1. CASE UNCHANGED importVars
  BY <1>1 DEF importVars, records, process, device, ghosts, ImportInv, ImportsTypeOK,
              SaysWhatWasTaken, LineInv, TakeoverInv, PartInv
<1>2. ASSUME NEW a \in Article, Join(a) \/ Leave(a) \/ SetPrice(a)
      PROVE  Kept
  BY <1>2, NextJoin, NextLeave, NextSetPrice
<1>3. ASSUME NEW i \in Import, ReadFiles(i) \/ Takeover(i)
      PROVE  Kept
  BY <1>3, NextReadFiles, NextWriteRows, NextReserve, NextCommit, NextTakeoverFails DEF Takeover
<1>4. CASE AskPart
  BY <1>4, NextAskPart
<1> QED
  BY <1>1, <1>2, <1>3, <1>4, NextRoute, NextReadPart, NextServer, NextAnswer, NextAnswerLost
  DEF ImportsNext, Work, Kept

\* An import is in line once, the transaction of a takeover is that of the first in
\* line, and no device has a price or a cursor that was not given (run,
\* datanorm/imports.ts).
THEOREM ImportsTyped == ImportsSpec => []ImportsTypeOK
<1>1. ImportInv => ImportsTypeOK
  BY DEF ImportInv
<1> QED
  BY <1>1, ImportInit, ImportNext, PTL DEF ImportsSpec

\* What an import says of itself is what became of its rows, for every number of
\* imports, readings that fail, ends that are not noted and restarts: it says
\* applied exactly if its rows are committed (fail, takeOver and
\* endInterruptedImports, datanorm/imports.ts).
THEOREM SaysTheTruth == ImportsSpec => []SaysWhatWasTaken
<1>1. ImportsInit => ImportInv
  BY ImportInit
<1>2. ImportInv /\ [ImportsNext]_importVars => ImportInv'
  BY ImportNext
<1>3. ImportInv => SaysWhatWasTaken
  BY DEF ImportInv
<1> QED
  BY <1>1, <1>2, <1>3, PTL DEF ImportsSpec

\* A device that has caught up holds every article that is used as it is, for
\* every number of articles and imports, as long as one answer holds all that the
\* devices hold: the rows an import has written have one number between them, and
\* an answer that ends in the midst of them loses the rest (numberWhatDevicesHold,
\* datanorm/take-over.ts; changesSince, sync/apply.ts).
THEOREM HoldsThem == ImportsSpec /\ []PartFits => []HoldsTheArticles
<1>1. ImportsInit => ImportInv /\ PartInv
  BY ImportInit
<1>2. ImportInv /\ PartInv /\ PartFits /\ [ImportsNext]_importVars => ImportInv' /\ PartInv'
  BY ImportNext
<1>3. ImportInv /\ PartInv => HoldsTheArticles
  <2>1. ASSUME ImportInv, PartInv, noted = used, cursor = counter, NEW a \in used \ excused
        PROVE  copy[a] = price[a]
    BY <2>1 DEF ImportInv, ImportsTypeOK, PartInv
  <2> QED
    BY <2>1 DEF HoldsTheArticles
<1> QED
  BY <1>1, <1>2, <1>3, PTL DEF ImportsSpec

=============================================================================
