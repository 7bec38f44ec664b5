-------------------------------- MODULE Files -------------------------------
(***************************************************************************)
(* The bytes of files and what names them: photos kept on a device go up   *)
(* ahead of the version that names them, the server stores bytes under     *)
(* their hash first and writes the row of the tenant after, documents made *)
(* on the server do the same, a document erased at the end of a retention  *)
(* takes the rows nothing else names, and a sweep takes the bytes no row   *)
(* of any tenant names out of the store.                                   *)
(*                                                                         *)
(* The store knows no transaction: looking for a file, making it new,      *)
(* moving it aside and removing it are steps others come between.  A file  *)
(* is new for the length of the grace after it was last put.               *)
(***************************************************************************)
EXTENDS FiniteSets, Naturals

CONSTANTS
    Hash, Tenant, Request,
    Photo,              \* documents a device makes
    Paper,              \* documents made on the server
    TenantOf,           \* the tenant of each document
    Ours,               \* the tenant the device works in
    FilesOf,            \* of a photo its file and preview, of a print the bytes it may come out as
    NoHash, NoDoc, NoRequest,
    BatchSize,          \* names the sweep asks the database for at once
    EndsAside,          \* whether the process may end with a file it means to return moved aside
    MaxMishaps          \* bound: requests lost or refused for now, pages closed, processes ended

Doc == Photo \cup Paper

ASSUME FilesAssumption ==
    /\ Photo \cap Paper = {} /\ NoDoc \notin Doc /\ Ours \in Tenant
    /\ TenantOf \in [Doc -> Tenant] /\ \A d \in Photo : TenantOf[d] = Ours
    /\ FilesOf \in [Doc -> (SUBSET Hash) \ {{}}]
    /\ NoHash \notin Hash /\ NoRequest \notin Request
    /\ BatchSize \in Nat \ {0} /\ EndsAside \in BOOLEAN /\ MaxMishaps \in Nat

VARIABLES
    stored,         \* the store: bytes under their name, and whether put within the grace
    row,            \* `files`: what belongs to which tenant
    named,          \* documents that stand, with the files they name
    gone,           \* documents erased
    receipt,        \* what the server answered about the version of each photo
    erased,         \* rows that went with a document
    pc, file, doc,  \* requests on the server: where each is, with which bytes, for which paper
    sweep,          \* where the sweep of the store is
    todo,           \* names it found old and has not asked about
    unheld,         \* names nobody held when it asked
    aside,          \* the file it moved aside
    asideNew,       \* whether that one was put again before it was moved
    kept,           \* on the device: files of a photo kept whose version is not queued
    waiting,        \* on the device: files on the list of uploads
    outbox,         \* on the device: photos whose version waits
    mayWait,        \* in memory: filesWaiting > 0
    step,           \* in memory: where the exchange is
    uploads,        \* in memory: the list of uploads as it was read
    awaits,         \* in memory: the upload under way
    sending,        \* in memory: the versions of the transmission
    letGo,          \* files the device let go of, refused for good
    mishaps

database == <<row, named, gone, receipt, erased>>
requests == <<pc, file, doc>>
sweeper  == <<sweep, todo, unheld, aside, asideNew>>
onDevice == <<kept, waiting, outbox>>
exchange == <<mayWait, step, uploads, awaits, sending>>
history  == <<letGo, mishaps>>
vars == <<stored, database, requests, sweeper, onDevice, exchange, history>>

TypeOK ==
    /\ stored \in [Hash -> {"none", "old", "new"}]
    /\ row \subseteq Tenant \X Hash /\ erased \subseteq Tenant \X Hash
    /\ named \in [Doc -> SUBSET Hash] /\ gone \subseteq Doc
    /\ receipt \in [Photo -> {"none", "applied", "record_missing"}]
    /\ pc \in [Request -> {"idle", "found", "writing", "put"}]
    /\ file \in [Request -> Hash \cup {NoHash}] /\ doc \in [Request -> Paper \cup {NoDoc}]
    /\ \A q \in Request : pc[q] = "idle" <=> file[q] = NoHash
    /\ sweep \in {"idle", "running", "aside"} /\ todo \subseteq Hash /\ unheld \subseteq Hash
    /\ aside \in Hash \cup {NoHash} /\ (aside = NoHash <=> sweep # "aside") /\ asideNew \in BOOLEAN
    /\ kept \in [Photo -> SUBSET Hash] /\ waiting \subseteq Hash /\ outbox \subseteq Photo
    /\ mayWait \in BOOLEAN /\ step \in {"idle", "upload", "push", "sending"}
    /\ uploads \subseteq Hash /\ sending \subseteq outbox
    /\ awaits \in Request \cup {NoRequest} /\ letGo \subseteq Hash /\ mishaps \in 0 .. MaxMishaps

Init ==
    /\ stored = [h \in Hash |-> "none"] /\ row = {} /\ erased = {}
    /\ named = [d \in Doc |-> {}] /\ gone = {} /\ receipt = [d \in Photo |-> "none"]
    /\ pc = [q \in Request |-> "idle"] /\ file = [q \in Request |-> NoHash]
    /\ doc = [q \in Request |-> NoDoc]
    /\ sweep = "idle" /\ todo = {} /\ unheld = {} /\ aside = NoHash /\ asideNew = FALSE
    /\ kept = [d \in Photo |-> {}] /\ waiting = {} /\ outbox = {}
    /\ mayWait = FALSE /\ step = "idle" /\ uploads = {} /\ awaits = NoRequest /\ sending = {}
    /\ letGo = {} /\ mishaps = 0

\* A request under way takes any place that is free.
FreeRequest ==
    IF \E q \in Request : pc[q] = "idle" THEN CHOOSE q \in Request : pc[q] = "idle" ELSE NoRequest

\* A put looks whether the file is there, and goes on by that.
Put(q, h) ==
    /\ file' = [file EXCEPT ![q] = h]
    /\ pc' = [pc EXCEPT ![q] = IF stored[h] = "none" THEN "writing" ELSE "found"]

Mishap == mishaps < MaxMishaps /\ mishaps' = mishaps + 1

\* The exchange of the device stops where it is; what waits goes on waiting.
Stopped ==
    /\ step' = "idle" /\ uploads' = {} /\ awaits' = NoRequest /\ sending' = {}

(***************************************************************************)
(* The device.  A photo is kept with its preview, then its version is      *)
(* queued; an exchange sends the files on the list as it read it, and then *)
(* the versions, holding back those that name a file still on the list.    *)
(***************************************************************************)

KeepFile(d, h) ==
    /\ h \in FilesOf[d] \ kept[d] /\ d \notin outbox /\ receipt[d] = "none"
    /\ kept' = [kept EXCEPT ![d] = @ \cup {h}]
    /\ waiting' = waiting \cup {h} /\ mayWait' = TRUE
    /\ UNCHANGED <<stored, database, requests, sweeper, outbox, step, uploads, awaits,
                   sending, history>>

QueueVersion(d) ==
    /\ kept[d] = FilesOf[d] /\ d \notin outbox
    /\ kept' = [kept EXCEPT ![d] = {}] /\ outbox' = outbox \cup {d}
    /\ UNCHANGED <<stored, database, requests, sweeper, waiting, exchange, history>>

\* The exchange goes on to the versions.
Send(versions) ==
    /\ step' = IF versions = {} THEN "idle" ELSE "sending"
    /\ sending' = versions /\ uploads' = {} /\ awaits' = NoRequest

StartExchange ==
    /\ step = "idle" /\ (mayWait \/ outbox # {})
    /\ \/ /\ mayWait
          /\ step' = "upload" /\ uploads' = waiting /\ UNCHANGED <<awaits, sending>>
       \/ ~mayWait /\ Send(outbox)
    /\ UNCHANGED <<stored, database, requests, sweeper, onDevice, mayWait, history>>

\* A plausible slip: the list is left as it is.
FileSentKept(h) == h \in waiting /\ UNCHANGED waiting

\* The file is off the list of uploads; its bytes stay for the screens.
FileSent(h) == waiting' = waiting \ {h}

\* Refused for good, the file is let go all the same: its version brings the
\* conflict.  The server refuses so what arrives damaged, too.
RefusedForGood(h) ==
    /\ step = "upload" /\ awaits = NoRequest /\ h \in uploads /\ Mishap
    /\ uploads' = uploads \ {h} /\ FileSent(h) /\ letGo' = letGo \cup {h}
    /\ UNCHANGED <<stored, database, requests, sweeper, kept, outbox, mayWait, step, awaits,
                   sending>>

StartUpload(q, h) ==
    /\ step = "upload" /\ awaits = NoRequest /\ h \in uploads
    /\ q = FreeRequest
    /\ Put(q, h) /\ awaits' = q
    /\ UNCHANGED <<stored, database, doc, sweeper, onDevice, mayWait, step, uploads, sending,
                   history>>

\* Counted again: a photo taken meanwhile is on the list and was not in the batch.
UploadsDone ==
    /\ step = "upload" /\ uploads = {}
    /\ mayWait' = (waiting # {})
    /\ \/ waiting = {} /\ Send(outbox)
       \/ waiting # {} /\ step' = "push" /\ UNCHANGED <<uploads, awaits, sending>>
    /\ UNCHANGED <<stored, database, requests, sweeper, onDevice, history>>

\* A plausible slip: a version waits only while none of its files is up.
NamesOnlyWaitingFiles(d) == FilesOf[d] \subseteq waiting

NamesAWaitingFile(d) == FilesOf[d] \cap waiting # {}

\* What may go up now: no version that names a file still waiting.
Ready ==
    /\ step = "push" /\ Send({d \in outbox : ~NamesAWaitingFile(d)})
    /\ UNCHANGED <<stored, database, requests, sweeper, onDevice, mayWait, history>>

RowsThere(d) == \A h \in FilesOf[d] : <<TenantOf[d], h>> \in row

\* The server decides about a version once; one it has seen gets its receipt again.
Decide(d) ==
    IF receipt[d] # "none" THEN UNCHANGED <<receipt, named>>
    ELSE IF RowsThere(d)
         THEN /\ receipt' = [receipt EXCEPT ![d] = "applied"]
              /\ named' = [named EXCEPT ![d] = FilesOf[d]]
         ELSE receipt' = [receipt EXCEPT ![d] = "record_missing"] /\ UNCHANGED named

TransmitAnswered(d) ==
    /\ step = "sending" /\ d \in sending /\ Decide(d)
    /\ outbox' = outbox \ {d} /\ sending' = sending \ {d}
    /\ step' = IF sending' = {} THEN "idle" ELSE step
    /\ UNCHANGED <<stored, row, gone, erased, requests, sweeper, kept, waiting, mayWait,
                   uploads, awaits, history>>

TransmitAnswerLost(d) ==
    /\ step = "sending" /\ d \in sending /\ Mishap /\ Decide(d) /\ Stopped
    /\ UNCHANGED <<stored, row, gone, erased, requests, sweeper, onDevice, mayWait, letGo>>

TransmitLost ==
    /\ step = "sending" /\ Mishap /\ Stopped
    /\ UNCHANGED <<stored, database, requests, sweeper, onDevice, mayWait, letGo>>

\* The device gives the upload up, refused for now or without a connection;
\* what the server has of the request runs on.
UploadGivenUp ==
    /\ step = "upload" /\ uploads # {} /\ Mishap /\ Stopped
    /\ UNCHANGED <<stored, database, requests, sweeper, onDevice, mayWait, letGo>>

\* The page is closed and opened again: what is in memory is counted anew,
\* and a photo whose version was not queued is not queued by anybody.
PageClosed ==
    /\ Mishap /\ Stopped
    /\ kept' = [d \in Photo |-> {}] /\ mayWait' = (waiting # {})
    /\ UNCHANGED <<stored, database, requests, sweeper, waiting, outbox, letGo>>

(***************************************************************************)
(* Requests on the server: the bytes first, then the row.                  *)
(***************************************************************************)

\* A plausible slip: what the request held is not let go of.
IdleHolding(q) ==
    /\ pc' = [pc EXCEPT ![q] = "idle"] /\ doc' = [doc EXCEPT ![q] = NoDoc] /\ UNCHANGED file

Idle(q) ==
    /\ pc' = [pc EXCEPT ![q] = "idle"] /\ file' = [file EXCEPT ![q] = NoHash]
    /\ doc' = [doc EXCEPT ![q] = NoDoc]

\* What the server makes of a document, unless it is there already; two requests
\* may make it at once and come to different bytes.
StartPaper(q, d) ==
    /\ q = FreeRequest /\ named[d] = {}
    /\ \E h \in FilesOf[d] : Put(q, h)
    /\ doc' = [doc EXCEPT ![q] = d]
    /\ UNCHANGED <<stored, database, sweeper, onDevice, exchange, history>>

\* A plausible slip: a file that is there is left as old as it is.
LeaveAsOld(h) == h \in Hash /\ UNCHANGED stored

\* The file is as new as this put.
Touch(h) == stored' = [stored EXCEPT ![h] = "new"]

\* A file found is put again.  Gone meanwhile, the request fails, and with
\* an upload the exchange that waits for it.
Renew(q) ==
    /\ pc[q] = "found"
    /\ \/ /\ stored[file[q]] # "none"
          /\ Touch(file[q]) /\ pc' = [pc EXCEPT ![q] = "put"]
          /\ UNCHANGED <<file, doc, exchange>>
       \/ /\ stored[file[q]] = "none" /\ Idle(q) /\ UNCHANGED stored
          /\ IF awaits = q THEN Stopped /\ UNCHANGED mayWait ELSE UNCHANGED exchange
    /\ UNCHANGED <<database, sweeper, onDevice, history>>

Write(q) ==
    /\ pc[q] = "writing"
    /\ stored' = [stored EXCEPT ![file[q]] = "new"] /\ pc' = [pc EXCEPT ![q] = "put"]
    /\ UNCHANGED <<database, file, doc, sweeper, onDevice, exchange, history>>

\* `fileRowFor` of an upload, and the answer, if the device still waits for it.
RowOfUpload(q) ==
    /\ pc[q] = "put" /\ doc[q] = NoDoc
    /\ row' = row \cup {<<Ours, file[q]>>} /\ Idle(q)
    /\ IF awaits = q
       THEN /\ awaits' = NoRequest
            /\ uploads' = uploads \ {file[q]} /\ FileSent(file[q])
       ELSE UNCHANGED <<awaits, uploads, waiting>>
    /\ UNCHANGED <<stored, named, gone, receipt, erased, sweeper, kept, outbox, mayWait, step,
                   sending, history>>

\* The row and the link of a print in one transaction; the second to link it
\* takes its row back.
RowOfPaper(q) ==
    /\ pc[q] = "put" /\ doc[q] # NoDoc /\ Idle(q)
    /\ \/ /\ named[doc[q]] = {}
          /\ row' = row \cup {<<TenantOf[doc[q]], file[q]>>}
          /\ named' = [named EXCEPT ![doc[q]] = {file[q]}]
       \/ named[doc[q]] # {} /\ UNCHANGED <<row, named>>
    /\ UNCHANGED <<stored, gone, receipt, erased, sweeper, onDevice, exchange, history>>

\* A photo goes for good at the end of its retention, and each of its files no
\* other record of the tenant names.
Erase(d) ==
    /\ receipt[d] = "applied" /\ d \notin gone
    /\ LET Names(e) == TenantOf[e] = TenantOf[d] /\ e # d /\ e \notin gone
           taken == {h \in named[d] : ~\E e \in Doc : Names(e) /\ h \in named[e]}
       IN  /\ row' = row \ ({TenantOf[d]} \X taken)
           /\ erased' = erased \cup ({TenantOf[d]} \X taken)
    /\ named' = [named EXCEPT ![d] = {}] /\ gone' = gone \cup {d}
    /\ UNCHANGED <<stored, receipt, requests, sweeper, onDevice, exchange, history>>

(***************************************************************************)
(* The sweep of the store.  Old is what was last put before the grace that *)
(* ends where the sweep begins, so nothing turns old while it runs; a      *)
(* request takes less than the grace from its put to its row.              *)
(***************************************************************************)

TurnsOld(h) ==
    /\ sweep = "idle" /\ stored[h] = "new"
    /\ \A q \in Request : pc[q] = "put" => file[q] # h
    /\ stored' = [stored EXCEPT ![h] = "old"]
    /\ UNCHANGED <<database, requests, sweeper, onDevice, exchange, history>>

SweepStart ==
    /\ sweep = "idle"
    /\ todo' = {h \in Hash : stored[h] = "old"} /\ todo' # {}
    /\ sweep' = "running"
    /\ UNCHANGED <<stored, database, requests, unheld, aside, asideNew, onDevice, exchange, history>>

\* A plausible slip: what was held once counts as held.
FilesHeldOnce(names) == {h \in names : \E t \in Tenant : <<t, h>> \in row \cup erased}

FilesHeld(names) == {h \in names : \E t \in Tenant : <<t, h>> \in row}

Ask ==
    /\ sweep = "running" /\ unheld = {}
    /\ \E batch \in SUBSET todo :
        /\ Cardinality(batch) = BatchSize \/ (batch = todo /\ Cardinality(todo) < BatchSize)
        /\ batch # {}
        /\ todo' = todo \ batch /\ unheld' = batch \ FilesHeld(batch)
    /\ UNCHANGED <<stored, database, requests, sweep, aside, asideNew, onDevice, exchange, history>>

\* Moved aside; a file that is not there any more is passed over.
TakeOut(h) ==
    /\ sweep = "running" /\ h \in unheld
    /\ unheld' = unheld \ {h}
    /\ \/ stored[h] = "none" /\ UNCHANGED <<stored, sweep, aside, asideNew>>
       \/ /\ stored[h] # "none"
          /\ stored' = [stored EXCEPT ![h] = "none"]
          /\ sweep' = "aside" /\ aside' = h /\ asideNew' = (stored[h] = "new")
    /\ UNCHANGED <<database, requests, todo, onDevice, exchange, history>>

\* Put again before it was moved, it goes back, over what a later put wrote.
PutBack ==
    /\ sweep = "aside" /\ asideNew
    /\ stored' = [stored EXCEPT ![aside] = "new"]
    /\ sweep' = "running" /\ aside' = NoHash /\ asideNew' = FALSE
    /\ UNCHANGED <<database, requests, todo, unheld, onDevice, exchange, history>>

RemoveAside ==
    /\ sweep = "aside" /\ ~asideNew
    /\ sweep' = "running" /\ aside' = NoHash
    /\ UNCHANGED <<stored, database, requests, todo, unheld, asideNew, onDevice, exchange, history>>

SweepEnds ==
    /\ sweep = "running" /\ todo = {} /\ unheld = {} /\ sweep' = "idle"
    /\ UNCHANGED <<stored, database, requests, todo, unheld, aside, asideNew, onDevice,
                   exchange, history>>

\* The process ends: its requests end with it, and the sweep.  What lies aside
\* nobody moves back; the next sweep removes it.
ProcessEnds ==
    /\ Mishap /\ (asideNew => EndsAside)
    /\ pc' = [q \in Request |-> "idle"] /\ file' = [q \in Request |-> NoHash]
    /\ doc' = [q \in Request |-> NoDoc]
    /\ sweep' = "idle" /\ todo' = {} /\ unheld' = {} /\ aside' = NoHash /\ asideNew' = FALSE
    /\ IF awaits # NoRequest THEN Stopped ELSE UNCHANGED <<step, uploads, awaits, sending>>
    /\ UNCHANGED <<stored, database, onDevice, mayWait, letGo>>

-----------------------------------------------------------------------------

Device ==
    \/ \E d \in Photo, h \in Hash : KeepFile(d, h)
    \/ \E d \in Photo : QueueVersion(d) \/ TransmitAnswered(d) \/ TransmitAnswerLost(d)
    \/ \E h \in Hash : RefusedForGood(h)
    \/ \E q \in Request, h \in Hash : StartUpload(q, h)
    \/ StartExchange \/ UploadsDone \/ Ready \/ TransmitLost \/ UploadGivenUp \/ PageClosed

Serve(q) == Renew(q) \/ Write(q) \/ RowOfUpload(q) \/ RowOfPaper(q)

Sweep ==
    \/ SweepStart \/ Ask \/ PutBack \/ RemoveAside \/ SweepEnds
    \/ \E h \in Hash : TakeOut(h)

Next ==
    \/ Device \/ Sweep \/ ProcessEnds
    \/ \E q \in Request : Serve(q) \/ \E d \in Paper : StartPaper(q, d)
    \/ \E d \in Photo : Erase(d)
    \/ \E h \in Hash : TurnsOld(h)

Spec == Init /\ [][Next]_vars

\* The next exchange is asked for as long as something waits.
Exchange ==
    \/ StartExchange \/ UploadsDone \/ Ready
    \/ \E q \in Request, h \in Hash : StartUpload(q, h)
    \/ \E d \in Photo : TransmitAnswered(d)

\* Time passes whatever the sweep does, so a file turns old at last.
FairSpec ==
    /\ Spec /\ WF_vars(Exchange) /\ WF_vars(Sweep)
    /\ \A q \in Request : WF_vars(Serve(q))
    /\ \A h \in Hash : SF_vars(TurnsOld(h))

-----------------------------------------------------------------------------

\* No row is without its bytes: what a sweep takes, no tenant holds, whoever
\* puts, erases or prints the same bytes between its question and the removal.
\* And what stands has a row for every file it names.
KeepsWhatIsNamed ==
    /\ \A t \in Tenant, h \in Hash :
        <<t, h>> \in row => stored[h] # "none" \/ (aside = h /\ asideNew)
    /\ \A d \in Doc : \A h \in named[d] : <<TenantOf[d], h>> \in row

\* A version is answered with a conflict over its file only where the server
\* refused that file for good or an erasure took its row: never because the
\* version went up ahead of the file, whenever the photo was kept and however
\* often requests are lost.
NeverAheadOfItsFile ==
    \A d \in Photo : receipt[d] = "record_missing" =>
        \E h \in FilesOf[d] : h \in letGo \/ <<TenantOf[d], h>> \in erased

\* A version in the outbox is decided at last, though it is held back while a
\* file it names waits: no file stays on the list for ever.
PhotoArrives == \A d \in Photo : (d \in outbox) ~> (receipt[d] # "none" /\ d \notin outbox)

\* Bytes nobody holds any more leave the store, also when the process ended in
\* the middle of a sweep.
SpaceComesBack ==
    \A h \in Hash : <>[](\A t \in Tenant : <<t, h>> \notin row) => []<>(stored[h] = "none")

=============================================================================
