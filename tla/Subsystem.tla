----------------------------- MODULE Subsystem -----------------------------
(***************************************************************************)
(* The subsystem of an NVMe SSD (src/hil/nvme/subsystem.cc) and its        *)
(* namespaces (src/hil/nvme/namespace.cc): the admin commands, the logical *)
(* pages they allocate to namespaces, and the I/O commands that reach them.*)
(* Queues, aborts and completions are in NvmeController.                   *)
(*                                                                         *)
(* The host is external.  It waits for a create to end before the next     *)
(* one, formats and deletes a namespace only when no command uses it, and  *)
(* deletes none that claims more LBAs than it has room for, as one that    *)
(* was formatted does; what happens else is told in the README.            *)
(***************************************************************************)
EXTENDS NvmeCommand, Icl, FiniteSetsExt

CONSTANTS
  TotalLogicalPages,
  LogicalPageSize,  \* in units
  LBASize,          \* lbaSize of each LBA format, in units
  DefaultLBASize,   \* NVME_LBA_SIZE
  DefaultNamespaces,\* NVME_ENABLE_DEFAULT_NAMESPACE
  NewNamespace,     \* pairs of a size in LBAs and an LBA size the host asks for
  AdminOps,         \* admin commands the host issues
  IORequests        \* I/O commands the host issues: operation, LBA, LBAs

ASSUME SubsystemAssumption ==
  /\ TotalLogicalPages \in Nat \ {0} /\ LogicalPageSize \in Nat \ {0}
  /\ LBASize \subseteq Nat \ {0} /\ DefaultLBASize \in LBASize
  /\ DefaultNamespaces \in Nat
  /\ \A n \in NewNamespace : n[1] \in Nat /\ n[2] \in LBASize
  /\ \A io \in IORequests :
       /\ io.op \in {"flush", "write", "read", "compare", "datasetManagement"}
       /\ io.slba \in Nat /\ io.nlb \in Nat
       /\ io.op \in {"write", "read", "compare"} => io.nlb > 0

VARIABLES
  lNamespaces,            \* a set: the code sorts its list by NSID
  allocatedLogicalPages,
  bug                     \* panic("BUG") of createNamespace()

namespaceVars == <<lNamespaces, allocatedLogicalPages, bug>>
subsystemVars == <<commandVars, namespaceVars>>

\* A namespace with the range of logical pages it got.
Namespace(nsid, range, size, lba, attached) ==
  [nsid |-> nsid, range |-> range, size |-> size, lbaSize |-> lba,
   attached |-> attached]

Named(nsid) == {ns \in lNamespaces : ns.nsid = nsid}
NSIDs == 1 .. (Cardinality(lNamespaces) + 1)
Find(nsid) == CHOOSE ns \in lNamespaces : ns.nsid = nsid

-----------------------------------------------------------------------------
(* Allocation. *)

\* The free ranges are what the sorted ranges leave: one begins at page 0 and one
\* behind each range, and ends where the next range begins; some are empty.
FreeStarts(ranges) == {0} \cup {r.slpn + r.nlp : r \in ranges}
Room(start, ranges) ==
  Min({r.slpn : r \in {q \in ranges : q.slpn >= start}} \cup {TotalLogicalPages}) - start

\* To find them, the code splits the last free range by each range in turn, and
\* panics when that does not lie in it.
Inverts(ranges) ==
  \A r \in ranges :
    /\ r.slpn + r.nlp <= TotalLogicalPages
    /\ \A q \in ranges \ {r} : q.slpn < r.slpn => q.slpn + q.nlp <= r.slpn

RequestedLogicalPages(size, lba) == (size \div LogicalPageSize) * lba

\* The first free range that has room.
FirstFit(ranges, requested) ==
  LET fits == {p \in FreeStarts(ranges) : Room(p, ranges) >= requested}
  IN IF fits = {} THEN LPNRange(0, 0) ELSE LPNRange(Min(fits), requested)

\* createNamespace(): the range the namespace gets, or an empty one.
Allocate(size, lba, present, allocated) ==
  LET requested == RequestedLogicalPages(size, lba)
  IN IF requested > TotalLogicalPages - allocated THEN LPNRange(0, 0)
     ELSE FirstFit({ns.range : ns \in present}, requested)

\* init(): the default namespaces, one after the other.
DefaultSize ==
  ((TotalLogicalPages * LogicalPageSize) \div DefaultLBASize) \div DefaultNamespaces
DefaultPages(n) ==
  IF n = 0 THEN 0 ELSE n * RequestedLogicalPages(DefaultSize, DefaultLBASize)
SubsystemInit ==
  /\ lNamespaces =
       {Namespace(n, LPNRange(DefaultPages(n - 1), DefaultPages(1)), DefaultSize,
                  DefaultLBASize, TRUE) : n \in 1 .. DefaultNamespaces}
  /\ allocatedLogicalPages = DefaultPages(DefaultNamespaces)
  /\ bug = FALSE

-----------------------------------------------------------------------------
(* Admin commands.  Each is a record of what the host asked for. *)

\* These answer at once, some with an error.
deleteSQueue == <<>>
deleteCQueue == <<>>
abort == <<>>
setFeatures == <<>>
getFeatures == <<>>
csd == <<>>            \* csdSOCInit, csdSOCStop, csdAddTask, csdPoll
asyncEventReq == <<>>  \* not processed: answered as if its namespace were invalid

\* These write a page or a log to the host.
identify(p) == PointerStages(p) \o <<"out">>
getLogPage(p) == PointerStages(p) \o <<"out">>

\* Its health is for a namespace to tell.
namespaceLogPage(p) == <<"SUBMIT_COMMAND">> \o PointerStages(p) \o <<"out">>

AdminStages(op, p) ==
  CASE op = "identify" -> identify(p)
    [] op = "getLogPage" -> getLogPage(p)
    [] op = "namespaceLogPage" -> namespaceLogPage(p)
    [] op = "deleteSQueue" -> deleteSQueue
    [] op = "deleteCQueue" -> deleteCQueue
    [] op = "abort" -> abort
    [] op = "setFeatures" -> setFeatures
    [] op = "getFeatures" -> getFeatures
    [] op = "csd" -> csd
    [] op = "asyncEventReq" -> asyncEventReq

Reads(op) == op \in {"identify", "getLogPage", "namespaceLogPage"}

\* What a command is when it comes.  getLogPage() does not take what is for a
\* namespace, yet answers it; submitCommand() passes it on.
Came(r) ==
  IF r.op # "namespaceLogPage" THEN Begin(r)
  ELSE LET answered == [r EXCEPT !.answers = 1]
       IN IF Named(r.arg.nsid) = {} THEN Fail(answered) ELSE Begin(answered)

\* submitCommand() for the admin commands that change nothing here.
AdminCommand(s, op) ==
  \E p \in IF Reads(op) THEN PointersFor(1) ELSE {NoPointer},
     nsid \in IF op = "namespaceLogPage" THEN NSIDs ELSE {0} :
    /\ Submit(s, Came(Command(op, [nsid |-> nsid], p, AdminStages(op, p))))
    /\ UNCHANGED namespaceVars

\* The controller accepts the queue and calls doQueue when its list is read; or
\* refuses it, and then nobody answers.
QueueCommand(op, ret) ==
  IF ret = 0 THEN Begin(Command(op, <<>>, NoPointer, <<"queue">>))
  ELSE Command(op, <<>>, NoPointer, <<"refused">>)

createSQueue(s, ret) == Submit(s, QueueCommand("createSQueue", ret)) /\ UNCHANGED namespaceVars
createCQueue(s, ret) == Submit(s, QueueCommand("createCQueue", ret)) /\ UNCHANGED namespaceVars

\* namespaceManagement() to create: the NSID is chosen when the command comes,
\* the first that is free; the namespace when the data of the host is there.
FreeNSID == Min({n \in 1 .. Cardinality(lNamespaces) + 1 : Named(n) = {}})
Creating == \E s \in Slot : command[s].op = "create" /\ command[s].answers = 0
SubmitCreate(s, new) ==
  /\ ~Creating
  /\ \E p \in PointersFor(1) :
       Submit(s, Begin(Command("create", [nsid |-> FreeNSID, new |-> new], p,
                               PointerStages(p) \o <<"in">>)))
  /\ UNCHANGED namespaceVars

\* Its dmaDone, and createNamespace().
Create(s) ==
  /\ command[s].op = "create"
  /\ \E r \in StageEnded(s, "in") :
       LET size == r.arg.new[1]
           lba == r.arg.new[2]
           range == Allocate(size, lba, lNamespaces, allocatedLogicalPages)
       IN
       /\ bug' = (bug \/ ~Inverts({ns.range : ns \in lNamespaces}))
       /\ IF range.nlp = 0
          THEN /\ command' = [command EXCEPT ![s] = Fail(r)]
               /\ UNCHANGED <<lNamespaces, allocatedLogicalPages>>
          ELSE /\ command' = [command EXCEPT ![s] = NextStage(r)]
               /\ lNamespaces' = lNamespaces \cup
                    {Namespace(r.arg.nsid, range, size, lba, FALSE)}
               /\ allocatedLogicalPages' =
                    allocatedLogicalPages + RequestedLogicalPages(size, lba)
  /\ UNCHANGED submitted

\* A namespace has room for the LBAs it tells the host of.  One that was
\* formatted tells of as many as the whole device has.
HasRoom(ns) == ns.size * ns.lbaSize <= ns.range.nlp * LogicalPageSize

InUse(nsid) ==
  \E s \in Slot : /\ command[s].op \in {"io", "attach", "format", "namespaceLogPage"}
                 /\ command[s].arg.nsid = nsid

\* Mutant of Freed: rounds up what createNamespace() rounded down.
FreedUp(ns) == CeilDiv(ns.size * ns.lbaSize, LogicalPageSize) + 1

\* What destroyNamespace() takes off the account.
Freed(ns) == (ns.size * ns.lbaSize) \div LogicalPageSize

\* namespaceManagement() to delete, and destroyNamespace().
Delete(s, nsid) ==
  /\ ~InUse(nsid) /\ \A ns \in Named(nsid) : HasRoom(ns)
  /\ Submit(s, IF Named(nsid) = {} THEN Fail(Command("delete", <<>>, NoPointer, <<>>))
               ELSE Begin(Command("delete", <<>>, NoPointer, <<>>)))
  /\ lNamespaces' = lNamespaces \ Named(nsid)
  /\ allocatedLogicalPages' =
       allocatedLogicalPages -
         (IF Named(nsid) = {} THEN 0 ELSE Freed(Find(nsid)))
  /\ UNCHANGED bug

\* namespaceAttachment(): attach or detach, when the controller list is there.
SubmitAttachment(s, nsid, sel) ==
  /\ \E p \in PointersFor(1) :
       Submit(s, Begin(Command("attach", [nsid |-> nsid, sel |-> sel], p,
                               PointerStages(p) \o <<"in">>)))
  /\ UNCHANGED namespaceVars

Attachment(s) ==
  /\ command[s].op = "attach"
  /\ \E r \in StageEnded(s, "in") :
       LET found == Named(r.arg.nsid)
           attach == r.arg.sel = "attach"
           ok == IF attach THEN \E ns \in found : ~ns.attached
                 ELSE \A ns \in found : ns.attached
       IN
       /\ command' = [command EXCEPT ![s] = IF ok THEN NextStage(r) ELSE Fail(r)]
       /\ lNamespaces' = (lNamespaces \ found) \cup
                           {[ns EXCEPT !.attached = attach] : ns \in found}
  /\ UNCHANGED <<submitted, allocatedLogicalPages, bug>>

\* formatNVM(): the namespace changes when the command comes; then a job, and
\* the format of the HIL.
FormatNVM(s, nsid, lba) ==
  /\ ~InUse(nsid)
  /\ IF Named(nsid) = {}
     THEN /\ Submit(s, Fail(Command("format", [nsid |-> nsid], NoPointer, <<>>)))
          /\ UNCHANGED lNamespaces
     ELSE /\ Submit(s, Begin(Command("format", [nsid |-> nsid], NoPointer,
                                     <<"job", "HIL">>)))
          /\ lNamespaces' = (lNamespaces \ Named(nsid)) \cup
               {[Find(nsid) EXCEPT !.lbaSize = lba,
                   !.size = (TotalLogicalPages * LogicalPageSize) \div lba]}
  /\ UNCHANGED <<allocatedLogicalPages, bug>>

-----------------------------------------------------------------------------
(* I/O commands of a namespace. *)

\* Mutant of convertUnit: the part before the first whole page is forgotten.
convertUnitWithoutOffset(ns, slba, nlblk) ==
  LET ratio == LogicalPageSize \div ns.lbaSize
      pages == ns.lbaSize \div LogicalPageSize
      length == nlblk * ns.lbaSize
  IN IF ratio = 0 THEN Request(ns.range.slpn + slba * pages, nlblk * pages, 0, length)
     ELSE Request(ns.range.slpn + (slba \div ratio), CeilDiv(nlblk, ratio),
                  (slba % ratio) * ns.lbaSize, length)

\* convertUnit(): the request for a range of LBAs.
convertUnit(ns, slba, nlblk) ==
  LET ratio == LogicalPageSize \div ns.lbaSize
      pages == ns.lbaSize \div LogicalPageSize
      length == nlblk * ns.lbaSize
  IN IF ratio = 0 THEN Request(ns.range.slpn + slba * pages, nlblk * pages, 0, length)
     ELSE Request(ns.range.slpn + (slba \div ratio), CeilDiv(nlblk + (slba % ratio), ratio),
                  (slba % ratio) * ns.lbaSize, length)

\* The stages of each, once the namespace took it.
flush(p) == <<"job", "HIL">>
write(p) == PointerStages(p) \o <<"job", "in, HIL">>
read(p) == PointerStages(p) \o <<"job", "out, HIL">>
compare(p) == PointerStages(p) \o <<"job", "in, HIL">>
datasetManagement(p) == PointerStages(p) \o <<"job", "in", "HIL">>

IOStages(op, p) ==
  CASE op = "flush" -> flush(p)
    [] op = "write" -> write(p)
    [] op = "read" -> read(p)
    [] op = "compare" -> compare(p)
    [] op = "datasetManagement" -> datasetManagement(p)

\* The pointers the host may use for an I/O command.
PointersOf(ns, io) ==
  CASE io.op = "flush" -> {NoPointer}
    [] io.op = "datasetManagement" -> PointersFor(1)
    [] OTHER -> PointersFor(io.nlb * ns.lbaSize)

\* submitCommand() for the rest: a job, then the namespace; or an error.
SubmitIO(s, nsid, io) ==
  LET arg == [nsid |-> nsid, io |-> io, request |-> Request(0, 0, 0, 0)] IN
  /\ IF Named(nsid) = {} THEN Submit(s, Fail(Command("io", arg, NoPointer, <<>>)))
     ELSE \E p \in PointersOf(Find(nsid), io) :
            Submit(s, Begin(Command("io", arg, p,
                                    <<"SUBMIT_COMMAND">> \o IOStages(io.op, p))))
  /\ \A ns \in Named(nsid) : io.slba + io.nlb <= ns.size
  /\ UNCHANGED namespaceVars

\* Namespace::submitCommand().
NamespaceSubmit(s) ==
  /\ \E r \in StageEnded(s, "SUBMIT_COMMAND") :
       command' = [command EXCEPT ![s] =
         IF r.op = "io" /\ ~Find(r.arg.nsid).attached THEN Fail(r) ELSE NextStage(r)]
  /\ UNCHANGED <<submitted, namespaceVars>>

\* The job of the command ends (doRead, begin): its request goes to the HIL,
\* beside its transfers.
RequestOf(ns, io) ==
  IF io.op = "flush"
  THEN Request(ns.range.slpn, ns.range.nlp, 0, ns.range.nlp * LogicalPageSize)
  ELSE convertUnit(ns, io.slba, io.nlb)
Convert(s) ==
  /\ command[s].op = "io"
  /\ \E r \in StageEnded(s, "job") :
       \E request \in {RequestOf(ns, r.arg.io) : ns \in Named(r.arg.nsid)} :
         command' = [command EXCEPT ![s] = [NextStage(r) EXCEPT !.arg.request = request]]
  /\ UNCHANGED <<submitted, namespaceVars>>

\* Every other callback of a command.
SubsystemCallback(s) ==
  /\ \/ PieceEnds(s)
     \/ GoesOn(s, {"pointer", "queue", "out", "HIL", "in, HIL", "out, HIL"})
     \/ command[s].op = "io" /\ GoesOn(s, {"in"})
     \/ command[s].op = "format" /\ GoesOn(s, {"job"})
  /\ UNCHANGED <<submitted, namespaceVars>>

-----------------------------------------------------------------------------
Has(op) == op \in AdminOps

SubsystemHost(s) ==
  \/ \E op \in AdminOps \cap {"identify", "getLogPage", "namespaceLogPage",
                              "deleteSQueue", "deleteCQueue", "abort", "setFeatures", "getFeatures", "csd",
                              "asyncEventReq"} : AdminCommand(s, op)
  \/ Has("createSQueue") /\ \E ret \in {0, 2} : createSQueue(s, ret)
  \/ Has("createCQueue") /\ \E ret \in {0, 1} : createCQueue(s, ret)
  \/ Has("create") /\ \E new \in NewNamespace : SubmitCreate(s, new)
  \/ Has("delete") /\ \E nsid \in NSIDs : Delete(s, nsid)
  \/ Has("attach") /\ \E nsid \in NSIDs, sel \in {"attach", "detach"} :
                        SubmitAttachment(s, nsid, sel)
  \/ Has("format") /\ \E nsid \in NSIDs, lba \in LBASize : FormatNVM(s, nsid, lba)
  \/ \E nsid \in NSIDs, io \in IORequests : SubmitIO(s, nsid, io)

SubsystemStep(s) ==
  Create(s) \/ Attachment(s) \/ NamespaceSubmit(s) \/ Convert(s) \/ SubsystemCallback(s)

-----------------------------------------------------------------------------
(* Properties. *)

\* Namespaces never share a logical page, in whatever order they are created,
\* formatted and deleted; the free ranges can always be found (no panic); and
\* the account of allocated pages is exact, so a namespace is refused only when
\* its pages are not there.
NamespacesApart ==
  /\ ~bug
  /\ Inverts({ns.range : ns \in lNamespaces})
  /\ \A a, b \in lNamespaces : a # b => a.nsid # b.nsid /\ a.range # b.range
  /\ allocatedLogicalPages = 
       MapThenSumSet(LAMBDA ns : ns.range.nlp, lNamespaces)

\* A request to the layers below is, cut into pages, for the units that its LBAs
\* lie on: all of them, each once, and no other (a trim takes the whole of their
\* pages).  These belong to the namespace it came for, if that one has room for
\* the LBAs it tells the host of.
UnitsOfLBAs(ns, io) ==
  {ns.range.slpn * LogicalPageSize + u :
     u \in io.slba * ns.lbaSize .. (io.slba + io.nlb) * ns.lbaSize - 1}
PagesIn(range) == range.slpn .. range.slpn + range.nlp - 1
RequestsInside ==
  \A s \in Slot :
    command[s].op = "io" /\ command[s].arg.request.range.nlp > 0 =>
      \A ns \in Named(command[s].arg.nsid) :
        LET io == command[s].arg.io
            request == command[s].arg.request
            whole == io.op \in {"flush", "datasetManagement"}
            pieces == IF whole THEN WholePages(request, LogicalPageSize)
                      ELSE PageRequests(request, LogicalPageSize)
            units(i) == UnitsIn(pieces[i], LogicalPageSize)
            all == UNION {units(i) : i \in DOMAIN pieces}
        IN /\ io.op # "flush" => UnitsOfLBAs(ns, io) \subseteq all
           /\ ~whole => /\ all \subseteq UnitsOfLBAs(ns, io)
                        /\ \A i \in DOMAIN pieces : units(i) # {}
                        /\ \A i, j \in DOMAIN pieces : i # j => units(i) \cap units(j) = {}
           /\ HasRoom(ns) => \A u \in all : u \div LogicalPageSize \in PagesIn(ns.range)

\* "NVM commands or Namespace specific Admin commands: if (!processed)": no
\* command goes to a namespace that was answered before.
PassedOnUnanswered ==
  \A s \in Slot : AtStage(s, {"SUBMIT_COMMAND"}) => command[s].answers = 0
=============================================================================
