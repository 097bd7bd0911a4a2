---------------------------- MODULE NamespaceMgr ----------------------------
(***************************************************************************)
(* The namespace manager (CCSP_NamespaceMgr), in which the component       *)
(* registrar keeps which component serves which data model name.  It holds *)
(* every name twice: in the queue of its component (ParamspaceQueue), and  *)
(* in a hash table from names to components (hAtomNamespace) that keeps    *)
(* the entries of a name in a chain, the newest first.  A request          *)
(* registers an array of names.  The operations run one at a time.         *)
(*                                                                         *)
(* Callers keep two preconditions without which the code follows a null    *)
(* pointer: a name is unregistered for a known component only, and after   *)
(* CleanAll has removed the hash table BuildNamespaces comes first.        *)
(***************************************************************************)
EXTENDS Integers, Sequences, FiniteSets, SequencesExt

CONSTANTS
    Comps,         \* component names
    Names,         \* data model parameter names
    InvalidNames,  \* those RegisterNamespaces finds ill-formed
    Requests,      \* arrays of names, as sequences
    Objs, Under,   \* [Objs -> SUBSET Names]: the names below an object
    Prefix,        \* [Comps -> strings]: pPrefix of each component, or ""
    SubsysPrefix,  \* the prefix of the manager itself, None for NULL
    MaxDepth,      \* bound: names in the queue of a component
    Width,         \* number of values of uTotalNamespace
    None,          \* NULL
    Freed          \* a component object that was freed

ASSUME NamespaceConstants ==
    /\ InvalidNames \subseteq Names /\ Requests \subseteq Seq(Names)
    /\ Under \in [Objs -> SUBSET Names]
    /\ {None, Freed} \cap Comps = {} /\ None # Freed
    /\ IsFiniteSet(Comps) /\ MaxDepth \in Nat /\ Width \in Nat \ {0}

VARIABLES
    ComponentQueue,  \* the components that are known
    ParamspaceQueue, \* the names in the queue of each component
    hasTable,        \* hAtomNamespace is not NULL
    atoms,           \* the entries of each name in it, the newest first
    uTotalNamespace,
    status,          \* what the last operation returned
    misused,         \* history: a component unregistered a name it does not have
    cleaned          \* history: CleanAll has run

vars == <<ComponentQueue, ParamspaceQueue, hasTable, atoms, uTotalNamespace,
          status, misused, cleaned>>

Init ==
    /\ ComponentQueue = {}
    /\ ParamspaceQueue = [c \in Comps |-> <<>>]
    /\ hasTable = TRUE /\ atoms = [n \in Names |-> <<>>]
    /\ uTotalNamespace = 0
    /\ status = "success"
    /\ misused = FALSE /\ cleaned = FALSE

-----------------------------------------------------------------------------
(***************************************************************************)
(* AnscAtomTable                                                           *)
(***************************************************************************)
\* How often n is in an array, a queue or a chain.
Times(names, n) == Cardinality({i \in DOMAIN names : names[i] = n})

Found(n) == atoms[n] # <<>>

\* AnscAtoGetAtomByName: the component of the newest entry.
GetAtomByName(n) == IF Found(n) THEN Head(atoms[n]) ELSE None

\* AnscAtoAddAtomByName for each name of a request.
Added(request, c) ==
    [n \in Names |-> [i \in 1..Times(request, n) |-> c] \o atoms[n]]

\* Mutant: every entry of the name goes.
DelAtomByName_All(table, names) ==
    [n \in Names |-> IF Times(names, n) > 0 THEN <<>> ELSE table[n]]

\* AnscAtoDelAtomByName for each of the names: its newest entry goes.
DelAtomByName(table, names) ==
    [n \in Names |-> SubSeq(table[n], Times(names, n) + 1, Len(table[n]))]

-----------------------------------------------------------------------------
(***************************************************************************)
(* CcspNsMgrRegisterNamespaces, CcspNsMgrBuildNamespaces                   *)
(***************************************************************************)
\* The names of a request that would end its validation, and the one that does.
Stops(request) ==
    {i \in DOMAIN request : request[i] \in InvalidNames \/ Found(request[i])}
FirstStop(request) ==
    CHOOSE i \in Stops(request) : \A j \in Stops(request) : i <= j

\* A name that is the component's own is answered like the whole request.
\* The name of a freed component is whatever its memory holds now.
Refusals(c, request) ==
    LET n == request[FirstStop(request)] IN
    CASE n \in InvalidNames       -> {"invalid"}
      [] GetAtomByName(n) = c     -> {"success"}
      [] GetAtomByName(n) = Freed -> {"success", "overlap"}
      [] OTHER                    -> {"overlap"}

\* LookforComponent or a new component, BuildFromNamespaceStructArray, and
\* an entry in the hash table for each name.
Add(c, request) ==
    /\ Len(ParamspaceQueue[c]) + Len(request) <= MaxDepth
    /\ ComponentQueue' = ComponentQueue \cup {c}
    /\ ParamspaceQueue' = [ParamspaceQueue EXCEPT ![c] = @ \o request]
    /\ atoms' = Added(request, c)
    /\ uTotalNamespace' = (uTotalNamespace + Len(request)) % Width
    /\ status' = "success"

\* Mutant: names of other components are taken over.
Registers_Overlap(c, request) ==
    /\ hasTable
    /\ \A i \in DOMAIN request : request[i] \notin InvalidNames
    /\ Add(c, request)
    /\ UNCHANGED <<hasTable, misused, cleaned>>

Registers(c, request) ==
    /\ hasTable
    /\ Stops(request) = {}
    /\ Add(c, request)
    /\ UNCHANGED <<hasTable, misused, cleaned>>

RegisterEnds(c, request) ==
    /\ hasTable
    /\ Stops(request) # {}
    /\ status' \in Refusals(c, request)
    /\ UNCHANGED <<ComponentQueue, ParamspaceQueue, hasTable, atoms,
                   uTotalNamespace, misused, cleaned>>

\* ppSpaceCopy: the names nobody has registered, in the order of the request.
Free(request) == {i \in DOMAIN request : ~Found(request[i])}
Fresh(request) ==
    [k \in 1..Cardinality(Free(request)) |->
        request[CHOOSE i \in Free(request) :
                  Cardinality({j \in Free(request) : j <= i}) = k]]

\* Makes the hash table anew if there is none.
BuildNamespaces(c, request) ==
    /\ hasTable' = TRUE
    /\ Add(c, Fresh(request))
    /\ UNCHANGED <<misused, cleaned>>

-----------------------------------------------------------------------------
(***************************************************************************)
(* CcspNsMgrUnregisterNamespace, CcspNsMgrUnregisterComponent,             *)
(* CcspNsMgrCleanAll                                                       *)
(***************************************************************************)
\* CcspNsCompUnregisterNamespace: when the name is not found, pCcspName has
\* come to the last entry.
Dequeued(queue, n) ==
    IF n \in Range(queue)
    THEN RemoveAt(queue, CHOOSE i \in DOMAIN queue :
                           queue[i] = n /\ \A j \in 1..(i - 1) : queue[j] # n)
    ELSE SubSeq(queue, 1, Len(queue) - 1)

UnregisterNamespace(c, n) ==
    /\ hasTable /\ c \in ComponentQueue
    /\ ParamspaceQueue[c] # <<>> /\ Found(n)
    /\ atoms' = DelAtomByName(atoms, <<n>>)
    /\ uTotalNamespace' = (uTotalNamespace - 1) % Width
    /\ ParamspaceQueue' = [ParamspaceQueue EXCEPT ![c] = Dequeued(@, n)]
    /\ misused' = (misused \/ n \notin Range(ParamspaceQueue[c]))
    /\ status' = "success"
    /\ UNCHANGED <<ComponentQueue, hasTable, cleaned>>

UnregisterMismatch(c, n) ==
    /\ hasTable /\ c \in ComponentQueue
    /\ ParamspaceQueue[c] = <<>> \/ ~Found(n)
    /\ status' = "mismatch"
    /\ UNCHANGED <<ComponentQueue, ParamspaceQueue, hasTable, atoms,
                   uTotalNamespace, misused, cleaned>>

\* CcspFreeNamespaceComponent: what the table still has of c dangles.
Dangle(table, c) ==
    [n \in Names |-> [i \in DOMAIN table[n] |-> IF table[n][i] = c THEN Freed
                                               ELSE table[n][i]]]

\* Mutant: the names are not taken off the count.
UnregisterComponent_KeepsCount(c) ==
    /\ hasTable /\ c \in ComponentQueue
    /\ atoms' = Dangle(DelAtomByName(atoms, ParamspaceQueue[c]), c)
    /\ ComponentQueue' = ComponentQueue \ {c}
    /\ ParamspaceQueue' = [ParamspaceQueue EXCEPT ![c] = <<>>]
    /\ status' = "success"
    /\ UNCHANGED <<uTotalNamespace, hasTable, misused, cleaned>>

UnregisterComponent(c) ==
    /\ hasTable /\ c \in ComponentQueue
    /\ atoms' = Dangle(DelAtomByName(atoms, ParamspaceQueue[c]), c)
    /\ uTotalNamespace' = (uTotalNamespace - Len(ParamspaceQueue[c])) % Width
    /\ ComponentQueue' = ComponentQueue \ {c}
    /\ ParamspaceQueue' = [ParamspaceQueue EXCEPT ![c] = <<>>]
    /\ status' = "success"
    /\ UNCHANGED <<hasTable, misused, cleaned>>

UnknownComponent(c) ==
    /\ c \notin ComponentQueue
    /\ status' = "unknown"
    /\ UNCHANGED <<ComponentQueue, ParamspaceQueue, hasTable, atoms,
                   uTotalNamespace, misused, cleaned>>

\* Mutant: the hash table is given up, its entries are not.
CleanAll_KeepsAtoms ==
    /\ ComponentQueue' = {}
    /\ ParamspaceQueue' = [c \in Comps |-> <<>>]
    /\ hasTable' = FALSE
    /\ cleaned' = TRUE
    /\ status' = "success"
    /\ UNCHANGED <<atoms, uTotalNamespace, misused>>

\* The count is left as it was.
CleanAll ==
    /\ ComponentQueue' = {}
    /\ ParamspaceQueue' = [c \in Comps |-> <<>>]
    /\ hasTable' = FALSE /\ atoms' = [n \in Names |-> <<>>]
    /\ cleaned' = TRUE
    /\ status' = "success"
    /\ UNCHANGED <<uTotalNamespace, misused>>

Next ==
    \/ \E c \in Comps, request \in Requests :
         \/ Registers(c, request) \/ RegisterEnds(c, request)
         \/ BuildNamespaces(c, request)
    \/ \E c \in Comps, n \in Names :
         UnregisterNamespace(c, n) \/ UnregisterMismatch(c, n)
    \/ \E c \in Comps : UnregisterComponent(c) \/ UnknownComponent(c)
    \/ CleanAll

Spec == Init /\ [][Next]_vars

-----------------------------------------------------------------------------
(***************************************************************************)
(* CcspNsMgrDiscoverNamespace: the components that serve a name, asked for *)
(* by prefix p.  A parameter is looked up in the hash table, an object in  *)
(* the queues of the components.                                           *)
(***************************************************************************)
ParamPrefixMatches(c, p) ==
    IF p \in {"", None} THEN Prefix[c] = ""
    ELSE (Prefix[c] = "" \/ p = Prefix[c]) /\ SubsysPrefix \notin {"", None}

ObjPrefixMatches(c, p) ==
    IF p \in {"", None} THEN Prefix[c] = ""
    ELSE (Prefix[c] = "" /\ SubsysPrefix \in {None, p}) \/ p = Prefix[c]

\* {} stands for CCSP_CR_ERR_UNSUPPORTED_NAMESPACE.
DiscoverParam(n, p) ==
    {c \in {GetAtomByName(n)} \ {None} : ParamPrefixMatches(c, p)}

\* IsObjectSupported, all levels.
IsObjectSupported(c, o) == Range(ParamspaceQueue[c]) \cap Under[o] # {}

DiscoverObj(o, p) ==
    {c \in ComponentQueue : IsObjectSupported(c, o) /\ ObjPrefixMatches(c, p)}

-----------------------------------------------------------------------------
(***************************************************************************)
(* Properties                                                              *)
(***************************************************************************)
\* The queues and the table hold names, the count fits its type, and
\* without a hash table there are no entries.
TypeOK ==
    /\ ComponentQueue \subseteq Comps
    /\ ParamspaceQueue \in [Comps -> Seq(Names)]
    /\ \A c \in Comps : /\ Len(ParamspaceQueue[c]) <= MaxDepth
                        /\ c \notin ComponentQueue => ParamspaceQueue[c] = <<>>
    /\ atoms \in [Names -> Seq(Comps \cup {Freed})]
    /\ hasTable \in BOOLEAN /\ (~hasTable => \A n \in Names : ~Found(n))
    /\ uTotalNamespace \in 0..(Width - 1)
    /\ status \in {"success", "invalid", "overlap", "mismatch", "unknown"}
    /\ misused \in BOOLEAN /\ cleaned \in BOOLEAN

\* As long as components unregister only names they have, the hash table
\* has of every name exactly the entries the component's queue has, and no
\* entry leads to a component that UnregisterComponent freed.  A caller that
\* asks without a prefix or with the manager's own sees this: the object-level
\* discovery of DiscoverNamespace, which walks the queues, finds exactly the
\* components its parameter-level discovery, which asks the hash table, finds
\* for the names below the object.
IndexMatchesQueues ==
    ~misused =>
      /\ \A n \in Names :
           /\ \A i \in DOMAIN atoms[n] : atoms[n][i] # Freed
           /\ \A c \in Comps : Times(atoms[n], c) = Times(ParamspaceQueue[c], n)
      /\ \A o \in Objs, p \in {"", SubsysPrefix} :
           DiscoverObj(o, p) = UNION {DiscoverParam(n, p) : n \in Under[o]}

\* The places taken in the queues.
Queued == {e \in Comps \X (1..MaxDepth) : e[2] <= Len(ParamspaceQueue[e[1]])}

\* GetCountOfRegNamespace is the number of names in the queues, whatever
\* components unregister and whatever wraps on the way, until CleanAll
\* forgets to reset it.
CountExact == ~cleaned => uTotalNamespace = Cardinality(Queued) % Width

\* The owner of a name, as the hash table has it.
Owner == [n \in Names |-> GetAtomByName(n)]

Dir == INSTANCE NameDirectory WITH owner <- Owner

\* The manager implements the directory: a name is claimed only when nobody
\* has it, and given up only by the component that has it.  Steps after
\* a component unregistered a name it does not have are exempt, for
\* that step takes the name from its owner.
DirectoryKept == Dir!Init /\ [][misused' \/ Dir!Next]_Owner
=============================================================================
