--------------------------- MODULE ModuleRegistry ---------------------------
(***************************************************************************)
(* The registry of plug-in modules: registration, upgrade, tenant states   *)
(* and removal of one module name.  Source: src/src/modules/registry.      *)
(*                                                                         *)
(* Every operation is a database transaction at read committed: it reads   *)
(* what others have committed, its writes are kept with it until it        *)
(* commits, and a row it has written is locked.  save compares the entity  *)
(* with the committed row, writes the columns that differ, and inserts an  *)
(* entity whose row is gone.  The lifecycle hooks are external code that   *)
(* may throw.                                                              *)
(***************************************************************************)
EXTENDS Integers, SequencesExt

CONSTANTS
    Tenants,         \* tenants
    Global,          \* the state row without a tenant
    RegistryCalls,   \* operations under way (bound)
    NoOperation,
    MaxVersion,      \* bound on versions
    MaxRegistryCalls \* bound on operations

ASSUME RegistryAssumption ==
    /\ Global \notin Tenants /\ NoOperation \notin RegistryCalls
    /\ MaxVersion \in Nat \ {0} /\ MaxRegistryCalls \in Nat

VARIABLES
    plugin,       \* the module's committed row
    tenantState,  \* committed states: none, enabled or disabled
    locks,        \* the operation that holds each row
    operation,    \* operations under way
    installed,    \* onInstall of this name has returned (history)
    registryCalls,
    loading       \* a load of an entry point

registryVars == <<plugin, tenantState, locks, operation, installed, registryCalls, loading>>

NoPlugin == [version |-> 0, status |-> "none"]
States == Tenants \union {Global}
NoLoading == [pc |-> "new", reference |-> <<>>, declared |-> {}, hooks |-> {}]
NoOp == [pc |-> "idle", row |-> NoPlugin, t |-> Global, enabled |-> FALSE, saves |-> {}]

RegistryInit ==
    /\ plugin = NoPlugin
    /\ tenantState = [t \in States |-> "none"]
    /\ locks = [k \in States \union {"plugin"} |-> NoOperation]
    /\ operation = [c \in RegistryCalls |-> NoOp]
    /\ installed = FALSE
    /\ registryCalls = 0
    /\ loading = NoLoading

OperationBegins(c) ==
    /\ operation[c].pc = "idle"
    /\ registryCalls < MaxRegistryCalls
    /\ registryCalls' = registryCalls + 1

OperationMoves(c, to) == operation' = [operation EXCEPT ![c] = to]

\* A write waits for the transaction that holds the row.
Takes(c, k) ==
    /\ locks[k] \in {NoOperation, c}
    /\ locks' = [locks EXCEPT ![k] = c]

Released(c) == [k \in DOMAIN locks |-> IF locks[k] = c THEN NoOperation ELSE locks[k]]

-----------------------------------------------------------------------------
(* register *)

\* A manifest of version v is valid, compatible and loaded, and the name looked up.
RegisterModule(c, v) ==
    /\ OperationBegins(c)
    /\ OperationMoves(c,
           IF plugin = NoPlugin
           THEN [NoOp EXCEPT !.pc = "insert", !.row = [version |-> v, status |-> "registered"]]
           ELSE IF v > plugin.version
           THEN [NoOp EXCEPT !.pc = "onUpgrade", !.row = [plugin EXCEPT !.version = v]]
           ELSE NoOp)
    /\ UNCHANGED <<plugin, tenantState, locks, installed>>

\* The name is unique: an insert waits for another one, and fails when it finds
\* the name committed.
InsertModule(c) ==
    /\ operation[c].pc = "insert"
    /\ IF plugin # NoPlugin THEN OperationMoves(c, NoOp) /\ UNCHANGED locks
       ELSE Takes(c, "plugin") /\ OperationMoves(c, [operation[c] EXCEPT !.pc = "onInstall", !.saves = {"plugin"}])
    /\ UNCHANGED <<plugin, tenantState, installed, registryCalls>>

OnInstall(c) ==
    /\ operation[c].pc = "onInstall"
    /\ installed' = TRUE
    /\ OperationMoves(c, [operation[c] EXCEPT !.pc = "commit"])
    /\ UNCHANGED <<plugin, tenantState, locks, registryCalls>>

OnUpgrade(c) ==
    /\ operation[c].pc = "onUpgrade"
    /\ OperationMoves(c, [operation[c] EXCEPT !.pc = "savePlugin", !.t = "upgrade"])
    /\ UNCHANGED <<plugin, tenantState, locks, installed, registryCalls>>

-----------------------------------------------------------------------------
(* enable and disable *)

\* The module and the state row are read; for the global default the module's
\* status changes too.
SetEnabled(c, t, on) ==
    /\ OperationBegins(c)
    /\ plugin # NoPlugin
    /\ OperationMoves(c, [NoOp EXCEPT !.pc = IF t = Global THEN "savePlugin" ELSE "saveState",
                                      !.t = t, !.enabled = on,
                                      !.row = [plugin EXCEPT !.status = IF on THEN "enabled" ELSE "disabled"]])
    /\ UNCHANGED <<plugin, tenantState, locks, installed>>

Enable(c, t) == SetEnabled(c, t, TRUE)
Disable(c, t) == SetEnabled(c, t, FALSE)

\* save of the module's row: nothing is written when nothing differs.
SavePlugin(c) ==
    LET op == operation[c]
        to == IF op.t = "upgrade" THEN "commit" ELSE "saveState"
    IN  /\ op.pc = "savePlugin"
        /\ IF op.row = plugin
           THEN OperationMoves(c, [op EXCEPT !.pc = to]) /\ UNCHANGED locks
           ELSE Takes(c, "plugin") /\ OperationMoves(c, [op EXCEPT !.pc = to, !.saves = {"plugin"}])
        /\ UNCHANGED <<plugin, tenantState, installed, registryCalls>>

\* save of the state: without its module the insert violates the foreign key.
SaveState(c) ==
    LET op == operation[c]
    IN  /\ op.pc = "saveState"
        /\ IF plugin = NoPlugin /\ "plugin" \notin op.saves
           THEN OperationMoves(c, NoOp) /\ locks' = Released(c)
           ELSE Takes(c, op.t) /\ OperationMoves(c, [op EXCEPT !.pc = "commit", !.saves = @ \union {op.t}])
        /\ UNCHANGED <<plugin, tenantState, installed, registryCalls>>

-----------------------------------------------------------------------------
(* deregister *)

\* Refused while a state is enabled.
Deregister(c) ==
    /\ OperationBegins(c)
    /\ plugin # NoPlugin
    /\ \A t \in States : tenantState[t] # "enabled"
    /\ OperationMoves(c, [NoOp EXCEPT !.pc = "onUninstall"])
    /\ UNCHANGED <<plugin, tenantState, locks, installed>>

OnUninstall(c) ==
    /\ operation[c].pc = "onUninstall"
    /\ OperationMoves(c, [operation[c] EXCEPT !.pc = "remove"])
    /\ UNCHANGED <<plugin, tenantState, locks, installed, registryCalls>>

\* The states are deleted and the module's row is removed.
RemoveModule(c) ==
    /\ operation[c].pc = "remove"
    /\ \A k \in DOMAIN locks : locks[k] \in {NoOperation, c}
    /\ locks' = [k \in DOMAIN locks |-> c]
    /\ OperationMoves(c, [operation[c] EXCEPT !.pc = "commit", !.saves = DOMAIN locks])
    /\ UNCHANGED <<plugin, tenantState, installed, registryCalls>>

-----------------------------------------------------------------------------
(* runInTransaction *)

CommitOperation(c) ==
    LET op == operation[c]
        set == IF op.row = NoPlugin THEN "none" ELSE IF op.enabled THEN "enabled" ELSE "disabled"
    IN  /\ op.pc = "commit"
        /\ plugin' = IF "plugin" \in op.saves THEN op.row ELSE plugin
        /\ tenantState' = [t \in States |-> IF t \in op.saves THEN set ELSE tenantState[t]]
        /\ locks' = Released(c)
        /\ OperationMoves(c, NoOp)
        /\ UNCHANGED <<installed, registryCalls>>

\* A hook throws, the database refuses or the process exits.
RollBack(c) ==
    /\ operation[c].pc # "idle"
    /\ locks' = Released(c)
    /\ OperationMoves(c, NoOp)
    /\ UNCHANGED <<plugin, tenantState, installed, registryCalls>>

RegistryNext ==
    /\ UNCHANGED loading
    /\ \E c \in RegistryCalls :
        \/ \E v \in 1..MaxVersion : RegisterModule(c, v)
        \/ \E t \in States : Enable(c, t) \/ Disable(c, t)
        \/ Deregister(c)
        \/ InsertModule(c) \/ OnInstall(c) \/ OnUpgrade(c) \/ SavePlugin(c) \/ SaveState(c)
        \/ OnUninstall(c) \/ RemoveModule(c) \/ CommitOperation(c) \/ RollBack(c)

-----------------------------------------------------------------------------
(* ModuleLifecycleLoader.  A path is the sequence of its segments.           *)

ProjectRoot == <<"app">>
ModuleRoot == <<"app", "modules">>
Segments == {"modules", "src", "..", ".", "a", "..a"}
EntryPoints == [absolute : BOOLEAN, path : SeqOf(Segments, 3) \ {<<>>}]

\* path.resolve
Resolve(base, path) ==
    FoldLeft(LAMBDA at, segment :
                 CASE segment = ".." -> IF at = <<>> THEN at ELSE Front(at)
                   [] segment = "." -> at
                   [] OTHER -> Append(at, segment),
             base, path)

IsLocal(e) == e.absolute \/ e.path[1] \in {".", "..", "..a"} \/ (e.path[1] = "modules" /\ Len(e.path) > 1)
IsSource(e) == ~e.absolute /\ e.path[1] = "src" /\ Len(e.path) > 1

\* path.relative from the module root is empty, or starts with two dots: the
\* reference is not below it, or its first name there starts with them.
Outside(reference) ==
    \/ ~IsStrictPrefix(ModuleRoot, reference)
    \/ reference[Len(ModuleRoot) + 1] = "..a"

\* load of an entry point that is not bound: resolveReference
ResolveReference(e, declared) ==
    LET reference == Resolve(IF e.absolute THEN <<>> ELSE ProjectRoot, e.path)
    IN  /\ loading = NoLoading
        /\ loading' = IF IsSource(e) \/ (IsLocal(e) /\ Outside(reference))
                      THEN [NoLoading EXCEPT !.pc = "refused"]
                      ELSE [NoLoading EXCEPT !.pc = "require", !.declared = declared,
                                !.reference = IF IsLocal(e) THEN reference ELSE <<"package">>]
        /\ UNCHANGED <<plugin, tenantState, locks, operation, installed, registryCalls>>

Hooks == {"onInstall", "onUpgrade"}
ExportKinds == {"none", "object", "class", "other"}

\* instantiate: default ?? lifecycle ?? the export itself, of the namespace
\* a require returns
Candidate(default, lifecycle) ==
    IF default # "none" THEN "default" ELSE IF lifecycle # "none" THEN "lifecycle" ELSE "self"

\* assertDeclaredHooks, of what was bound or instantiated
HasDeclaredHooks(declared, hooks) == declared \subseteq hooks

\* load of a bound entry point
LoadBound(declared, hooks) ==
    /\ loading = NoLoading
    /\ loading' = IF HasDeclaredHooks(declared, hooks)
                  THEN [pc |-> "loaded", reference |-> <<"bound">>, declared |-> declared, hooks |-> hooks]
                  ELSE [NoLoading EXCEPT !.pc = "refused"]
    /\ UNCHANGED <<plugin, tenantState, locks, operation, installed, registryCalls>>

\* The file is required; hooks are those of each candidate.
LoadLifecycle(default, lifecycle, hooks) ==
    LET chosen == Candidate(default, lifecycle)
        kind == CASE chosen = "default" -> default [] chosen = "lifecycle" -> lifecycle [] OTHER -> "object"
        ok == kind # "other" /\ HasDeclaredHooks(loading.declared, hooks[chosen])
    IN  /\ loading.pc = "require"
        /\ loading' = IF ok THEN [loading EXCEPT !.pc = "loaded", !.hooks = hooks[chosen]]
                      ELSE [NoLoading EXCEPT !.pc = "refused"]
        /\ UNCHANGED <<plugin, tenantState, locks, operation, installed, registryCalls>>

LoaderNext ==
    \/ \E declared, hooks \in SUBSET Hooks : LoadBound(declared, hooks)
    \/ \E e \in EntryPoints, declared \in SUBSET Hooks : ResolveReference(e, declared)
    \/ \E d, l \in ExportKinds, hooks \in [{"default", "lifecycle", "self"} -> SUBSET Hooks] :
           LoadLifecycle(d, l, hooks)

-----------------------------------------------------------------------------
(* Properties *)

\* A lifecycle that load returns has every hook its manifest declares,
\* whichever export it was taken from, and was bound, or comes from a package or from below
\* the project's modules directory, whatever dots its entry point is made of.
LoadedIsInside ==
    loading.pc = "loaded" =>
        /\ loading.declared \subseteq loading.hooks
        /\ loading.reference \in {<<"package">>, <<"bound">>}
           \/ /\ Len(loading.reference) > 2
              /\ loading.reference[1] = "app" /\ loading.reference[2] = "modules"
              /\ \A i \in DOMAIN loading.reference : loading.reference[i] \notin {"..", "."}

\* No module is in the table before an onInstall of it has returned, and a
\* tenant's state never outlives its module, whatever transactions overlap, are
\* rolled back or insert again a row that was removed.
RegisteredWasInstalled ==
    /\ plugin # NoPlugin => installed
    /\ plugin = NoPlugin => \A t \in States : tenantState[t] = "none"

\* ModuleRegistryService and the loader it calls
RegistryIsSound == RegisteredWasInstalled /\ LoadedIsInside
=============================================================================
