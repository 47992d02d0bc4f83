----------------------------- MODULE LaunchPlan -----------------------------
(***************************************************************************)
(* application/launch_plan.py: build_launch_plan, with what it calls in    *)
(* domain/variables.py and domain/readiness.py.  A manifest is cut down to *)
(* the selected resources, values are found for its variables, and each    *)
(* resource is interpolated, its ready_when parsed and its adapter asked;  *)
(* then DependencyGraph.tla, which this module extends, takes over.        *)
(*                                                                         *)
(* Texts are abstracted to the names they refer to, a variable's value to  *)
(* whether there is one.                                                   *)
(***************************************************************************)
EXTENDS DependencyGraph

CONSTANTS Variable,     \* the variables the manifest declares
          Undeclared,   \* a name it does not declare
          Request,      \* what a manifest says of its resources, and what the
                        \* command line picks
          Probed,       \* resources with a ready_when
          Mistakable    \* resources whose adapter may object, or be missing

Name == Variable \cup {Undeclared}

ASSUME NameAssumption == Undeclared \notin Variable
ASSUME RequestAssumption ==
    /\ Probed \subseteq Resource /\ Mistakable \subseteq Resource
    /\ Request \subseteq [needs : [Resource -> SUBSET Resource],
                          text : [Resource -> SUBSET Name],
                          probe : [Resource -> SUBSET Name],
                          enabled : SUBSET Resource,
                          only : SUBSET Resource, skip : SUBSET Resource]

VARIABLES
    request,   \* the arguments, never changed
    pc,        \* where build_launch_plan is
    selected,  \* the local of that name
    values,    \* which variables have a value after resolve_variable_values
    planned,   \* the resources in the local list planned
    readiness, \* the names that the readiness of a planned resource refers to
    invalid    \* the planned resources with a validation_error

ownVars == <<request, pc, selected, values, planned, readiness, invalid>>
planVars == <<ownVars, graphVars>>

PlanInit ==
    /\ GraphInit
    /\ request \in Request
    /\ pc = "start"
    /\ selected = {} /\ values = {} /\ planned = {} /\ invalid = {}
    /\ readiness = [r \in Resource |-> {}]

(* _select_resources: an empty --only is no filter. *)
Selection ==
    {r \in request.enabled : /\ request.only = {} \/ r \in request.only
                             /\ r \notin request.skip}

Select ==
    /\ pc = "start"
    /\ pc' = "resolve"
    /\ selected' = Selection
    /\ UNCHANGED <<request, values, planned, readiness, invalid, graphVars>>

(* A manifest the author must mend: ManifestValidationError. *)
Raise ==
    /\ pc' = "raised"
    /\ UNCHANGED <<request, selected, values, planned, readiness, invalid, graphVars>>

(* resolve_profile_overrides: a profile the manifest does not have. *)
UnknownProfile == pc = "resolve" /\ Raise

(* resolve_variable_values.  An override counts even when it is null; a    *)
(* declaration has a default, or requires a value, or does neither.        *)
ResolveValues(overrides, declared) ==
    /\ pc = "resolve"
    /\ IF \/ ~(DOMAIN overrides \subseteq Variable)
          \/ \E v \in Variable \ DOMAIN overrides : declared[v] = "required"
       THEN Raise
       ELSE /\ pc' = "plan"
            /\ values' = {v \in Variable : IF v \in DOMAIN overrides
                                           THEN overrides[v] = "set"
                                           ELSE declared[v] = "default"}
            /\ UNCHANGED <<request, selected, planned, readiness, invalid, graphVars>>

Resolves(r) == request.text[r] \subseteq values

(* _validate_resource: whether an error message comes back. *)
Validation(r) == IF r \in Mistakable THEN BOOLEAN ELSE {FALSE}

\* Mutant: a resource its adapter objects to is dropped from the plan.
PlanResource_Dropped(r, objects) ==
    /\ pc = "plan" /\ r \in selected \ planned
    /\ Resolves(r)
    /\ planned' = IF objects THEN planned ELSE planned \cup {r}
    /\ readiness' = [readiness EXCEPT ![r] = request.probe[r]]
    /\ invalid' = IF objects THEN invalid \cup {r} ELSE invalid
    /\ UNCHANGED <<request, pc, selected, values, graphVars>>

(* The loop over the selected resources: interpolate config and env,       *)
(* parse ready_when as it stands, and record what the adapter says.        *)
PlanResource(r, objects) ==
    /\ pc = "plan" /\ r \in selected \ planned
    /\ Resolves(r)
    /\ planned' = planned \cup {r}
    /\ readiness' = [readiness EXCEPT ![r] = request.probe[r]]
    /\ invalid' = IF objects THEN invalid \cup {r} ELSE invalid
    /\ UNCHANGED <<request, pc, selected, values, graphVars>>

(* interpolate meets an undeclared name, or one without a value. *)
UnresolvedReference(r) ==
    /\ pc = "plan" /\ r \in selected \ planned
    /\ ~Resolves(r)
    /\ Raise

(* parse_readiness_spec: not exactly one kind, or a body of a wrong shape. *)
MalformedProbe(r) ==
    /\ pc = "plan" /\ r \in (selected \ planned) \cap Probed
    /\ Resolves(r)
    /\ Raise

(* The call of build_dependency_graph, once the loop is through. *)
BuildGraph ==
    /\ pc = "plan" /\ planned = selected
    /\ pc' = "graph"
    /\ Call(planned, request.needs)
    /\ UNCHANGED <<request, selected, values, planned, readiness, invalid>>

(* The graph is built, or its error goes on to the caller. *)
GraphTurn == GraphStep /\ UNCHANGED ownVars

Overrides == UNION {[N -> {"set", "null"}] : N \in SUBSET Name}
Declarations == [Variable -> {"default", "required", "optional"}]

PlanNext ==
    \/ Select
    \/ UnknownProfile
    \/ \E o \in Overrides, d \in Declarations : ResolveValues(o, d)
    \/ \E r \in Resource : \/ \E objects \in Validation(r) : PlanResource(r, objects)
                           \/ UnresolvedReference(r)
                           \/ MalformedProbe(r)
    \/ BuildGraph
    \/ GraphTurn

PlanSpec == PlanInit /\ [][PlanNext]_planVars

------------------------------------------------------------------------------
(* Properties *)

Finished == pc = "graph" /\ stage = "built"

(* The types of the locals of build_launch_plan. *)
PlanTypeOK ==
    /\ GraphTypeOK
    /\ pc \in {"start", "resolve", "plan", "graph", "raised"}
    /\ selected \in SUBSET Resource
    /\ values \in SUBSET Variable
    /\ readiness \in [Resource -> SUBSET Name]
    /\ invalid \subseteq planned /\ planned \subseteq selected

(* A plan that is handed out holds exactly what was asked for, whatever    *)
(* adapters objected to; it lacks nothing its resources depend on, and the *)
(* variables in their config and env texts have values (the references of  *)
(* ready_when are not looked at).  A dependency that was disabled, left out*)
(* by --only or taken out by --skip fails the plan.                        *)
PlanIsSound ==
    Finished =>
        \A r \in Resource :
            /\ r \in planned <=> /\ r \in request.enabled \ request.skip
                                 /\ r \in request.only \/ request.only = {}
            /\ r \in planned => /\ \A d \in request.needs[r] : d \in planned /\ d \in nodes
                                /\ request.text[r] \subseteq values

(* A plan drives the graph builder as anyone may. *)
ImplementsGraph == GraphInit /\ [][GraphNext]_graphVars
=============================================================================
