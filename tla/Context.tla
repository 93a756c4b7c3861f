------------------------------ MODULE Context ------------------------------
(***************************************************************************)
(* The dependency-injection container                                      *)
(* (crates/di-core/src/context.rs): bean registration, resolution and      *)
(* AppContext::refresh, which builds queued components in dependency       *)
(* order.                                                                  *)
(*                                                                         *)
(* A setup says what each component needs (hard), collects if present      *)
(* (soft) and provides besides its own type; refresh is one slot visit per *)
(* step.  A type is a component's name or a trait's.                       *)
(***************************************************************************)
EXTENDS Integers, Sequences, FiniteSets
LOCAL INSTANCE SequencesExt

CONSTANTS Components, Traits, Setups
\* A setup is [queue: Seq(Components), hard, soft: [Components -> SUBSET Types],
\* traits: [Components -> SUBSET Traits], primary, default: SUBSET Components,
\* ready: SUBSET Components (registered as instances before refresh)].

VARIABLES setup,      \* the application being wired
          instances,  \* type -> sequence of entries [by, default, primary]
          slots,      \* remaining: queue position -> component or "taken"
          cursor,     \* the slot the inner loop visits next
          builtAny, available, providers, \* refresh's locals
          given,      \* component -> type -> what its build resolved
          outcome     \* "wiring", or what refresh returned

diVars == <<setup, instances, slots, cursor, builtAny, available, providers, given, outcome>>

Types == Components \union Traits
Provides(c) == {c} \union setup.traits[c]
Queued == {setup.queue[i] : i \in DOMAIN setup.queue}

Entry(c) == [by |-> c, default |-> c \in setup.default, primary |-> c \in setup.primary]

\* register_with_entry: a user bean displaces the framework's defaults, a
\* default gives way to a user bean.
Register(list, e) ==
    IF e.default /\ \E i \in DOMAIN list : ~list[i].default THEN list
    ELSE Append(IF e.default THEN list ELSE SelectSeq(list, LAMBDA x : ~x.default), e)

\* get: the only bean, else the single primary one.
Resolve(list) ==
    LET primaries == {i \in DOMAIN list : list[i].primary}
    IN IF list = <<>> THEN "not found"
       ELSE IF Len(list) = 1 THEN list[1].by
       ELSE IF Cardinality(primaries) # 1 THEN "ambiguous"
       ELSE list[CHOOSE i \in primaries : TRUE].by

\* get_all / get_all_as, in registration order.
ResolveAll(list) == [i \in DOMAIN list |-> list[i].by]

-----------------------------------------------------------------------------
(* register_component and register_instance, then refresh.                  *)

BatchProviders(t) == {c \in Queued : t \in Provides(c)}

ContextInit ==
    /\ setup \in Setups
    /\ slots = setup.queue /\ cursor = 1 /\ builtAny = FALSE /\ outcome = "wiring"
    /\ instances = [t \in Types |-> IF t \in setup.ready THEN <<Entry(t)>> ELSE <<>>]
    /\ available = setup.ready
    /\ providers = [t \in Types |-> Cardinality(BatchProviders(t))]
    /\ given = [c \in Components |-> <<>>]

\* The registered instance, then the bindings of #[provides].
Registered(c) ==
    [t \in Types |-> IF t \in Provides(c) THEN Register(instances[t], Entry(c)) ELSE instances[t]]

\* ComponentDef.build: resolve every dependency, register, publish.
BuildComponent(c) ==
    LET found == [t \in setup.hard[c] |-> Resolve(instances[t])]
        failed == {t \in setup.hard[c] : found[t] \in {"not found", "ambiguous"}}
    IN IF failed # {}
       THEN /\ outcome' = found[CHOOSE t \in failed : TRUE]
            /\ UNCHANGED <<instances, given>>
       ELSE /\ given' = [given EXCEPT ![c] = [one |-> found, all |-> [t \in setup.soft[c] |-> ResolveAll(instances[t])]]]
            /\ instances' = Registered(c)
            /\ UNCHANGED outcome

\* Variant for the mutation runs: what is collected is not waited for.
IsReadyHardOnly(c) == setup.hard[c] \subseteq available

IsReady(c) ==
    /\ setup.hard[c] \subseteq available
    /\ \A t \in setup.soft[c] : providers[t] = 0

Visit ==
    /\ outcome = "wiring" /\ cursor <= Len(slots)
    /\ cursor' = cursor + 1 /\ UNCHANGED setup
    /\ LET c == slots[cursor] IN
       IF c # "taken" /\ IsReady(c)
       THEN /\ BuildComponent(c)
            /\ slots' = [slots EXCEPT ![cursor] = "taken"]
            /\ available' = available \union Provides(c)
            /\ providers' = [t \in Types |-> providers[t] - (IF t \in Provides(c) THEN 1 ELSE 0)]
            /\ builtAny' = TRUE
       ELSE UNCHANGED <<instances, slots, builtAny, available, providers, given, outcome>>

Left == {slots[i] : i \in DOMAIN slots} \ {"taken"}
Unmet(c) == setup.hard[c] \ available

\* while built_any; then the diagnosis of what is left.
Pass ==
    /\ outcome = "wiring" /\ cursor > Len(slots) /\ builtAny
    /\ cursor' = 1 /\ builtAny' = FALSE
    /\ UNCHANGED <<setup, instances, slots, available, providers, given, outcome>>

Missing == \E c \in Left, t \in Types : t \in Unmet(c) /\ BatchProviders(t) = {}

Stall ==
    /\ outcome = "wiring" /\ cursor > Len(slots) /\ ~builtAny
    /\ \/ Left = {} /\ outcome' = "ok"
       \/ Left # {} /\ Missing /\ outcome' = "missing"
       \/ Left # {} /\ ~Missing /\ (\E c \in Left : Unmet(c) # {}) /\ outcome' = "circular"
    /\ UNCHANGED <<setup, instances, slots, cursor, builtAny, available, providers, given>>

\* A stall on soft dependencies alone: the rest is built in queue order.
SoftStall ==
    /\ outcome = "wiring" /\ cursor > Len(slots) /\ ~builtAny
    /\ Left # {} /\ \A c \in Left : Unmet(c) = {}
    /\ LET i == CHOOSE i \in DOMAIN slots : slots[i] # "taken" /\ \A j \in 1..i - 1 : slots[j] = "taken"
       IN /\ BuildComponent(slots[i])
          /\ available' = available \union Provides(slots[i])
          /\ slots' = [slots EXCEPT ![i] = "taken"]
    /\ UNCHANGED <<setup, cursor, builtAny, providers>>

ContextNext == Visit \/ Pass \/ Stall \/ SoftStall

-----------------------------------------------------------------------------
(* Properties.                                                              *)

ContextTypeOK ==
    /\ cursor \in 1..Len(slots) + 1 /\ builtAny \in BOOLEAN
    /\ available \subseteq Types /\ DOMAIN instances = Types
    /\ \A t \in Types : providers[t] \in 0..Cardinality(Components)
    /\ outcome \in {"wiring", "ok", "missing", "circular", "ambiguous", "not found"}

\* The components refresh cannot reach, whatever the order: the largest set in
\* which each waits for a type all of whose providers are in it, or collects
\* one with a provider in it.
Stuck(B) ==
    \A c \in B : \/ \E t \in setup.hard[c] : t \notin setup.ready /\ BatchProviders(t) \subseteq B
                 \/ \E t \in setup.soft[c] : BatchProviders(t) \intersect B # {}

Unreachable == UNION {B \in SUBSET Queued : Stuck(B)}

Absent(c) == {t \in setup.hard[c] : t \notin setup.ready /\ BatchProviders(t) = {}}
WaitsInside(c) == \E t \in setup.hard[c] : t \notin setup.ready /\ BatchProviders(t) \subseteq Unreachable

\* refresh builds exactly the components whose dependencies can be met and
\* reports a missing dependency or a cycle exactly when there is one, in
\* whatever order the components were queued.
RefreshExact ==
    /\ outcome = "ok" => Left = {} /\ \A c \in Unreachable : ~WaitsInside(c)
    /\ outcome \in {"missing", "circular"} => Left = Unreachable
    /\ outcome = "missing" => \E c \in Unreachable : Absent(c) # {}
    /\ outcome = "circular" => /\ \E c \in Unreachable : WaitsInside(c)
                               /\ \A c \in Unreachable : Absent(c) = {}

\* A component is built only when each bean it injects exists, and one that
\* collects every bean of a type sees all that the batch provides, except in a
\* cycle of optional dependencies.
BuiltAfterDependencies ==
    /\ outcome # "not found"
    /\ \A c \in Queued \ Unreachable : given[c] # <<>> =>
           \A t \in setup.soft[c] :
               {given[c].all[t][i] : i \in DOMAIN given[c].all[t]} = {instances[t][i].by : i \in DOMAIN instances[t]}

\* A type's beans are all the framework's defaults or all the application's.
DefaultsGiveWay ==
    \A t \in Types : \A i, j \in DOMAIN instances[t] : instances[t][i].default = instances[t][j].default

ContextHolds == RefreshExact /\ BuiltAfterDependencies /\ DefaultsGiveWay

=============================================================================
