------------------------------ MODULE Settings ------------------------------
(***************************************************************************)
(* Configuration and what the application makes of it: the layered load    *)
(* (crates/kernway-config/src/lib.rs), the log filter                      *)
(* (crates/kernway-log/src/lib.rs, Filter) and the listen address          *)
(* (crates/kernway-server/src/app.rs, build).                              *)
(*                                                                         *)
(* Files and environment are maps from keys to values, YAML already        *)
(* flattened to dotted keys.  A log target or prefix is a sequence of      *)
(* characters.                                                             *)
(***************************************************************************)
EXTENDS Integers, Sequences, FiniteSets
LOCAL INSTANCE SequencesExt
LOCAL INSTANCE FiniteSetsExt
LOCAL INSTANCE Functions

CONSTANTS Profiles, PlainKeys, PlainValues, \* what layers may define
          LogPrefixes, Targets,  \* log targets
          MaxSettings, MaxEntries

VARIABLES sources,   \* layer |-> the keys it defines
          kwProfile, \* KW_PROFILE, "" if unset
          spec,      \* the entries of a filter: [target, level], target <<>> for a bare level
          bound      \* bind() was called

settingsVars == <<sources, kwProfile, spec, bound>>

ActiveKey == "kernway.profiles.active"
BaseLayers == <<"application.yml", "application.yaml", "application.properties">>
ProfileLayers(p) == <<p \o ".yml", p \o ".yaml", p \o ".properties">>
AllLayers == ToSet(BaseLayers) \union UNION {ToSet(ProfileLayers(p)) : p \in Profiles} \union {"env"}
NoSetting == "unset"

\* insert: a later layer replaces what an earlier one set.
Over(map, layer) ==
    [k \in DOMAIN map \union DOMAIN sources[layer] |-> IF k \in DOMAIN sources[layer] THEN sources[layer][k] ELSE map[k]]
ReadInto(map, layers) == FoldLeft(Over, map, layers)
GetStr(map, k) == IF k \in DOMAIN map THEN map[k] ELSE NoSetting

ActiveOf(base) == IF kwProfile # "" THEN kwProfile ELSE GetStr(base, ActiveKey)

\* load_from: the base files, the profile they or the environment name, its
\* files, the environment.
LoadFrom ==
    LET base == ReadInto(<<>>, BaseLayers)
        profile == ActiveOf(base)
        files == IF profile \in Profiles THEN ReadInto(base, ProfileLayers(profile)) ELSE base
    IN [map |-> ReadInto(files, <<"env">>), profile |-> profile]

\* address_from_config, unless bind named one.
Address(map) ==
    IF bound THEN <<"bound">>
    ELSE IF GetStr(map, "server.address") # NoSetting THEN <<map["server.address"]>>
    ELSE IF GetStr(map, "server.port") = NoSetting THEN <<"default">>
    ELSE <<IF GetStr(map, "server.host") = NoSetting THEN "0.0.0.0" ELSE map["server.host"], map["server.port"]>>

-----------------------------------------------------------------------------
(* Filter.                                                                  *)

LogLevels == <<"error", "info", "trace">>
IsLevel(l) == l \in ToSet(LogLevels)

\* with_target: appended, then sorted by length, longest first; the sort is stable.
WithTarget(targets, e) ==
    LET longer == SelectSeq(targets, LAMBDA t : Len(t.target) >= Len(e.target))
    IN longer \o <<e>> \o SelectSeq(targets, LAMBDA t : Len(t.target) < Len(e.target))

\* Filter::parse: what is no level is ignored.
ParseEntry(f, e) ==
    IF ~IsLevel(e.level) THEN f
    ELSE IF e.target = <<>> THEN [f EXCEPT !.default = e.level]
    ELSE [f EXCEPT !.targets = WithTarget(@, e)]
ParseFilter(entries) == FoldLeft(ParseEntry, [default |-> "info", targets |-> <<>>], entries)

\* threshold: the first that matches.
Threshold(f, target) ==
    LET hits == SelectSeq(f.targets, LAMBDA t : IsPrefix(t.target, target))
    IN IF hits = <<>> THEN f.default ELSE hits[1].level

-----------------------------------------------------------------------------

SettingsInit ==
    /\ sources = [l \in AllLayers |-> <<>>] /\ kwProfile = "" /\ spec = <<>> /\ bound = FALSE

Defined == FoldSet(LAMBDA l, n : n + Cardinality(DOMAIN sources[l]), 0, AllLayers)

\* A line of a file, or a variable of the environment (map_env).
Define(l, k, v) ==
    /\ Defined < MaxSettings /\ k \notin DOMAIN sources[l]
    /\ sources' = [sources EXCEPT ![l] = [x \in DOMAIN @ \union {k} |-> IF x = k THEN v ELSE @[x]]]
    /\ UNCHANGED <<kwProfile, spec, bound>>

SetProfile(p) == kwProfile = "" /\ kwProfile' = p /\ UNCHANGED <<sources, spec, bound>>
BindAddress == ~bound /\ bound' = TRUE /\ UNCHANGED <<sources, kwProfile, spec>>

AddEntry(t, l) ==
    /\ Len(spec) < MaxEntries /\ spec' = Append(spec, [target |-> t, level |-> l])
    /\ UNCHANGED <<sources, kwProfile, bound>>

SettingsNext ==
    \/ spec = <<>> /\ \E l \in AllLayers, k \in PlainKeys, v \in PlainValues : Define(l, k, v)
    \/ spec = <<>> /\ \E l \in AllLayers, p \in Profiles : Define(l, ActiveKey, p)
    \/ spec = <<>> /\ \E p \in Profiles : SetProfile(p)
    \/ spec = <<>> /\ BindAddress
    \/ Defined = 0 /\ \E t \in LogPrefixes \union {<<>>}, l \in ToSet(LogLevels) \union {"loud"} : AddEntry(t, l)

-----------------------------------------------------------------------------
(* Properties.                                                              *)

SettingsTypeOK ==
    /\ DOMAIN sources = AllLayers /\ Defined \in 0 .. MaxSettings /\ kwProfile \in Profiles \union {""}
    /\ Len(spec) <= MaxEntries

\* Every key has the value of the topmost active layer that defines it:
\* environment, the active profile's files, then the base files, properties
\* over YAML; the active profile is decided by KW_PROFILE or else by the base
\* files alone, never by the profile's own files or a KW_ variable; and a port
\* is listened on wherever it was set, unless an address or bind overrides it.
LayersExact ==
    LET got == LoadFrom
        baseWith == {i \in 1 .. 3 : ActiveKey \in DOMAIN sources[BaseLayers[i]]}
        active == IF kwProfile # "" THEN kwProfile
                  ELSE IF baseWith = {} THEN NoSetting ELSE sources[BaseLayers[Max(baseWith)]][ActiveKey]
        order == BaseLayers \o (IF active = NoSetting THEN <<>> ELSE ProfileLayers(active)) \o <<"env">>
        having(k) == {i \in DOMAIN order : k \in DOMAIN sources[order[i]]}
    IN /\ got.profile = active
       /\ \A k \in PlainKeys \union {ActiveKey} :
             GetStr(got.map, k) = IF having(k) = {} THEN NoSetting ELSE sources[order[Max(having(k))]][k]
       /\ ~bound /\ having("server.port") # {} /\ having("server.address") = {}
             => Last(Address(got.map)) = got.map["server.port"]

\* A record is judged by the most specific prefix the filter names for its
\* target, whatever the order of the entries, and by the last bare level when
\* there is none; a prefix named twice keeps its first level.
MostSpecificWins ==
    \A t \in Targets :
        LET valid == {i \in DOMAIN spec : IsLevel(spec[i].level)}
            hits == {i \in valid : spec[i].target # <<>> /\ IsPrefix(spec[i].target, t)}
            bare == {i \in valid : spec[i].target = <<>>}
            best == {i \in hits : \A j \in hits : Len(spec[j].target) <= Len(spec[i].target)}
        IN Threshold(ParseFilter(spec), t) =
             IF hits # {} THEN spec[Min(best)].level ELSE IF bare # {} THEN spec[Max(bare)].level ELSE "info"

SettingsHold == LayersExact /\ MostSpecificWins

=============================================================================
