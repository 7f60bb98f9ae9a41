--------------------------- MODULE ConfigRecords ---------------------------
(***************************************************************************)
(* The record types of pbs-api-types as serde reads and writes them: the  *)
(* JSON object the API receives and the configuration holds is a function *)
(* from keys to values; a struct value is a function from the index of a  *)
(* field to its value.  The serde attributes of each field decide its key *)
(* (rename_all, rename), whether it is written (skip_serializing_if), what *)
(* a missing key reads as (Option, default) and whether its fields are     *)
(* those of the enclosing object (flatten).                               *)
(*                                                                         *)
(* Scalar values are one token each, except where a serde attribute looks *)
(* at the value (a default or a skip predicate): there both the default   *)
(* and another value are tried.  A struct outside the repository that is  *)
(* flattened in (TapeBackupJobSetup, JobScheduleStatus, RateLimitConfig)   *)
(* is one opaque key.                                                      *)
(***************************************************************************)
EXTENDS Integers, Sequences, SequencesExt, TLC

CONSTANTS
  Err,    \* a parse, verification or deserialization error
  None,   \* Option::None
  Null    \* the JSON null

\* The words of a field or variant name and the serde case rules.
CaseSep == [kebab |-> "-", lower |-> "", none |-> "_"]

RenameAll(case, words) ==
  FoldLeft(LAMBDA acc, w : IF acc = "" THEN w ELSE acc \o CaseSep[case] \o w,
           "", words)

\* serde(default = "return_true"), is_true (metrics.rs) and is_false (jobs.rs).
ReturnTrue == TRUE

IsTrue(b) == b

IsFalse(b) == ~b

\* The skip_serializing_if predicates of the default fields.
SkipIf(p, x) ==
  CASE p = "is_true"  -> IsTrue(x)
    [] p = "is_false" -> IsFalse(x)
    [] p = "vec_is_empty" -> x = <<>>
    [] p = "string_is_empty" -> x = ""

\* proxmox_serde::string_as_base64: the stored string is the encoding.
Base64Encode(s) == [base64 |-> s]

Passwords == {"", "p"}

Base64Decode(x) == IF x \in {Base64Encode(p) : p \in Passwords} THEN x.base64 ELSE Err

-----------------------------------------------------------------------------
(* A field: its name as words, an explicit rename ("" if none), how serde *)
(* treats it, the values tried, its default and skip predicate, and the   *)
(* struct it flattens or nests.                                            *)
Fld(n, k, d, dv, sk, sub) == [n |-> n, key |-> "", k |-> k, d |-> d, dv |-> dv, sk |-> sk, sub |-> sub]

Plain(n, d)         == Fld(n, "plain", d, None, "", "")
Opt(n, d)           == Fld(n, "option", d, None, "", "")
OptNull(n, d)       == Fld(n, "option_null", d, None, "", "")
Dflt(n, d, dv, sk)  == Fld(n, "default", d, dv, sk, "")
B64(n)              == Fld(n, "base64", {Base64Encode(p) : p \in Passwords}, "", "string_is_empty", "")
Flatten(n, s)       == Fld(n, "flatten", {}, None, "", s)
FlattenOpt(n, s)    == Fld(n, "flatten_option", {}, None, "", s)
Nested(n, s)        == Fld(n, "nested", {}, None, "", s)
Renamed(f, key)     == [f EXCEPT !.key = key]
\* A struct of another crate flattened in: one opaque key.
External(t)         == Renamed(Plain(<<t>>, {"{" \o t \o "}"}), "{" \o t \o "}")

\* A struct: its rename_all rule and its fields, each with the key that
\* rule gives it unless renamed.
Struct(case, fs) ==
  [case |-> case,
   fields |-> [i \in DOMAIN fs |->
                 [fs[i] EXCEPT !.key = IF @ # "" THEN @ ELSE RenameAll(case, fs[i].n)]]]

\* The JSON names of the unit variants of an enum.
Variants(case, vs) == {RenameAll(case, v) : v \in vs}

Str == {"s"}
Num == {1}
Bool == {TRUE}

-----------------------------------------------------------------------------
(* Enums of unit variants, by their serde names.                          *)
CloudNetworkConfigMethod ==
  Variants("lower", {<<"manual">>, <<"dynamic">>, <<"subnet">>, <<"loopback">>})

CloudNetworkInterfaceType ==
  Variants("kebab", {<<"virtual", "adapter">>, <<"public", "interface">>,
                     <<"private", "interface">>, <<"loopback">>, <<"unknown">>})

CloudNotifyVariants == Variants("lower", {<<"never">>, <<"always">>, <<"error">>})

MetricServerType == {"cloud-http", "cloud-udp"}

Kdf == Variants("lower", {<<"none">>, <<"scrypt">>, <<"pbkdf2">>})

MaintenanceTypeVariants == Variants("kebab", {<<"read", "only">>, <<"offline">>, <<"delete">>})

CloudStorageKind == Variants("kebab", {<<"object", "storage">>, <<"block", "storage">>})

TapeCloudStorageKind == Variants("kebab", {<<"object", "storage">>, <<"file", "storage">>})

DeviceKind == Variants("kebab", {<<"changer">>, <<"tape">>})

CloudObjectKind == Variants("kebab", {<<"bucket">>, <<"object">>, <<"import", "export">>})

-----------------------------------------------------------------------------
(* Structs, jobs.rs.                                                       *)
CloudJobScheduleStatus ==
  Struct("kebab", <<Opt(<<"next", "run">>, Num), Opt(<<"last", "run", "state">>, Str),
                    Opt(<<"last", "run", "upid">>, Str), Opt(<<"last", "run", "endtime">>, Num)>>)

CloudDatastoreNotify ==
  Struct("none", <<Opt(<<"gc">>, CloudNotifyVariants), Opt(<<"verify">>, CloudNotifyVariants),
                   Opt(<<"sync">>, CloudNotifyVariants), Opt(<<"prune">>, CloudNotifyVariants)>>)

TapeBackupJobConfig ==
  Struct("kebab", <<Plain(<<"id">>, Str), External("TapeBackupJobSetup"),
                    Opt(<<"comment">>, Str), Opt(<<"schedule">>, Str)>>)

TapeBackupJobStatus ==
  Struct("kebab", <<Flatten(<<"config">>, "TapeBackupJobConfig"), External("JobScheduleStatus"),
                    Opt(<<"next", "media", "label">>, Str)>>)

\* setup is not flattened (the attribute is commented out): a nested object.
CloudBackupJobConfig ==
  Struct("kebab", <<Plain(<<"id">>, Str), Plain(<<"setup">>, {"{TapeBackupJobSetup}"}),
                    Opt(<<"comment">>, Str), Opt(<<"schedule">>, Str)>>)

CloudBackupJobStatus ==
  Struct("kebab", <<Flatten(<<"config">>, "CloudBackupJobConfig"), External("JobScheduleStatus"),
                    Opt(<<"next", "media", "label">>, Str)>>)

SyncJobConfig ==
  Struct("kebab", <<Plain(<<"id">>, Str), Plain(<<"store">>, Str), Opt(<<"ns">>, Str),
                    Opt(<<"owner">>, Str), Opt(<<"remote">>, Str), Plain(<<"remote", "store">>, Str),
                    Opt(<<"remote", "ns">>, Str), Opt(<<"remove", "vanished">>, Bool),
                    Opt(<<"max", "depth">>, Num), Opt(<<"comment">>, Str), Opt(<<"schedule">>, Str),
                    Opt(<<"group", "filter">>, Str), External("RateLimitConfig"),
                    Opt(<<"transfer", "last">>, Num)>>)

SyncJobStatus ==
  Struct("kebab", <<Flatten(<<"config">>, "SyncJobConfig"), External("JobScheduleStatus")>>)

KeepOptions ==
  Struct("kebab", <<Opt(<<"keep", "last">>, Num), Opt(<<"keep", "hourly">>, Num),
                    Opt(<<"keep", "daily">>, Num), Opt(<<"keep", "weekly">>, Num),
                    Opt(<<"keep", "monthly">>, Num), Opt(<<"keep", "yearly">>, Num)>>)

PruneJobOptions ==
  Struct("kebab", <<Flatten(<<"keep">>, "KeepOptions"), Opt(<<"max", "depth">>, Num),
                    Opt(<<"ns">>, Str)>>)

PruneJobConfig ==
  Struct("kebab", <<Plain(<<"id">>, Str), Plain(<<"store">>, Str),
                    Dflt(<<"disable">>, BOOLEAN, FALSE, "is_false"), Plain(<<"schedule">>, Str),
                    Opt(<<"comment">>, Str), Flatten(<<"options">>, "PruneJobOptions")>>)

PruneJobStatus ==
  Struct("kebab", <<Flatten(<<"config">>, "PruneJobConfig"), External("JobScheduleStatus")>>)

-----------------------------------------------------------------------------
(* Structs, remote.rs, network.rs, metrics.rs, openid.rs,                  *)
(* key_derivation.rs, maintenance.rs, acl.rs.                              *)
CloudConfig ==
  Struct("kebab", <<Opt(<<"comment">>, Str), Plain(<<"service", "url">>, Str),
                    Opt(<<"region">>, Str), Plain(<<"auth", "id">>, Str),
                    Opt(<<"fingerprint">>, Str)>>)

RemoteCloudBackup ==
  Struct("kebab", <<Plain(<<"name">>, Str), B64(<<"password">>),
                    Flatten(<<"config">>, "CloudConfig")>>)

CloudBackupWithoutPassword ==
  Struct("kebab", <<Plain(<<"name">>, Str), Flatten(<<"config">>, "CloudConfig")>>)

CloudInterface ==
  Struct("none", <<Plain(<<"name">>, Str),
                   Renamed(Plain(<<"interface", "type">>, CloudNetworkInterfaceType), "type"),
                   Opt(<<"method">>, CloudNetworkConfigMethod), Opt(<<"cidr">>, Str),
                   Opt(<<"cidr6">>, Str), Opt(<<"gateway">>, Str), Opt(<<"gateway6">>, Str),
                   Opt(<<"subnet", "id">>, Str),
                   Dflt(<<"tags">>, {<<>>, <<"s">>}, <<>>, "vec_is_empty"),
                   Opt(<<"comments">>, Str)>>)

\* CloudInterface::new: a record built in code, every Option None and no tags.
CloudInterfaceNew(name) ==
  <<name, RenameAll("kebab", <<"unknown">>), None, None, None, None, None, None, <<>>, None>>

CloudMetricsUdp ==
  Struct("kebab", <<Plain(<<"name">>, Str), Dflt(<<"enable">>, BOOLEAN, ReturnTrue, "is_true"),
                    Plain(<<"endpoint">>, Str), Opt(<<"mtu">>, Num), Opt(<<"comment">>, Str)>>)

CloudMetricsHttp ==
  Struct("kebab", <<Plain(<<"name">>, Str), Dflt(<<"enable">>, BOOLEAN, ReturnTrue, "is_true"),
                    Plain(<<"url">>, Str), Opt(<<"token">>, Str), Opt(<<"bucket">>, Str),
                    Opt(<<"organization">>, Str), Opt(<<"max", "body", "size">>, Num),
                    Opt(<<"verify", "tls">>, Bool), Opt(<<"comment">>, Str)>>)

MetricServerInfo ==
  Struct("kebab", <<Plain(<<"name">>, Str), Renamed(Plain(<<"ty">>, MetricServerType), "type"),
                    Opt(<<"enable">>, Bool), Plain(<<"server">>, Str), Opt(<<"comment">>, Str)>>)

CloudOpenIdConfig ==
  Struct("kebab", <<Plain(<<"realm">>, Str), Plain(<<"issuer", "url">>, Str),
                    Plain(<<"client", "id">>, Str), Opt(<<"scopes">>, Str),
                    Opt(<<"acr", "values">>, Str), Opt(<<"prompt">>, Str),
                    Opt(<<"client", "key">>, Str), Opt(<<"comment">>, Str),
                    Opt(<<"autocreate">>, Bool), Opt(<<"username", "claim">>, Str)>>)

CloudKeyInfo ==
  Struct("none", <<Opt(<<"path">>, Str), Plain(<<"kdf">>, Kdf), Plain(<<"created">>, Num),
                   Plain(<<"modified">>, Num), Opt(<<"fingerprint">>, Str), Opt(<<"hint">>, Str)>>)

MaintenanceMode ==
  Struct("none", <<Renamed(Plain(<<"ty">>, MaintenanceTypeVariants), "type"),
                   Opt(<<"message">>, Str)>>)

AclListItem ==
  Struct("none", <<Plain(<<"path">>, Str), Plain(<<"ugid">>, Str), Plain(<<"ugid", "type">>, Str),
                   Plain(<<"propagate">>, Bool), Plain(<<"roleid">>, Str)>>)

-----------------------------------------------------------------------------
(* Structs, cloud/ and tape/, and the OptionalDeviceIdentification that    *)
(* tape/changer.rs imports (azcs-cloud/pbs-api-types/src/cloud/device.rs). *)
CloudBackupStoreConfig ==
  Struct("kebab", <<Plain(<<"container", "name">>, Str), Plain(<<"region">>, Str),
                    OptNull(<<"service", "endpoint">>, Str), Plain(<<"access", "key">>, Str),
                    Plain(<<"secret", "key">>, Str)>>)

OptionalCloudDeviceIdentification ==
  Struct("kebab", <<Opt(<<"vendor">>, Str), Opt(<<"model">>, Str), Opt(<<"serial">>, Str)>>)

CloudBackupStore ==
  Struct("kebab", <<Plain(<<"name">>, Str), Flatten(<<"config">>, "CloudBackupStoreConfig"),
                    Flatten(<<"info">>, "OptionalCloudDeviceIdentification"),
                    Opt(<<"connected">>, Bool)>>)

CloudBackupConfig ==
  Struct("kebab", <<Plain(<<"provider">>, Str), Opt(<<"access", "key", "id">>, Str),
                    Opt(<<"secret", "access", "key">>, Str), Opt(<<"region">>, Str),
                    Plain(<<"bucket", "name">>, Str), Plain(<<"container", "name">>, Str),
                    Opt(<<"blob", "prefix">>, Str), Opt(<<"export", "data">>, Str)>>)

\* config is not flattened: a nested object.
ChangerCloudBackup == Struct("kebab", <<Nested(<<"config">>, "CloudBackupConfig")>>)

CloudMediaPoolConfig ==
  Struct("none", <<Plain(<<"name">>, Str), Opt(<<"allocation">>, Str), Opt(<<"retention">>, Str),
                   Opt(<<"template">>, Str), Opt(<<"comment">>, Str)>>)

CloudMediaSetListEntry ==
  Struct("kebab", <<Plain(<<"media", "set", "name">>, Str), Plain(<<"media", "set", "uuid">>, Str),
                    Plain(<<"media", "set", "ctime">>, Num), Plain(<<"pool">>, Str)>>)

CloudMediaListEntry ==
  Struct("kebab", <<Plain(<<"label", "text">>, Str), Plain(<<"uuid">>, Str), Plain(<<"ctime">>, Num),
                    Plain(<<"location">>, Str), Plain(<<"status">>, Str), Plain(<<"expired">>, Bool),
                    Plain(<<"catalog">>, Bool), Opt(<<"media", "set", "name">>, Str),
                    Opt(<<"media", "set", "uuid">>, Str), Opt(<<"seq", "nr">>, Num),
                    Opt(<<"media", "set", "ctime">>, Num), Opt(<<"pool">>, Str)>>)

CloudMediaIdFlat ==
  Struct("kebab", <<Plain(<<"uuid">>, Str), Plain(<<"label", "text">>, Str), Plain(<<"ctime">>, Num),
                    Opt(<<"pool">>, Str), Opt(<<"media", "set", "uuid">>, Str),
                    Opt(<<"seq", "nr">>, Num), Opt(<<"media", "set", "ctime">>, Num),
                    Opt(<<"encryption", "key", "fingerprint">>, Str)>>)

CloudLabelUuidMap ==
  Struct("kebab", <<Plain(<<"label", "text">>, Str), OptNull(<<"uuid">>, Str)>>)

\* optional_identification is flatten and skip_serializing_if = "Option::is_none".
CloudBackupDeviceInfo ==
  Struct("none", <<Plain(<<"kind">>, CloudStorageKind), Plain(<<"service", "endpoint">>, Str),
                   Plain(<<"access", "key">>, Str), Plain(<<"secret", "key">>, Str),
                   Plain(<<"container", "name">>, Str), Plain(<<"region">>, Str),
                   FlattenOpt(<<"optional", "identification">>, "OptionalCloudDeviceIdentification")>>)

OptionalDeviceIdentification ==
  Struct("kebab", <<Opt(<<"vendor">>, Str), Opt(<<"model">>, Str), Opt(<<"serial">>, Str)>>)

AzcsCloudBackupDeviceInfo ==
  Struct("none", <<Plain(<<"kind">>, DeviceKind), Plain(<<"service", "path">>, Str),
                   Plain(<<"access", "key">>, Str), Plain(<<"secret", "key">>, Str),
                   Plain(<<"bucket", "name">>, Str), Plain(<<"region">>, Str)>>)

TapeCloudBackupConfig ==
  Struct("kebab", <<Plain(<<"name">>, Str), Plain(<<"path">>, Str),
                    Opt(<<"export", "slots">>, Str), Opt(<<"auto", "eject">>, Bool)>>)

CloudBackupListEntry ==
  Struct("kebab", <<Flatten(<<"config">>, "tape::CloudBackupConfig"),
                    Flatten(<<"info">>, "OptionalDeviceIdentification")>>)

CloudObjectEntry ==
  Struct("kebab", <<Plain(<<"object", "kind">>, CloudObjectKind), Plain(<<"object", "id">>, Num),
                    Opt(<<"label", "text">>, Str), Opt(<<"loaded", "slot">>, Num),
                    Opt(<<"state">>, Str)>>)

OptionalCloudServiceIdentification ==
  Struct("kebab", <<Opt(<<"service", "name">>, Str), Opt(<<"region">>, Str),
                    Opt(<<"access", "key">>, Str), Opt(<<"account", "id">>, Str)>>)

CloudStorageInfo ==
  Struct("none", <<Plain(<<"kind">>, TapeCloudStorageKind), Plain(<<"endpoint", "url">>, Str),
                   Plain(<<"access", "key", "id">>, Str), Plain(<<"secret", "access", "key">>, Str),
                   Plain(<<"service", "name">>, Str), Plain(<<"region">>, Str),
                   Plain(<<"max", "capacity", "gb">>, Num), Plain(<<"used", "capacity", "gb">>, Num)>>)

CloudMediaContentEntry ==
  Struct("kebab", <<Plain(<<"label", "text">>, Str), Plain(<<"uuid">>, Str),
                    Plain(<<"media", "set", "name">>, Str), Plain(<<"media", "set", "uuid">>, Str),
                    Plain(<<"media", "set", "ctime">>, Num), Plain(<<"seq", "nr">>, Num),
                    Plain(<<"pool">>, Str), Plain(<<"store">>, Str), Plain(<<"snapshot">>, Str),
                    Plain(<<"backup", "time">>, Num)>>)

-----------------------------------------------------------------------------
(* Structs, node.rs: every field required; the status nests the others.  *)
CloudMemoryCounters ==
  Struct("kebab", <<Plain(<<"total">>, Num), Plain(<<"used">>, Num), Plain(<<"free">>, Num)>>)

CloudSwapCounters ==
  Struct("kebab", <<Plain(<<"total">>, Num), Plain(<<"used">>, Num), Plain(<<"free">>, Num)>>)

CloudNodeInformation ==
  Struct("kebab", <<Plain(<<"instance", "id">>, Str), Plain(<<"availability", "zone">>, Str),
                    Plain(<<"provider">>, Str)>>)

KernelVersionInformation ==
  Struct("lower", <<Plain(<<"sysname">>, Str), Plain(<<"release">>, Str), Plain(<<"version">>, Str),
                    Plain(<<"machine">>, Str)>>)

CloudCpuInformation ==
  Struct("kebab", <<Plain(<<"model">>, Str), Plain(<<"vcpus">>, Num)>>)

CloudNodeStatus ==
  Struct("kebab", <<Nested(<<"memory">>, "CloudMemoryCounters"), Nested(<<"swap">>, "CloudSwapCounters"),
                    Plain(<<"uptime">>, Num), Plain(<<"loadavg">>, {<<1, 1, 1>>}),
                    Nested(<<"current", "kernel">>, "KernelVersionInformation"), Plain(<<"cpu">>, Num),
                    Nested(<<"cpuinfo">>, "CloudCpuInformation"), Nested(<<"info">>, "CloudNodeInformation")>>)

-----------------------------------------------------------------------------
Structs ==
  ("CloudJobScheduleStatus" :> CloudJobScheduleStatus) @@ ("CloudDatastoreNotify" :> CloudDatastoreNotify)
  @@ ("TapeBackupJobConfig" :> TapeBackupJobConfig) @@ ("TapeBackupJobStatus" :> TapeBackupJobStatus)
  @@ ("CloudBackupJobConfig" :> CloudBackupJobConfig) @@ ("CloudBackupJobStatus" :> CloudBackupJobStatus)
  @@ ("SyncJobConfig" :> SyncJobConfig) @@ ("SyncJobStatus" :> SyncJobStatus)
  @@ ("KeepOptions" :> KeepOptions) @@ ("PruneJobOptions" :> PruneJobOptions)
  @@ ("PruneJobConfig" :> PruneJobConfig) @@ ("PruneJobStatus" :> PruneJobStatus)
  @@ ("CloudConfig" :> CloudConfig) @@ ("remote::CloudBackup" :> RemoteCloudBackup)
  @@ ("CloudBackupWithoutPassword" :> CloudBackupWithoutPassword)
  @@ ("CloudInterface" :> CloudInterface) @@ ("CloudMetricsUdp" :> CloudMetricsUdp)
  @@ ("CloudMetricsHttp" :> CloudMetricsHttp) @@ ("MetricServerInfo" :> MetricServerInfo)
  @@ ("CloudOpenIdConfig" :> CloudOpenIdConfig) @@ ("CloudKeyInfo" :> CloudKeyInfo)
  @@ ("MaintenanceMode" :> MaintenanceMode) @@ ("AclListItem" :> AclListItem)
  @@ ("CloudBackupStoreConfig" :> CloudBackupStoreConfig)
  @@ ("OptionalCloudDeviceIdentification" :> OptionalCloudDeviceIdentification)
  @@ ("CloudBackupStore" :> CloudBackupStore) @@ ("CloudBackupConfig" :> CloudBackupConfig)
  @@ ("changer::CloudBackup" :> ChangerCloudBackup) @@ ("CloudMediaPoolConfig" :> CloudMediaPoolConfig)
  @@ ("CloudMediaSetListEntry" :> CloudMediaSetListEntry) @@ ("CloudMediaListEntry" :> CloudMediaListEntry)
  @@ ("CloudMediaIdFlat" :> CloudMediaIdFlat) @@ ("CloudLabelUuidMap" :> CloudLabelUuidMap)
  @@ ("CloudMediaContentEntry" :> CloudMediaContentEntry)
  @@ ("CloudBackupDeviceInfo" :> CloudBackupDeviceInfo)
  @@ ("OptionalDeviceIdentification" :> OptionalDeviceIdentification)
  @@ ("azcs::CloudBackupDeviceInfo" :> AzcsCloudBackupDeviceInfo)
  @@ ("tape::CloudBackupConfig" :> TapeCloudBackupConfig) @@ ("CloudBackupListEntry" :> CloudBackupListEntry)
  @@ ("CloudObjectEntry" :> CloudObjectEntry)
  @@ ("OptionalCloudServiceIdentification" :> OptionalCloudServiceIdentification)
  @@ ("CloudStorageInfo" :> CloudStorageInfo)
  @@ ("CloudMemoryCounters" :> CloudMemoryCounters) @@ ("CloudSwapCounters" :> CloudSwapCounters)
  @@ ("CloudNodeInformation" :> CloudNodeInformation)
  @@ ("KernelVersionInformation" :> KernelVersionInformation)
  @@ ("CloudCpuInformation" :> CloudCpuInformation) @@ ("CloudNodeStatus" :> CloudNodeStatus)

RecordKinds == DOMAIN Structs

Key(s, f) == f.key

Flattened(f) == f.k \in {"flatten", "flatten_option"}

\* The entries of several maps in one (serde writes them all into one map).
Merge(parts) ==
  [k \in UNION {DOMAIN parts[i] : i \in DOMAIN parts} |->
     parts[CHOOSE i \in DOMAIN parts : k \in DOMAIN parts[i]][k]]

\* Every key a struct's fields read and write, flattened structs included.
RECURSIVE KeyList(_)
KeyList(s) ==
  LET fs == Structs[s].fields
  IN FoldLeft(LAMBDA acc, f : acc \o (IF Flattened(f) THEN KeyList(f.sub) ELSE <<Key(s, f)>>),
              <<>>, fs)

\* No two fields of a struct, flattened ones included, have the same key.
ASSUME \A s \in RecordKinds : IsInjective(KeyList(s))

-----------------------------------------------------------------------------
(* Serialize and Deserialize as serde_derive generates them.               *)
RECURSIVE Serialize(_, _), SerializeField(_, _, _)

Serialize(s, v) ==
  LET fs == Structs[s].fields
  IN Merge([i \in DOMAIN fs |-> SerializeField(s, fs[i], v[i])])

SerializeField(s, f, x) ==
  LET k == Key(s, f)
  IN CASE f.k = "flatten"        -> Serialize(f.sub, x)
       [] f.k = "flatten_option" -> IF x = None THEN <<>> ELSE Serialize(f.sub, x)
       [] f.k = "nested"         -> k :> Serialize(f.sub, x)
       [] f.k = "option"         -> IF x = None THEN <<>> ELSE k :> x
       [] f.k = "option_null"    -> k :> (IF x = None THEN Null ELSE x)
       [] f.k = "default"        -> IF SkipIf(f.sk, x) THEN <<>> ELSE k :> x
       [] f.k = "base64"         -> IF SkipIf(f.sk, x) THEN <<>> ELSE k :> Base64Encode(x)
       [] f.k = "plain"          -> k :> x

(* Named fields take their keys; a flattened struct reads what is left.   *)
(* A missing key or null is None for an Option, the default for a default *)
(* field, and an error otherwise.  A flattened Option is Some whenever    *)
(* its struct deserializes from what is left, None when it fails.         *)
RECURSIVE Deserialize(_, _), DeserializeField(_, _, _, _)

Deserialize(s, o) ==
  LET fs == Structs[s].fields
      own == {Key(s, fs[i]) : i \in {i \in DOMAIN fs : ~Flattened(fs[i])}}
      rest == [k \in DOMAIN o \ own |-> o[k]]
      xs == [i \in DOMAIN fs |-> DeserializeField(s, fs[i], o, rest)]
  IN IF \E i \in DOMAIN xs : xs[i] = Err THEN Err ELSE xs

DeserializeField(s, f, o, rest) ==
  LET k == Key(s, f)
      given == k \in DOMAIN o /\ o[k] # Null
  IN CASE f.k = "flatten"        -> Deserialize(f.sub, rest)
       [] f.k = "flatten_option" -> LET r == Deserialize(f.sub, rest) IN IF r = Err THEN None ELSE r
       [] f.k = "nested"         -> IF given THEN Deserialize(f.sub, o[k]) ELSE Err
       [] f.k \in {"option", "option_null"} -> IF given THEN o[k] ELSE None
       [] f.k = "default"        -> IF k \notin DOMAIN o THEN f.dv ELSE IF given THEN o[k] ELSE Err
       [] f.k = "base64"         -> IF k \notin DOMAIN o THEN f.dv ELSE IF given THEN Base64Decode(o[k]) ELSE Err
       [] f.k = "plain"          -> IF given THEN o[k] ELSE Err

-----------------------------------------------------------------------------
(* The objects a client may send: each key absent or one of its values.   *)
(* A nested object is one its struct accepts: what a nested struct        *)
(* rejects, it rejects as a record of its own.                            *)
RECURSIVE KeyDomains(_), Objects(_), KeyChoices(_, _), Accepted(_)

KeyDomains(s) ==
  LET fs == Structs[s].fields
  IN Merge([i \in DOMAIN fs |->
              CASE Flattened(fs[i])     -> KeyDomains(fs[i].sub)
                [] fs[i].k = "nested"   -> Key(s, fs[i]) :> Accepted(fs[i].sub)
                [] OTHER                -> Key(s, fs[i]) :> fs[i].d])

KeyChoices(ks, D) ==
  IF ks = {} THEN {<<>>}
  ELSE LET k == CHOOSE k \in ks : TRUE
           rest == KeyChoices(ks \ {k}, D)
       IN rest \cup {(k :> v) @@ r : v \in D[k], r \in rest}

Objects(s) == KeyChoices(DOMAIN KeyDomains(s), KeyDomains(s))

Accepted(s) == {o \in Objects(s) : Deserialize(s, o) # Err}
=============================================================================
