---------------------------- MODULE ConfigValues ----------------------------
(***************************************************************************)
(* Setting values of pbs-api-types on their way through the API and the   *)
(* configuration file.  A string is verified by the schema's VerifyFn      *)
(* (which parses it with FromStr), saved through Display (the             *)
(* forward_serialize_to_display / serde_plain macros), loaded again       *)
(* through FromStr and then used: a MaintenanceMode checks an operation,  *)
(* a Role is turned into privilege names.  A record (ConfigRecords) is    *)
(* deserialized from the object the API received, serialized into the     *)
(* configuration and deserialized again.                                  *)
(*                                                                         *)
(* A string is a sequence of tokens: a separator ":" or "-", a keyword,   *)
(* or a name.  Only the separators the parsers split on are tokens of     *)
(* their own, so every split and prefix test of the code is kept.         *)
(***************************************************************************)
EXTENDS Integers, Sequences, SequencesExt, Bitwise, ConfigRecords

CONSTANTS
  Ids,          \* plain names (PROXMOX_SAFE_ID words)
  GroupIds,     \* names BACKUP_GROUP_SCHEMA accepts ("<type>/<id>")
  BackupTypes,  \* names BackupType::from_str accepts (vm, ct, host)
  MaxLen,       \* [StringKinds -> Nat]: the longest input string tried
  PrivWidth,    \* bits of the privilege word (u64 in the code)
  CalendarEvents, \* words proxmox_time::CalendarEvent accepts
  TimeSpans,    \* words proxmox_time::TimeSpan accepts
  NoValue       \* nothing yet

\* Settings whose value is a string with a parser (and for the first five
\* a printer), and the record types.
StringKinds == {"group-filter", "media-location", "backup-location",
                "maintenance-type", "role", "allocation-policy",
                "retention-policy", "notify"}

Kinds == StringKinds \cup RecordKinds

Alphabet(k) ==
  CASE k = "group-filter"     -> {"include", "exclude", "group", "type", "regex", ":"}
                                  \cup GroupIds \cup BackupTypes
    [] k = "media-location"   -> {"offline", "online", "vault", "cloud", "-"} \cup Ids
    [] k = "backup-location"  -> {"local", "cloud", "vault", "-"} \cup Ids
    [] k = "maintenance-type" -> {"read", "only", "offline", "delete", "-"}
    [] k = "role"             -> {"Admin", "NoAccess", "CloudAudit", "CloudAdmin",
                                  "CloudUser"} \cup Ids
    [] k = "allocation-policy" -> {"continue", "always"} \cup CalendarEvents \cup Ids
    [] k = "retention-policy" -> {"overwrite", "keep"} \cup TimeSpans \cup Ids
    [] k = "notify"           -> {"never", "always", "error"} \cup Ids

Strings(k) == BoundedSeq(Alphabet(k), MaxLen[k])

\* str::split_once: the parts before and after the first occurrence of c.
SplitOnce(s, c) ==
  LET at == {i \in 1..Len(s) : s[i] = c}
  IN IF at = {} THEN NoValue
     ELSE <<SubSeq(s, 1, Min(at) - 1), SubSeq(s, Min(at) + 1, Len(s))>>

\* str::strip_prefix for a prefix of one word and one separator.
After(p, s) == SubSeq(s, Len(p) + 1, Len(s))

\* PROXMOX_SAFE_ID_FORMAT: a word, then words and dashes (the length limits
\* of BUCKET_NAME_SCHEMA are below the token abstraction).
SafeId(v) == v # <<>> /\ v[1] # "-" /\ \A i \in 1..Len(v) : v[i] # ":"

-----------------------------------------------------------------------------
(* FilterType and GroupFilter, jobs.rs.  A filter is a record; derived  *)
(* PartialEq is record equality (a regex compares by its source).       *)
FilterTypeFromStr(s) ==
  LET sp == SplitOnce(s, ":")
  IN CASE sp = NoValue -> Err
       [] sp[1] = <<"group">> ->
            IF sp[2] \in {<<g>> : g \in GroupIds} THEN [ft |-> "group", v |-> sp[2]] ELSE Err
       [] sp[1] = <<"type">> ->
            IF sp[2] \in {<<t>> : t \in BackupTypes} THEN [ft |-> "type", v |-> sp[2]] ELSE Err
       [] sp[1] = <<"regex">> -> [ft |-> "regex", v |-> sp[2]]
       [] OTHER -> Err

\* PartialEq: same variant and same value (a regex by its as_str()).
FilterTypeEq(a, b) == a.ft = b.ft /\ a.v = b.v

GroupFilterEq(a, b) == FilterTypeEq(a.f, b.f) /\ a.ex = b.ex

FilterTypeFmt(f) == <<f.ft, ":">> \o f.v

GroupFilterFromStr(s) ==
  LET sp == SplitOnce(s, ":")
      sel == sp # NoValue /\ sp[1] \in {<<"include">>, <<"exclude">>}
      ft == FilterTypeFromStr(IF sel THEN sp[2] ELSE s)
  IN IF ft = Err THEN Err
     ELSE [ex |-> sel /\ sp[1] = <<"exclude">>, f |-> ft]

\* Fault model: Display leaves out the "exclude:" prefix.
GroupFilterFmtNoExclude(g) == FilterTypeFmt(g.f)

GroupFilterFmt(g) == (IF g.ex THEN <<"exclude", ":">> ELSE <<>>) \o FilterTypeFmt(g.f)

-----------------------------------------------------------------------------
(* MediaLocation, cloud/media_location.rs; BackupLocation and its        *)
(* VerifyFn, tape/media_location.rs.                                      *)

\* Fault model: the prefix test and strip without the dash.
MediaLocationFromStrNoDash(s) ==
  CASE s = <<"offline">> -> [loc |-> "offline", v |-> <<>>]
    [] IsPrefix(<<"online">>, s) -> [loc |-> "online", v |-> After(<<"online">>, s)]
    [] IsPrefix(<<"vault", "-">>, s) -> [loc |-> "vault", v |-> After(<<"vault", "-">>, s)]
    [] IsPrefix(<<"cloud", "-">>, s) -> [loc |-> "cloud", v |-> After(<<"cloud", "-">>, s)]
    [] OTHER -> Err

MediaLocationFromStr(s) ==
  CASE s = <<"offline">> -> [loc |-> "offline", v |-> <<>>]
    [] IsPrefix(<<"online", "-">>, s) -> [loc |-> "online", v |-> After(<<"online", "-">>, s)]
    [] IsPrefix(<<"vault", "-">>, s) -> [loc |-> "vault", v |-> After(<<"vault", "-">>, s)]
    [] IsPrefix(<<"cloud", "-">>, s) -> [loc |-> "cloud", v |-> After(<<"cloud", "-">>, s)]
    [] OTHER -> Err

MediaLocationFmt(l) == IF l.loc = "offline" THEN <<"offline">> ELSE <<l.loc, "-">> \o l.v

BackupLocationFromStr(s) ==
  CASE s = <<"local">> -> [loc |-> "local", v |-> <<>>]
    [] IsPrefix(<<"cloud", "-">>, s) -> [loc |-> "cloud", v |-> After(<<"cloud", "-">>, s)]
    [] IsPrefix(<<"vault", "-">>, s) -> [loc |-> "vault", v |-> After(<<"vault", "-">>, s)]
    [] OTHER -> Err

\* API_SCHEMA's VerifyFn: parse, then check the bucket or vault name.
VerifyBackupLocation(s) ==
  LET l == BackupLocationFromStr(s)
  IN IF l # Err /\ (l.loc = "local" \/ SafeId(l.v)) THEN l ELSE Err

\* Fault model: the cloud prefix printed under another name.
BackupLocationFmtWrongPrefix(l) ==
  IF l.loc = "local" THEN <<"local">> ELSE <<IF l.loc = "cloud" THEN "bucket" ELSE l.loc, "-">> \o l.v

BackupLocationFmt(l) == IF l.loc = "local" THEN <<"local">> ELSE <<l.loc, "-">> \o l.v

-----------------------------------------------------------------------------
(* MaintenanceType (serde kebab-case) and MaintenanceMode::check,        *)
(* maintenance.rs.  An operation is Option<Operation>.                   *)
MaintenanceNames == [ReadOnly |-> <<"read", "-", "only">>,
                     Offline |-> <<"offline">>, Delete |-> <<"delete">>]

MaintenanceTypeFromStr(s) ==
  IF \E t \in DOMAIN MaintenanceNames : MaintenanceNames[t] = s
  THEN CHOOSE t \in DOMAIN MaintenanceNames : MaintenanceNames[t] = s
  ELSE Err

Operations == {"None", "Read", "Write", "Lookup"}

\* Fault model: the Lookup shortcut tested before the Delete bail.
CheckLookupFirst(ty, op) ==
  CASE op = "Lookup" -> "ok"
    [] ty = "Delete" -> "err"
    [] ty = "Offline" -> "err"
    [] ty = "ReadOnly" /\ op = "Write" -> "err"
    [] OTHER -> "ok"

Check(ty, op) ==
  CASE ty = "Delete" -> "err"
    [] op = "Lookup" -> "ok"
    [] ty = "Offline" -> "err"
    [] ty = "ReadOnly" /\ op = "Write" -> "err"
    [] OTHER -> "ok"

-----------------------------------------------------------------------------
(* PRIVILEGES (constnamedbitmap: bit i for the i-th name), the roles, Role *)
(* FromStr by its variant name, and privs_to_priv_names, acl.rs.          *)
PRIVILEGES == [i \in 1..5 |->
                [name |-> <<"Cloud.Audit", "Cloud.Modify", "Cloud.Backup",
                            "Cloud.Restore", "Cloud.Delete">>[i],
                 value |-> 2^(i - 1)]]

PV(n) == PRIVILEGES[CHOOSE i \in 1..5 : PRIVILEGES[i].name = n].value

RoleValue == [Admin |-> 2^PrivWidth - 1,
              NoAccess |-> 0,
              CloudAudit |-> 0 | PV("Cloud.Audit"),
              CloudAdmin |-> 0 | PV("Cloud.Audit") | PV("Cloud.Modify") | PV("Cloud.Backup")
                               | PV("Cloud.Restore") | PV("Cloud.Delete"),
              CloudUser |-> 0 | PV("Cloud.Backup") | PV("Cloud.Restore")]

RoleFromStr(s) == IF \E r \in DOMAIN RoleValue : s = <<r>>
                  THEN CHOOSE r \in DOMAIN RoleValue : s = <<r>> ELSE Err

\* Fault model: a privilege is named when its bit is clear.
PrivsToPrivNamesInverted(privs) ==
  FoldLeft(LAMBDA names, p : IF (p.value & privs) = 0 THEN Append(names, p.name) ELSE names,
           <<>>, PRIVILEGES)

PrivsToPrivNames(privs) ==
  FoldLeft(LAMBDA names, p : IF (p.value & privs) # 0 THEN Append(names, p.name) ELSE names,
           <<>>, PRIVILEGES)

-----------------------------------------------------------------------------
(* MediaSetPolicy and RetentionPolicy FromStr, cloud/media_pool.rs: a     *)
(* keyword, else whatever CalendarEvent / TimeSpan parse.  The pool       *)
(* configuration keeps the string (allocation, retention: Option<String>). *)
MediaSetPolicyFromStr(s) ==
  CASE s = <<"continue">> -> "ContinueCurrent"
    [] s = <<"always">> -> "AlwaysCreate"
    [] s \in {<<e>> : e \in CalendarEvents} -> [createAt |-> s]
    [] OTHER -> Err

RetentionPolicyFromStr(s) ==
  CASE s = <<"overwrite">> -> "OverwriteAlways"
    [] s = <<"keep">> -> "KeepForever"
    [] s \in {<<d>> : d \in TimeSpans} -> [protectFor |-> s]
    [] OTHER -> Err

\* CloudNotify, jobs.rs: serde rename_all = "lowercase".
NotifyNames == [Never |-> <<"never">>, Always |-> <<"always">>, Error |-> <<"error">>]

NotifyFromStr(s) ==
  IF \E n \in DOMAIN NotifyNames : NotifyNames[n] = s
  THEN CHOOSE n \in DOMAIN NotifyNames : NotifyNames[n] = s ELSE Err

-----------------------------------------------------------------------------
\* The VerifyFn of each kind's schema (FromStr for all but BackupLocation).
\* CLOUD_MEDIA_SET_ALLOCATION_POLICY_FORMAT and CLOUD_MEDIA_RETENTION_POLICY_FORMAT:
\* the VerifyFn runs from_str and fails with it; the parsed policy is what a
\* later from_str of the same string gives.
AllocationPolicyFormat(s) == MediaSetPolicyFromStr(s)

RetentionPolicyFormat(s) == RetentionPolicyFromStr(s)

Verify(k, s) ==
  CASE k = "group-filter"     -> GroupFilterFromStr(s)
    [] k = "media-location"   -> MediaLocationFromStr(s)
    [] k = "backup-location"  -> VerifyBackupLocation(s)
    [] k = "maintenance-type" -> MaintenanceTypeFromStr(s)
    [] k = "role"             -> RoleFromStr(s)
    [] k = "allocation-policy" -> AllocationPolicyFormat(s)
    [] k = "retention-policy" -> RetentionPolicyFormat(s)
    [] k = "notify"           -> NotifyFromStr(s)
    [] k \in RecordKinds      -> Deserialize(k, s)

\* Loading a saved value: forward_deserialize_to_from_str / serde.
Parse(k, s) ==
  CASE k = "group-filter"     -> GroupFilterFromStr(s)
    [] k = "media-location"   -> MediaLocationFromStr(s)
    [] k = "backup-location"  -> BackupLocationFromStr(s)
    [] k = "maintenance-type" -> MaintenanceTypeFromStr(s)
    [] k = "role"             -> RoleFromStr(s)
    [] k = "allocation-policy" -> MediaSetPolicyFromStr(s)
    [] k = "retention-policy" -> RetentionPolicyFromStr(s)
    [] k = "notify"           -> NotifyFromStr(s)
    [] k \in RecordKinds      -> Deserialize(k, s)

\* Saving a value: forward_serialize_to_display / serde.  A policy is
\* saved as the string that was verified, not as the parsed value.
Fmt(k, v) ==
  CASE k = "group-filter"     -> GroupFilterFmt(v)
    [] k = "media-location"   -> MediaLocationFmt(v)
    [] k = "backup-location"  -> BackupLocationFmt(v)
    [] k = "maintenance-type" -> MaintenanceNames[v]
    [] k = "role"             -> <<v>>
    [] k = "notify"           -> NotifyNames[v]
    [] k \in RecordKinds      -> Serialize(k, v)

VARIABLES
  kind,      \* the kind of setting
  input,     \* the string the API received
  phase,     \* "input", "rejected", "verified", "saved", "loaded", "used"
  value,     \* the value the API accepted
  file,      \* the string written to the configuration file
  reloaded,  \* the value read back from the file
  outcome    \* the use of the loaded value: check results, privilege names

vars == <<kind, input, phase, value, file, reloaded, outcome>>

Init ==
  /\ kind \in Kinds
  /\ input \in IF kind \in RecordKinds THEN Objects(kind) ELSE Strings(kind)
  /\ phase = "input"
  /\ value = NoValue /\ file = NoValue /\ reloaded = NoValue /\ outcome = NoValue

\* The API call: the parameter is verified, an error rejects the call.
Submit ==
  /\ phase = "input"
  /\ value' = Verify(kind, input)
  /\ phase' = IF value' = Err THEN "rejected" ELSE "verified"
  /\ UNCHANGED <<kind, input, file, reloaded, outcome>>

\* A value built in code instead of received: CloudInterface::new(name),
\* the only constructor of a record type in pbs-api-types.
Construct ==
  /\ phase = "input"
  /\ kind = "CloudInterface"
  /\ \E name \in Str : value' = CloudInterfaceNew(name)
  /\ phase' = "verified"
  /\ UNCHANGED <<kind, input, file, reloaded, outcome>>

Save ==
  /\ phase = "verified"
  /\ file' = IF kind \in {"allocation-policy", "retention-policy"} THEN input
             ELSE Fmt(kind, value)
  /\ phase' = "saved"
  /\ UNCHANGED <<kind, input, value, reloaded, outcome>>

Load ==
  /\ phase = "saved"
  /\ reloaded' = Parse(kind, file)
  /\ phase' = "loaded"
  /\ UNCHANGED <<kind, input, value, file, outcome>>

\* A loaded maintenance mode checks every operation; a role is expanded to
\* the names of its privileges.
Use ==
  /\ phase = "loaded"
  /\ kind \in {"maintenance-type", "role"}
  /\ outcome' = IF kind = "role" THEN PrivsToPrivNames(RoleValue[reloaded])
                ELSE [op \in Operations |-> Check(reloaded, op)]
  /\ phase' = "used"
  /\ UNCHANGED <<kind, input, value, file, reloaded>>

\* A rejected call, or a value that has been used or has no use, ends here.
Finished ==
  /\ \/ phase \in {"rejected", "used"}
     \/ phase = "loaded" /\ kind \notin {"maintenance-type", "role"}
  /\ UNCHANGED vars

Next == Submit \/ Construct \/ Save \/ Load \/ Use \/ Finished

Spec == Init /\ [][Next]_vars

-----------------------------------------------------------------------------
TypeOK ==
  /\ kind \in Kinds
  /\ phase \in {"input", "rejected", "verified", "saved", "loaded", "used"}
  /\ kind \in StringKinds =>
       /\ input \in Strings(kind)
       /\ phase \in {"saved", "loaded", "used"} => file \in Seq(Alphabet(kind))
  /\ kind \in RecordKinds =>
       /\ DOMAIN input \subseteq ToSet(KeyList(kind))
       /\ phase \in {"saved", "loaded", "used"} => DOMAIN file \subseteq ToSet(KeyList(kind))

(* A value the API accepted, or one CloudInterface::new built, that was   *)
(* saved is read back from the file as the same value (by the type's      *)
(* PartialEq): Display, used for serializing ("caution!"), and FromStr    *)
(* are inverse on every accepted value, and a record field skipped when   *)
(* saved (an Option that is None, a field at its default) is read back as *)
(* the value it had.                                                      *)
SavedValueReloads ==
  phase \in {"loaded", "used"} =>
    IF kind = "group-filter" THEN GroupFilterEq(reloaded, value) ELSE reloaded = value

(* Parsing drops nothing of its input: printing the accepted value gives  *)
(* back the input, except the optional "include:" of a group filter.      *)
ParseIsExact ==
  phase = "verified" /\ kind \in StringKinds \ {"allocation-policy", "retention-policy"} =>
    \/ Fmt(kind, value) = input
    \/ kind = "group-filter" /\ input = <<"include", ":">> \o Fmt(kind, value)

(* MaintenanceMode::check allows what the doc comments of MaintenanceType  *)
(* and Operation say: read-only allows reads and in-memory lookups,        *)
(* offline only lookups, and a bucket being deleted nothing.              *)
MaintenanceAsDocumented ==
  phase = "used" /\ kind = "maintenance-type" =>
    /\ outcome["Read"] = IF reloaded = "ReadOnly" THEN "ok" ELSE "err"
    /\ outcome["Write"] = "err"
    /\ outcome["Lookup"] = IF reloaded = "Delete" THEN "err" ELSE "ok"

(* privs_to_priv_names of a loaded role names exactly the privileges the  *)
(* role's doc comment grants, in PRIVILEGES order.                        *)
RoleGrantsAsDocumented ==
  LET all == <<"Cloud.Audit", "Cloud.Modify", "Cloud.Backup", "Cloud.Restore", "Cloud.Delete">>
      doc == [Admin |-> all, NoAccess |-> <<>>, CloudAudit |-> <<"Cloud.Audit">>,
              CloudAdmin |-> all, CloudUser |-> <<"Cloud.Backup", "Cloud.Restore">>]
  IN phase = "used" /\ kind = "role" => outcome = doc[reloaded]
=============================================================================
