---------------------------- MODULE Authorization ---------------------------
(***************************************************************************)
(* Who asks, and what they may do: the ServiceContext of a coroutine, the  *)
(* permissions of roles, and the check of passwords.                       *)
(***************************************************************************)
EXTENDS Naturals, Sequences, FiniteSets

(***************************************************************************)
(* ServiceContext: the caller, locales, trace and peer of a call.  Its     *)
(* copies share one representation, which the with_ functions never touch. *)
(***************************************************************************)
CONSTANTS
  ContextHolders,       \* coroutines with a ServiceContext of their own
  MaxReps        \* bound: representations made

VARIABLES
  reps,          \* ServiceContext::Rep objects, the first one is kDefaultRep
  held,       \* the representation each holder's context points to
  meant          \* ghost: the fields each holder gave its context

ctvars == <<reps, held, meant>>

ContextFields == {"user_id", "user_rights", "locale_ids", "request_id", "trace_id", "peer"}
DefaultRep == [field \in ContextFields |-> 0]

\* with_user_id and its likes: a copy of the representation with one field
\* changed, in a context of its own.
WithField(rep, field, value) == [rep EXCEPT ![field] = value]

is_anonymous(rep) == rep["user_id"] = 0

-----------------------------------------------------------------------------
CtInit ==
  /\ reps = <<DefaultRep>>
  /\ held = [h \in ContextHolders |-> 1] /\ meant = [h \in ContextHolders |-> DefaultRep]

With(h, field, value) ==
  /\ Len(reps) < MaxReps
  /\ reps' = Append(reps, WithField(reps[held[h]], field, value))
  /\ held' = [held EXCEPT ![h] = Len(reps) + 1]
  /\ meant' = [meant EXCEPT ![h] = WithField(@, field, value)]

\* A context is handed on, or a new one made.
CopyContext(from, to) ==
  /\ held' = [held EXCEPT ![to] = held[from]]
  /\ meant' = [meant EXCEPT ![to] = meant[from]]
  /\ UNCHANGED reps
DefaultContext(h) ==
  /\ held' = [held EXCEPT ![h] = 1] /\ meant' = [meant EXCEPT ![h] = DefaultRep]
  /\ UNCHANGED reps

CtNext ==
  \/ \E h \in ContextHolders, field \in {"user_id", "trace_id"}, value \in 1..2 : With(h, field, value)
  \/ \E from, to \in ContextHolders : CopyContext(from, to)
  \/ \E h \in ContextHolders : DefaultContext(h)

-----------------------------------------------------------------------------
(* Properties *)

\* A context stays what its holder made it while others derive theirs from the
\* same representation, and a fresh one is always anonymous: no call runs with
\* the user, the locales or the trace of another (ServiceContext::with_*).
ContextIsItsHolders ==
  /\ \A h \in ContextHolders : reps[held[h]] = meant[h]
  /\ is_anonymous(reps[1])

-----------------------------------------------------------------------------
(***************************************************************************)
(* Roles, permissions and access rights (scada/authorization.cpp), the     *)
(* attributes that publish them (the *_encoding.cpp files) and the         *)
(* password policy.  A mask is the set of its bits.  A session is opened   *)
(* for an account with the roles granted to it, reads the permissions of a *)
(* node and asks for an operation.                                         *)
(***************************************************************************)
CONSTANTS CustomRole,  \* a role id that is not well known
          Passwords    \* passwords: sequences of character classes

VARIABLES session, decision

avars == <<session, decision>>

-----------------------------------------------------------------------------
(* Masks and the role table.                                               *)

WellKnownRoles == {"Anonymous", "AuthenticatedUser", "Observer", "Operator",
                   "Engineer", "Supervisor", "ConfigureAdmin", "SecurityAdmin"}
AdminRoles == {"Engineer", "Supervisor", "ConfigureAdmin", "SecurityAdmin"}

ContainsPermissions(granted, required) == required \subseteq granted

kReadOnly == {"Browse", "Read", "ReceiveEvents"}
kAdmin == kReadOnly \cup
    {"ReadHistory", "ReadRolePermissions", "Write", "WriteAttribute", "Call",
     "AddNode", "DeleteNode", "AddReference", "RemoveReference",
     "InsertHistory", "ModifyHistory", "DeleteHistory", "WriteHistorizing",
     "WriteRolePermissions"}

RolesForUser(access_rights, anonymous) ==
    IF anonymous THEN {"Anonymous"}
    ELSE {"AuthenticatedUser", "Observer"}
         \cup (IF "Control" \in access_rights THEN {"Operator"} ELSE {})
         \cup (IF "Configure" \in access_rights THEN AdminRoles ELSE {})

DefaultPermissionsForRole(role) ==
    CASE role = "Anonymous" -> kReadOnly
      [] role \in {"AuthenticatedUser", "Observer"} ->
             kReadOnly \cup {"ReadHistory", "ReadRolePermissions"}
      [] role = "Operator" ->
             kReadOnly \cup {"ReadHistory", "ReadRolePermissions", "Write", "Call"}
      [] role \in AdminRoles -> kAdmin

PermissionsForUser(access_rights, anonymous) ==
    UNION {DefaultPermissionsForRole(role) :
              role \in RolesForUser(access_rights, anonymous)}

IsPermitted(access_rights, anonymous, required) ==
    ContainsPermissions(PermissionsForUser(access_rights, anonymous), required)

WellKnownRoleId(role) ==
    CASE role = "Anonymous"  -> 15644 [] role = "AuthenticatedUser" -> 15656
      [] role = "Observer"   -> 15668 [] role = "Operator"          -> 15680
      [] role = "Engineer"   -> 16036 [] role = "Supervisor"        -> 15692
      [] role = "ConfigureAdmin" -> 15716 [] role = "SecurityAdmin" -> 15704
WellKnownRoleIds == {WellKnownRoleId(role) : role \in WellKnownRoles}

-----------------------------------------------------------------------------
(* RolePermissions of a node: a set of <<role id, permissions>> entries.   *)

RolePermissionsFor(roles) ==
    {[role_id |-> WellKnownRoleId(role),
      permissions |-> DefaultPermissionsForRole(role)] : role \in roles}

DefaultRolePermissions == RolePermissionsFor(WellKnownRoles)

\* On a process node only the Operator keeps Write and Call.
ProcessRolePermissions ==
    {IF e.role_id = WellKnownRoleId("Operator") THEN e
     ELSE [e EXCEPT !.permissions = @ \ {"Write", "Call"}] :
        e \in DefaultRolePermissions}

\* On configuration the Operator loses Write.
ConfigurationRolePermissions ==
    {IF e.role_id # WellKnownRoleId("Operator") THEN e
     ELSE [e EXCEPT !.permissions = @ \ {"Write"}] :
        e \in DefaultRolePermissions}

UserRolePermissionsFrom(entries, access_rights, anonymous) ==
    {e \in entries : \E role \in RolesForUser(access_rights, anonymous) :
                        e.role_id = WellKnownRoleId(role)}

PermissionsForUserFrom(entries, access_rights, anonymous) ==
    UNION {e.permissions :
              e \in UserRolePermissionsFrom(entries, access_rights, anonymous)}

PermissionsForRoles(entries, caller_role_ids) ==
    UNION {e.permissions : e \in {f \in entries : f.role_id \in caller_role_ids}}

ProcessPermissionsForUser(access_rights, anonymous) ==
    PermissionsForUserFrom(ProcessRolePermissions, access_rights, anonymous)
IsProcessPermitted(access_rights, anonymous, required) ==
    ContainsPermissions(ProcessPermissionsForUser(access_rights, anonymous), required)
IsConfigurationPermitted(access_rights, anonymous, required) ==
    ContainsPermissions(PermissionsForUserFrom(ConfigurationRolePermissions,
                                    access_rights, anonymous), required)

\* The inverse of RolesForUser, for the roles granted to an account.
AccessRightsForRoles(role_ids) ==
    (IF WellKnownRoleId("Operator") \in role_ids THEN {"Control"} ELSE {})
    \cup (IF \E role \in AdminRoles : WellKnownRoleId(role) \in role_ids
          THEN {"Configure"} ELSE {})

CallerRoleIds(access_rights, anonymous, granted_role_ids) ==
    {WellKnownRoleId(role) : role \in RolesForUser(access_rights, anonymous)}
    \cup granted_role_ids

-----------------------------------------------------------------------------
(* UserAccessLevel, as advertised to a client.                             *)

UserAccessLevelFrom(access_level, permissions) ==
    LET needed == [CurrentRead |-> "Read", CurrentWrite |-> "Write",
                   StatusWrite |-> "Write", TimestampWrite |-> "Write",
                   HistoryRead |-> "ReadHistory"]
        history_write == {"InsertHistory", "ModifyHistory", "DeleteHistory"}
    IN  {bit \in access_level :
            /\ bit \in DOMAIN needed => needed[bit] \in permissions
            /\ bit = "HistoryWrite" => permissions \cap history_write # {}}

UserAccessLevel(access_level, access_rights, anonymous) ==
    UserAccessLevelFrom(access_level,
                        PermissionsForUser(access_rights, anonymous))
\* A process node advertised by the permissions of any other node.
LevelOfAnyNode(access_level, access_rights, anonymous) ==
    UserAccessLevelFrom(access_level,
                        PermissionsForUser(access_rights, anonymous))
ProcessUserAccessLevel(access_level, access_rights, anonymous) ==
    UserAccessLevelFrom(access_level,
                        ProcessPermissionsForUser(access_rights, anonymous))

-----------------------------------------------------------------------------
(* RolePermissions, IdentityMappingRules, Users and Range as attribute     *)
(* values: arrays of extension objects, whose foreign payloads are dropped.*)

Object(payload, value) == [payload |-> payload, value |-> value]
EncodeObjects(payload, entries) ==
    [type |-> "EXTENSION_OBJECT", is_array |-> TRUE,
     objects |-> {Object(payload, e) : e \in entries}]
DecodeObjects(payload, v) ==
    IF ~v.is_array \/ v.type # "EXTENSION_OBJECT" THEN <<>>
    ELSE <<{o.value : o \in {x \in v.objects : x.payload = payload}}>>

EncodeRolePermissions(entries) == EncodeObjects("RolePermissionType", entries)
DecodeRolePermissions(v) == DecodeObjects("RolePermissionType", v)

-----------------------------------------------------------------------------
(* CheckPasswordPolicy.  A bound of 0 is no bound; anything that is not an *)
(* ASCII letter or digit is a special character.                           *)

CheckPasswordPolicy(password, options, min_length, max_length) ==
    LET Missing(class) == ~\E i \in DOMAIN password : password[i] = class
        Violated(option, class) == option \in options /\ Missing(class)
    IN  CASE min_length > 0 /\ Len(password) < min_length -> "TooShort"
          [] max_length > 0 /\ Len(password) > max_length -> "TooLong"
          [] OTHER ->
        CASE Violated("RequiresUpperCaseCharacters", "upper") -> "MissingUpperCase"
          [] OTHER ->
        CASE Violated("RequiresLowerCaseCharacters", "lower") -> "MissingLowerCase"
          [] OTHER ->
        CASE Violated("RequiresDigitCharacters", "digit") -> "MissingDigit"
          [] OTHER ->
        CASE Violated("RequiresSpecialCharacters", "special") -> "MissingSpecial"
          [] OTHER -> "None"

-----------------------------------------------------------------------------
(* Sessions and their requests.                                            *)

NoSession == [granted |-> {}, rights |-> {}, anonymous |-> TRUE]
NoDecision == [kind |-> "none", required |-> {}, allowed |-> FALSE,
               access_level |-> {}, level |-> {}, password |-> <<>>,
               bounds |-> <<>>]
FullLevel == {"CurrentRead", "CurrentWrite", "HistoryRead", "HistoryWrite",
              "SemanticChange", "StatusWrite", "TimestampWrite"}

AInit == session = NoSession /\ decision = NoDecision

\* An account signs in with the roles granted to it.
SignIn ==
    /\ session = NoSession /\ decision = NoDecision
    /\ \E granted \in SUBSET (WellKnownRoleIds \cup {CustomRole}) :
          session' = [granted |-> granted, rights |-> AccessRightsForRoles(granted),
                      anonymous |-> FALSE]
    /\ UNCHANGED decision

Decide(kind, required, access_level, allowed, level) ==
    /\ decision = NoDecision
    /\ decision' = [NoDecision EXCEPT
                       !.kind = kind, !.required = required, !.allowed = allowed,
                       !.access_level = access_level, !.level = level]
    /\ UNCHANGED session

AskProcessNode(required, access_level) ==
    Decide("process", required, access_level,
           IsProcessPermitted(session.rights, session.anonymous, required),
           ProcessUserAccessLevel(access_level, session.rights, session.anonymous))

AskConfigurationNode(required, access_level) ==
    Decide("configuration", required, access_level,
           IsConfigurationPermitted(session.rights, session.anonymous, required),
           {})

AskOtherNode(required, access_level) ==
    Decide("other", required, access_level,
           IsPermitted(session.rights, session.anonymous, required),
           UserAccessLevel(access_level, session.rights, session.anonymous))

\* A node that publishes RolePermissions of its own, with an entry for a
\* custom role and an object of another type among them.
PublishedEntries == ProcessRolePermissions
    \cup {[role_id |-> CustomRole, permissions |-> {"Read", "Write"}]}
PublishedValue ==
    LET v == EncodeRolePermissions(PublishedEntries)
        foreign == Object("Range", [role_id |-> CustomRole, permissions |-> kAdmin])
    IN  [v EXCEPT !.objects = @ \cup {foreign}]
AskPublishedNode(required, access_level) ==
    LET permissions == PermissionsForRoles(
            DecodeRolePermissions(PublishedValue)[1],
            CallerRoleIds(session.rights, session.anonymous, session.granted))
    IN  Decide("published", required, access_level,
               ContainsPermissions(permissions, required),
               UserAccessLevelFrom(access_level, permissions))

\* A new password is checked against the policy the server publishes.
ChangePassword ==
    /\ decision = NoDecision /\ session = NoSession
    /\ \E password \in Passwords, bounds \in {<<0, 0>>, <<2, 3>>},
          options \in SUBSET {"RequiresUpperCaseCharacters",
                              "RequiresLowerCaseCharacters",
                              "RequiresDigitCharacters",
                              "RequiresSpecialCharacters"} :
          LET verdict == CheckPasswordPolicy(password, options, bounds[1], bounds[2])
          IN  decision' = [NoDecision EXCEPT
                             !.kind = "password", !.required = options,
                             !.allowed = (verdict = "None"), !.level = {verdict},
                             !.password = password, !.bounds = bounds]
    /\ UNCHANGED session

Answered == /\ decision # NoDecision
            /\ decision' = NoDecision /\ session' = NoSession

Requests == {{"Read"}, {"Write"}, {"Call"}, {"ReadHistory"}, {"InsertHistory"},
             {"AddNode", "DeleteNode"}}

ANext ==
    \/ SignIn \/ ChangePassword \/ Answered
    \/ \E required \in Requests, access_level \in {FullLevel, {"CurrentRead"}} :
          \/ AskProcessNode(required, access_level)
          \/ AskConfigurationNode(required, access_level)
          \/ AskOtherNode(required, access_level)
          \/ AskPublishedNode(required, access_level)

ASpec == AInit /\ [][ANext]_avars

-----------------------------------------------------------------------------
(* Properties.                                                             *)

Granted(role) == WellKnownRoleId(role) \in session.granted
Admin == \E role \in AdminRoles : Granted(role)

\* Commanding and configuring are separate: a session writes or calls on a
\* process node exactly when its account was granted Operator, and writes
\* configuration or changes the address space exactly when it was granted one
\* of the administrative roles, whatever other roles it holds
\* (AccessRightsForRoles, RolesForUser, ProcessRolePermissions,
\* ConfigurationRolePermissions).
CommandingIsSeparate ==
    /\ decision.kind = "process" /\ decision.required \in {{"Write"}, {"Call"}}
          => (decision.allowed <=> Granted("Operator"))
    /\ decision.kind = "configuration" /\ decision.required = {"Write"}
          => (decision.allowed <=> Admin)
    /\ decision.required = {"AddNode", "DeleteNode"} /\ decision.kind # "published"
          => (decision.allowed <=> Admin)

\* What a client is told is what it may do: an access level bit is shown
\* exactly when the node has it and the server would allow the operation
\* (UserAccessLevelFrom against IsPermitted and IsProcessPermitted).
AdvertisedIsEnforced ==
    LET Shows(bit, permission) ==
            decision.required = {permission} =>
                (bit \in decision.level
                    <=> bit \in decision.access_level /\ decision.allowed)
    IN  decision.kind \in {"process", "other", "published"} =>
            /\ Shows("CurrentRead", "Read")
            /\ Shows("CurrentWrite", "Write")
            /\ Shows("StatusWrite", "Write")
            /\ Shows("HistoryRead", "ReadHistory")
            /\ Shows("HistoryWrite", "InsertHistory")

\* The coarse rights an account's roles are turned into never take back what
\* a granted role permits on a node, and turning the rights into roles again
\* gives the same rights (AccessRightsForRoles "the inverse of RolesForUser").
RightsKeepRoles ==
    ~session.anonymous =>
        /\ \A entries \in {DefaultRolePermissions, ProcessRolePermissions,
                            ConfigurationRolePermissions} :
              PermissionsForRoles(entries, session.granted)
                  \subseteq PermissionsForUserFrom(entries, session.rights, FALSE)
        /\ AccessRightsForRoles({WellKnownRoleId(role) :
               role \in RolesForUser(session.rights, FALSE)}) = session.rights

\* A password is accepted exactly when it meets every published requirement,
\* and a refusal names one that is not met (CheckPasswordPolicy).
PasswordVerdictIsTrue ==
    decision.kind = "password" =>
        LET password == decision.password
            bounds == decision.bounds
            classes == {password[i] : i \in DOMAIN password}
            unmet ==
                {v \in {"TooShort"} : bounds[1] > 0 /\ Len(password) < bounds[1]}
                \cup {v \in {"TooLong"} : bounds[2] > 0 /\ Len(password) > bounds[2]}
                \cup {v \in {"MissingUpperCase"} : "upper" \notin classes
                          /\ "RequiresUpperCaseCharacters" \in decision.required}
                \cup {v \in {"MissingLowerCase"} : "lower" \notin classes
                          /\ "RequiresLowerCaseCharacters" \in decision.required}
                \cup {v \in {"MissingDigit"} : "digit" \notin classes
                          /\ "RequiresDigitCharacters" \in decision.required}
                \cup {v \in {"MissingSpecial"} : "special" \notin classes
                          /\ "RequiresSpecialCharacters" \in decision.required}
        IN  /\ decision.allowed <=> unmet = {}
            /\ ~decision.allowed => decision.level \subseteq unmet
=============================================================================
