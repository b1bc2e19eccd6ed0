----------------------------- MODULE SystemForm -----------------------------
(***************************************************************************)
(* A system's way through the admin UI: from the form to the row and from  *)
(* the row to what is checked (monitor_exporter/admin_ui.py and its        *)
(* templates; _shape_target() of exporter.py; the mappers of               *)
(* sd_endpoints.py).                                                       *)
(*                                                                         *)
(* A GET renders a form, from a row or from defaults.  The user changes    *)
(* some fields - those the form shows - and posts it, at any later time;   *)
(* the handler validates the texts, turns them into column values and      *)
(* stores them in one statement.  A form that is refused is rendered again *)
(* from what was sent.  In the meantime the row may be switched on and off *)
(* in the list or deleted.                                                 *)
(*                                                                         *)
(* There is one system_id.  A value is a text; Null is SQL's NULL and the  *)
(* field a form does not send.  Two copies of admin_ui.py are deployed,    *)
(* the exporter's and the Helm chart's, and they differ.                   *)
(***************************************************************************)
EXTENDS Naturals

CONSTANTS
  Types,    \* system types the user works with
  Users,    \* browsers with an open form
  Texts,    \* texts that fields and columns hold
  Entries,  \* Entries[t][f]: what a user may put into the field f of a form
  Strip(_),     \* Strip(x): the text x without the blanks around it
  Fits(_, _),   \* Fits(f, x): the column f takes the value x
  Mirror(_, _), \* Mirror(h, p): the url that is a host, a colon and a port
  Canonical \* Canonical[x]: the number that int() makes of the text x

Null    == "NULL"
Zero    == "0"
Raised  == "ValueError"  \* no value: int() raises

(***************************************************************************)
(* The tables of admin_ui.py and exporter.py, for the columns that decide  *)
(* what is checked.                                                        *)
(***************************************************************************)
Fields == {"system_group", "url", "db_host", "db_port", "timeout_seconds",
           "blackbox_module", "realm_path", "version_strategy"}

IntFields == {"timeout_seconds", "db_port"}

HostPortTypes == {"DATABASE", "POSTGRES", "REDIS", "MONGODB"}
UrlOnlyTypes  == {"LDAP", "ELASTICSEARCH"}
ModuleTypes   == {"HTTP", "GRPC", "DNS"}
SystemTypes   == HostPortTypes \cup UrlOnlyTypes \cup ModuleTypes \cup
                 {"TCP", "ICMP", "SSL", "KEYCLOAK", "VERSION"}

(* REQUIRED_FIELDS *)
Required(t) ==
  CASE t \in HostPortTypes -> {"system_group", "db_host", "db_port"}
    [] t \in ModuleTypes   -> {"system_group", "url", "blackbox_module"}
    [] t = "KEYCLOAK"      -> {"system_group", "url", "realm_path"}
    [] t = "VERSION"       -> {"system_group", "url", "version_strategy"}
    [] t = "SSL"           -> {"url"}
    [] OTHER               -> {"system_group", "url"}

(* The fields of a type's form; the url of a (host, port) type is hidden.  *)
Sent(t) ==
  {"system_group", "timeout_seconds", "url"} \cup
    (IF t \in HostPortTypes THEN {"db_host", "db_port"} ELSE {}) \cup
    (IF t \in ModuleTypes \cup {"TCP"} THEN {"blackbox_module"} ELSE {}) \cup
    (IF t = "KEYCLOAK" THEN {"realm_path"} ELSE {}) \cup
    (IF t = "VERSION" THEN {"version_strategy"} ELSE {})

Shown(t) == IF t \in HostPortTypes THEN Sent(t) \ {"url"} ELSE Sent(t)

(* What the templates show for a value that is not there.  A <select> sends *)
(* its first option.                                                       *)
DefaultPort(t) == CASE t = "POSTGRES" -> "5432" [] t = "REDIS" -> "6379"
                    [] t = "MONGODB" -> "27017" [] OTHER -> "3306"
DefaultModule(t) == CASE t = "TCP" -> "tcp_connect" [] t = "GRPC" -> "grpc"
                      [] t = "DNS" -> "dns_udp" [] OTHER -> "http_2xx"

Placeholder(t, f) ==
  CASE f = "timeout_seconds"  -> "30"
    [] f = "db_port"          -> DefaultPort(t)
    [] f = "blackbox_module"  -> DefaultModule(t)
    [] f = "realm_path"       -> "/auth/realms/master"
    [] f = "version_strategy" -> "spring_actuator"
    [] OTHER                  -> ""

(* The options of the two <select> fields. *)
BLACKBOX_MODULES   == {"http_2xx", "http_2xx_or_401", "http_302", "http_401",
                       "tcp_connect", "icmp_ping", "grpc", "grpc_plain",
                       "dns_udp", "dns_tcp"}
VERSION_STRATEGIES == {"spring_actuator", "openapi", "gateway_version",
                       "json_version", "kubernetes", "camunda",
                       "monitor_version"}
Options(t, f) ==
  CASE f = "version_strategy" -> VERSION_STRATEGIES
    [] t = "HTTP" -> BLACKBOX_MODULES
    [] t = "GRPC" -> {"grpc", "grpc_plain"}
    [] t = "DNS"  -> {"dns_udp", "dns_tcp"}
    [] OTHER      -> {"tcp_connect"}

(* int() drops zeros in front: it leaves alone what it has made, and the    *)
(* numbers that the code itself has.                                       *)
Literals == {Zero, "30"} \cup
              {DefaultPort(t) : t \in Types \cap HostPortTypes}

(* Only a url is ever made of a host and a port; the handlers strip it, too. *)
Mirrors == {Mirror(h, p) : h \in Texts, p \in Texts} \cup
             {Strip(Mirror(h, p)) : h \in Texts, p \in Texts}

(* Fits(f, x) stands for the VARCHAR(n) and the INT of the schema.  No host *)
(* and port that fit make too long a url, and int() strips, too.           *)
ASSUME SystemFormAssumption ==
  /\ Types \subseteq SystemTypes
  /\ Texts \subseteq STRING \ {Null, Raised} /\ "" \in Texts
  /\ Entries \in [Types -> [Fields -> SUBSET Texts]]
  /\ \A t \in Types : \A f \in Sent(t) :
       /\ Placeholder(t, f) \in Texts /\ Fits(f, Placeholder(t, f))
       /\ Strip(Placeholder(t, f)) = Placeholder(t, f)
       /\ f \in {"blackbox_module", "version_strategy"}
            => Entries[t][f] \subseteq Options(t, f)
  /\ Strip("") = "" /\ \A x \in Texts : Strip(x) \in Texts
  /\ \A x \in Texts \cup Mirrors : Strip(Strip(x)) = Strip(x)
  /\ \A h, p \in Texts :
       /\ Mirror(h, p) \in STRING \ {"", Null, Raised}
       /\ Strip(Mirror(h, p)) \in STRING \ {"", Null, Raised}
       /\ Strip(h) = h /\ Strip(p) = p => Strip(Mirror(h, p)) = Mirror(h, p)
       /\ Fits("db_host", h) /\ Fits("db_port", p) => Fits("url", Mirror(h, p))
  /\ DOMAIN Canonical \subseteq {x \in Texts : Strip(x) # ""}
  /\ \A x \in Texts : x \in DOMAIN Canonical <=> Strip(x) \in DOMAIN Canonical
  /\ \A x \in DOMAIN Canonical :
       /\ Canonical[x] \in DOMAIN Canonical
       /\ Canonical[Canonical[x]] = Canonical[x]
       /\ Canonical[x] = Canonical[Strip(x)] /\ Strip(Canonical[x]) = Canonical[x]
  /\ \A x \in Literals : x \in DOMAIN Canonical /\ Canonical[x] = x

VARIABLES
  release, \* the copy of admin_ui.py that runs: the exporter's or the chart's
  stored, \* the row of the system in monitored_system, or NoRow
  form,   \* form[u]: the form in the browser of u, or NoForm
  reply   \* reply[u]: how the last request of u was answered

formVars == <<release, stored, form, reply>>

Numbers == {Canonical[x] : x \in DOMAIN Canonical}

(* What a field may hold. *)
Values == [Fields -> Texts \cup Mirrors \cup {Null}]
Held(f) == Texts \cup {Null} \cup (IF f = "url" THEN Mirrors ELSE {})

(* What the schema lets into a row. *)
Columns == {c \in Values :
              /\ c["system_group"] # Null
              /\ \A f \in Fields : c[f] \in Held(f) /\ (c[f] = Null \/ Fits(f, c[f]))
              /\ \A f \in IntFields : c[f] \in Numbers \cup {Null}}
Row   == [type : Types, is_enable : BOOLEAN, columns : Columns]
NoRow == [type |-> "", is_enable |-> FALSE, columns |-> [f \in Fields |-> Null]]

(* "gone" is the form of a row that was deleted: its id is not used again.  *)
(* The Enabled field of the edit form is left out: nobody reads it.        *)
Form   == [mode : {"new", "edit", "gone"}, type : Types,
           fields : {g \in Values : \A f \in Fields : g[f] \in Held(f)}]
NoForm == [mode |-> "none", type |-> "",
           fields |-> [f \in Fields |-> Null]]

(* A row that is older than the columns of migration 06: they are NULL,    *)
(* but for the default of timeout_seconds.  Nobody padded its url.         *)
Migrated(t, url) ==
  [type |-> t, is_enable |-> TRUE,
   columns |-> [f \in Fields |->
     CASE f \in {"system_group", "url"} -> url
       [] f = "timeout_seconds"         -> "30"
       [] OTHER                         -> Null]]

Unpadded(t) == {x \in Entries[t]["url"] :
                  x # "" /\ Strip(x) = x /\ Fits("url", x) /\ Fits("system_group", x)}

FormInit ==
  /\ release \in {"exporter", "chart"}
  /\ stored \in {NoRow} \cup
       UNION {{Migrated(t, x) : x \in Unpadded(t)} : t \in Types \ HostPortTypes}
  /\ form = [u \in Users |-> NoForm]
  /\ reply = [u \in Users |-> "none"]

(***************************************************************************)
(* Rendering                                                               *)
(***************************************************************************)

(* {{ value or placeholder }}: a number 0 is not there either, but the     *)
(* text "0" of a form that was sent is.                                    *)
Missing(f, v, isRow) == \/ v \in {Null, ""}
                        \/ isRow /\ f \in IntFields /\ v = Zero

Filled(t, f, v, isRow) == IF Missing(f, v, isRow) THEN Placeholder(t, f) ELSE v

(* The values of a row, or of a form that is shown again, as a form. *)
Rendered(t, values, isRow) ==
  [f \in Fields |->
     IF f \notin Sent(t) THEN Null
     ELSE IF f = "url" /\ t \in HostPortTypes
          THEN Mirror(Filled(t, "db_host", values["db_host"], isRow),
                      Filled(t, "db_port", values["db_port"], isRow))
          ELSE Filled(t, f, values[f], isRow)]

Show(u, mode, t, fields) ==
  form' = [form EXCEPT ![u] = [mode |-> mode, type |-> t, fields |-> fields]]

Answer(u, r) == reply' = [reply EXCEPT ![u] = r]

(* new(); picking another type fetches that type's fields. *)
OpenNew(u, t) ==
  /\ Show(u, "new", t, Rendered(t, [f \in Fields |-> Null], TRUE))
  /\ Answer(u, "form")
  /\ UNCHANGED stored

(* edit() *)
OpenEdit(u) ==
  /\ stored # NoRow
  /\ Show(u, "edit", stored.type,
          Rendered(stored.type, stored.columns, TRUE))
  /\ Answer(u, "form")
  /\ UNCHANGED stored

OpenGone(u) ==
  /\ stored = NoRow
  /\ form' = [form EXCEPT ![u] = NoForm]
  /\ Answer(u, "not_found")
  /\ UNCHANGED stored

(***************************************************************************)
(* From texts to values                                                    *)
(***************************************************************************)
OrEmpty(v) == IF v = Null THEN "" ELSE v

(* Not empty, but nothing else than blanks. *)
Blank(v) == v \notin {Null, ""} /\ Strip(v) = ""

(* int(x) does not raise. *)
IsInteger(x) == x \in DOMAIN Canonical

(* BUG VARIANT of HasFields: blanks are a value. *)
HasFieldsUnstripped(t, fields) ==
  \A f \in Required(t) : OrEmpty(fields[f]) # ""

HasFields(t, fields) == \A f \in Required(t) : Strip(OrEmpty(fields[f])) # ""

(* BUG VARIANT of NumbersParse: only required numbers are looked at. *)
NumbersParseIfRequired(t, fields) ==
  \A f \in IntFields \cap Required(t) : IsInteger(Strip(OrEmpty(fields[f])))

(* What the chart's copy does not look at. *)
NumbersParse(t, fields) ==
  \A f \in IntFields :
    Strip(OrEmpty(fields[f])) = "" \/ IsInteger(Strip(OrEmpty(fields[f])))

(* _validate(): the form has no error. *)
Validated(t, fields) ==
  HasFields(t, fields) /\ (release = "chart" \/ NumbersParse(t, fields))

(* int() raises, and the chart's copy takes that for nothing. *)
Unparsed == IF release = "chart" THEN Null ELSE Raised

(* BUG VARIANT of Coerce: a number stays the text it was. *)
CoerceToText(f, raw) ==
  IF raw \in {Null, ""} THEN Null
  ELSE IF f \notin IntFields THEN Strip(raw)
  ELSE IF IsInteger(raw) THEN raw ELSE Unparsed

(* _coerce(): it does not strip a number; int() does, but for blanks alone. *)
Coerce(f, raw) ==
  IF raw \in {Null, ""} THEN Null
  ELSE IF f \notin IntFields THEN Strip(raw)
  ELSE IF IsInteger(raw) THEN Canonical[raw] ELSE Unparsed

(* BUG VARIANT of Coerced: ALL_FIELDS lacks a column. *)
CoercedButRealm(fields) ==
  [f \in Fields |-> IF f = "realm_path" THEN Null ELSE Coerce(f, fields[f])]

(* _form_to_row() *)
Coerced(fields) == [f \in Fields |-> Coerce(f, fields[f])]

(* _insert() names only the columns that have a value; the others get what *)
(* the schema says.                                                        *)
Inserted(columns) ==
  [f \in Fields |-> IF f = "timeout_seconds" /\ columns[f] = Null
                    THEN "30" ELSE columns[f]]

(* The columns a form that is created, or saved, gives the row. *)
Written(mode, g) ==
  IF mode = "new" THEN Inserted(Coerced(g)) ELSE Coerced(g)

(* What the schema refuses. *)
NotNullFails(columns) == columns["system_group"] = Null

(***************************************************************************)
(* The handlers that write                                                 *)
(***************************************************************************)

(* What u may put into the field f. *)
Choice(u, f) ==
  {form[u].fields[f]} \cup
    (IF f \in Shown(form[u].type) THEN Entries[form[u].type][f] ELSE {})

(* What u may send: any text in the fields shown, the hidden as rendered.  *)
Sendable(u) ==
  [system_group     : Choice(u, "system_group"),
   url              : Choice(u, "url"),
   db_host          : Choice(u, "db_host"),
   db_port          : Choice(u, "db_port"),
   timeout_seconds  : Choice(u, "timeout_seconds"),
   blackbox_module  : Choice(u, "blackbox_module"),
   realm_path       : Choice(u, "realm_path"),
   version_strategy : Choice(u, "version_strategy")]

(* The form is shown again; its is_enable is a text now, which is true.    *)
Refused(u, g, how) ==
  /\ Show(u, form[u].mode, form[u].type, Rendered(form[u].type, g, FALSE))
  /\ Answer(u, how)
  /\ UNCHANGED stored

Done(u, how) ==
  /\ form' = [form EXCEPT ![u] = NoForm]
  /\ Answer(u, how)

(* int() raises, or the statement: a column does not take its value. *)
Fails(g) ==
  \E f \in Fields : LET v == Coerced(g)[f]
                   IN  v = Raised \/ (v # Null /\ ~Fits(f, v))

Sends(u, mode, g) == form[u].mode = mode /\ g \in Sendable(u)

(* A missing field, or a number that is none: the form again, with what    *)
(* was sent.                                                               *)
PostInvalid(u, g) ==
  /\ ~Validated(form[u].type, g)
  /\ Refused(u, g, "rejected")

(* ValueError and DataError: neither handler catches them. *)
PostFails(u, g) ==
  /\ Validated(form[u].type, g)
  /\ Fails(g)
  /\ Done(u, "error")
  /\ UNCHANGED stored

Acceptable(u, g) == Validated(form[u].type, g) /\ ~Fails(g)

(* create() takes the IntegrityError of a column that is NULL for that of  *)
(* a system_id that exists.                                                *)
CreateConflicts(u, g) ==
  /\ Sends(u, "new", g) /\ Acceptable(u, g)
  /\ (stored # NoRow \/ NotNullFails(Written("new", g)))
  /\ Refused(u, g, "conflict")

Create(u, g) ==
  /\ Sends(u, "new", g) /\ Acceptable(u, g)
  /\ stored = NoRow /\ ~NotNullFails(Written("new", g))
  /\ stored' = [type |-> form[u].type, is_enable |-> TRUE,
                columns |-> Written("new", g)]
  /\ Done(u, "saved")

(* The form's is_enable is none of ALL_FIELDS: the column stays as it is. *)
Update(u, g) ==
  /\ Sends(u, "edit", g) /\ Acceptable(u, g)
  /\ ~NotNullFails(Written("edit", g))
  /\ stored' = [type |-> form[u].type, is_enable |-> stored.is_enable,
                columns |-> Written("edit", g)]
  /\ Done(u, "saved")

(* An UPDATE of no row is a success. *)
UpdateGone(u, g) ==
  /\ Sends(u, "gone", g) /\ Acceptable(u, g)
  /\ Done(u, "saved")
  /\ UNCHANGED stored

(* update() does not expect an IntegrityError. *)
UpdateFails(u, g) ==
  /\ Sends(u, "edit", g) /\ Acceptable(u, g)
  /\ NotNullFails(Written("edit", g))
  /\ Done(u, "error")
  /\ UNCHANGED stored

Post(u) ==
  /\ form[u] # NoForm
  /\ \E g \in Sendable(u) :
       \/ PostInvalid(u, g) \/ PostFails(u, g)
       \/ CreateConflicts(u, g) \/ Create(u, g)
       \/ Update(u, g) \/ UpdateGone(u, g) \/ UpdateFails(u, g)

(* enable(), disable() and delete() in the list; the system may be gone. *)
SetEnabled(on) ==
  /\ stored # NoRow
  /\ stored' = [stored EXCEPT !.is_enable = on]
  /\ UNCHANGED <<form, reply>>

Delete ==
  /\ stored' = NoRow
  /\ form' = [u \in Users |-> IF form[u].mode = "edit"
                              THEN [form[u] EXCEPT !.mode = "gone"] ELSE form[u]]
  /\ UNCHANGED reply

FormNext ==
  /\ UNCHANGED release
  /\ \/ \E u \in Users :
          \/ \E t \in Types : OpenNew(u, t)
          \/ OpenEdit(u)
          \/ OpenGone(u)
          \/ Post(u)
     \/ \E on \in BOOLEAN : SetEnabled(on)
     \/ Delete

FormSpec == FormInit /\ [][FormNext]_formVars

-----------------------------------------------------------------------------
(***************************************************************************)
(* From the row to what is checked                                         *)
(***************************************************************************)
Falsy(f, v) == v \in {Null, ""} \/ (f \in IntFields /\ v = Zero)

(* row.get(f) or default *)
Get(r, f, default) ==
  IF Falsy(f, r.columns[f]) THEN default ELSE r.columns[f]

(* BUG VARIANT of DefaultRealm: that of newer Keycloaks. *)
NewerRealm == "/realms/master"

DefaultRealm == "/auth/realms/master"

NoTarget == <<>>

(* _shape_target() and the mappers: the address, what to do there, and for *)
(* how long to wait (Prometheus has a timeout of its own).                 *)
Address(r) ==
  IF r.type \in HostPortTypes
  THEN <<Get(r, "db_host", ""), Get(r, "db_port", "")>>
  ELSE <<Get(r, "url", "")>>

How(r) ==
  CASE r.type \in ModuleTypes \cup {"TCP"} ->
         Get(r, "blackbox_module", DefaultModule(r.type))
    [] r.type = "KEYCLOAK" -> Get(r, "realm_path", DefaultRealm)
    [] r.type = "VERSION"  -> Get(r, "version_strategy", "spring_actuator")
    [] OTHER               -> ""

ProbedHere == HostPortTypes \cup UrlOnlyTypes \cup {"KEYCLOAK", "VERSION"}

Patience(r) ==
  IF r.type \in ProbedHere THEN Get(r, "timeout_seconds", "30") ELSE ""

TargetOf(r) ==
  IF \E i \in DOMAIN Address(r) : Address(r)[i] = "" THEN NoTarget
  ELSE <<Address(r), How(r), Patience(r)>>

-----------------------------------------------------------------------------
(***************************************************************************)
(* Properties                                                              *)
(***************************************************************************)
FormTypeOK ==
  /\ release \in {"exporter", "chart"}
  /\ stored \in Row \cup {NoRow}
  /\ form \in [Users -> Form \cup {NoForm}]
  /\ \A u \in Users : form[u].mode = "edit" => stored.type = form[u].type
  /\ reply \in [Users -> {"none", "form", "not_found", "rejected", "conflict",
                          "error", "saved"}]

(* An open form has a value in every field it sends.                       *)
FormsAreFilled ==
  \A u \in Users : form[u] # NoForm =>
    \A f \in Sent(form[u].type) : form[u].fields[f] # Null

(* What was stored had passed _validate(), and what is no number was       *)
(* stripped of its blanks.                                                 *)
Sound(r) ==
  /\ \A f \in Fields \ IntFields :
       r.columns[f] # Null => Strip(r.columns[f]) = r.columns[f]
  /\ r.type # "SSL" => r.columns["system_group"] # ""
  /\ r.type \notin HostPortTypes => r.columns["url"] \notin {Null, ""}
  /\ r.type \in HostPortTypes =>
       /\ r.columns["db_host"] \notin {Null, ""}
       /\ r.columns["db_port"] # Null \/ release = "chart"

(* The inductive invariant.  A row and an open form, however long ago it   *)
(* was rendered, are of one type, with values that this type's form can    *)
(* have given them: saving that form on that row keeps it so.              *)
FormIInv == FormTypeOK /\ FormsAreFilled /\ (stored # NoRow => Sound(stored))

(* A system that the admin UI has accepted is checked: the loaders and     *)
(* mappers find everything they need in its row.  A port 0 is the          *)
(* exception: the form takes it, _shape_target() takes it for none.  The   *)
(* chart's copy also takes what is no number for no port.                  *)
AcceptedIsChecked ==
  stored # NoRow =>
    \/ TargetOf(stored) # NoTarget
    \/ /\ stored.type \in HostPortTypes
       /\ stored.columns["db_port"] \in
            {Zero} \cup (IF release = "chart" THEN {Null} ELSE {})

(* Opening the form of a system and saving it as it is changes nothing in  *)
(* what is checked, where and how - though it writes every column, those   *)
(* that were NULL, and those the form does not have - and leaves a url     *)
(* that mirrors host and port.  runbook.md:179, exporter.py:963-966.       *)
Reopened == Rendered(stored.type, stored.columns, TRUE)

OpenAndSaveIsHarmless ==
  stored # NoRow /\ TargetOf(stored) # NoTarget =>
    LET saved == [stored EXCEPT !.columns = Coerced(Reopened)]
    IN  /\ Validated(stored.type, Reopened) /\ ~Fails(Reopened)
        /\ TargetOf(saved) = TargetOf(stored)
        /\ stored.type \in HostPortTypes =>
             saved.columns["url"] =
               Mirror(stored.columns["db_host"], stored.columns["db_port"])

(* What a user has saved is what the form shows when it is opened again,   *)
(* without the blanks around it and, in a number, the zeros in front:      *)
(* except for a number 0, for what is no number, and for what was left     *)
(* empty or blank.  _coerce(), and the "or" of the templates.              *)
Kind(f, x) == IF f \in IntFields THEN Canonical[x] ELSE Strip(x)

SavedFormIsShownAgain ==
  \A u \in Users : form[u] # NoForm =>
    \A g \in Sendable(u) : Acceptable(u, g) =>
      LET again == Rendered(form[u].type, Written(form[u].mode, g), TRUE)
      IN  \A f \in Shown(form[u].type) :
            /\ Strip(g[f]) # ""
            /\ f \in IntFields => IsInteger(g[f]) /\ Canonical[g[f]] # Zero
            => again[f] = Kind(f, g[f])

(* A form that passes validation is stored, or refused because the system  *)
(* exists, unless a number is blank, a column does not take what is meant  *)
(* for it - a text past its VARCHAR, a number past its INT - or a          *)
(* certificate has no group.  _validate() against what _form_to_row() and  *)
(* the statement of _insert() or _update() raise.                          *)
Readable(f, x) == f \in IntFields => IsInteger(x)

FailuresAreKnown ==
  \A u \in Users : form[u] # NoForm =>
    \A g \in Sendable(u) : Validated(form[u].type, g) =>
      \/ \E f \in Fields : /\ g[f] \notin {Null, ""} /\ Readable(f, g[f])
                           /\ ~Fits(f, Kind(f, g[f]))
      \/ release = "exporter" /\ \E f \in IntFields : Blank(g[f])
      \/ /\ form[u].type = "SSL"
         /\ g["system_group"] = ""
      \/ /\ ~Fails(g)
         /\ ~NotNullFails(Written(form[u].mode, g))
=============================================================================
