-------------------------- MODULE SecurityOutcomes --------------------------
(* Outcomes of the security rules: a presence answer, the checks of the    *)
(* trace and the Choices that settle a check or confirm a finding.  The    *)
(* options of such a Choice that clear what it is asked about are the one  *)
(* option "fine".                                                          *)
EXTENDS Outcomes

Injected  == "injection"
Sensitive == "sensitive"
Settings  == "settings"
Security == {Injected, Sensitive, Settings}

Presence == [r \in Security |-> CASE r = Injected -> {"interpreted", "resource"}
                                  [] r = Sensitive -> {"logs_secret", "error_details"}
                                  [] r = Settings  -> {"weakened"}]
Checks == [r \in Security |->
  CASE r = Injected -> {"sql", "shell", "code", "markup", "path", "url", "redirect",
                         "type", "deserialize", "upload", "xxe"}
    [] r = Sensitive -> {"logs_object_secret", "exception_to_client", "environment_to_client"}
    [] r = Settings  -> {"tls", "hash", "random", "cors", "cookie", "public_secret", "escape",
                         "debug", "token", "key", "csrf", "literal_secret"}]

Settle(rule, question, checks, when) ==
  [rule |-> rule, question |-> question, checks |-> checks, when |-> when]
Settles ==
  {Settle(Injected, "url_parts", {"url"}, "not_clear"),
   Settle(Injected, "runs_in", {"url"}, "undecided_or_finding"),
   Settle(Injected, "redirect_target", {"redirect"}, "undecided"),
   Settle(Injected, "markup_output", {"markup"}, "undecided"),
   Settle(Injected, "markup_parts", {"markup"}, "not_clear"),
   Settle(Injected, "shell_parts", {"shell"}, "not_clear"),
   Settle(Injected, "path_parts", {"path"}, "not_clear"),
   Settle(Injected, "path_source", {"path"}, "undecided"),
   Settle(Sensitive, "destination", {"error_details", "exception_to_client"}, "not_clear"),
   Settle(Sensitive, "logged", {"logs_object_secret", "logs_secret"}, "not_clear"),
   Settle(Settings, "cors_origins", {"cors"}, "undecided"),
   Settle(Settings, "cookie_flags", {"cookie"}, "undecided"),
   Settle(Settings, "token_use", {"token"}, "not_clear"),
   Settle(Settings, "password_handling", {"hash"}, "not_clear")}

\* A settle Choice clears an undecided check, or one that found a concern
\* when the Choice is asked whenever its checks are not clear.
SettledBy(rule, g, c, found) ==
  \E s \in Settles : /\ s.rule = rule /\ c \in s.checks
                     /\ found => s.when = "not_clear"
                     /\ Holds(g, s.question, {"fine"}, At)
\* Mutant: a settle Choice leaning elsewhere finds what its check leaves open.
SettledEitherWay(rule, g, c) ==
  LET o == Noul(g[c])
      asked == {s \in Settles : s.rule = rule /\ c \in s.checks /\ s.question \in DOMAIN g}
  IN IF SettledBy(rule, g, c, o.level = "review") THEN Clear
     ELSE IF o.level = "uncertain" /\ asked # {} THEN Outcome("review", o.p) ELSE o
SettledCheck(rule, g, c) ==
  LET o == Noul(g[c])
  IN IF \/ o.level = "uncertain" /\ SettledBy(rule, g, c, FALSE)
        \/ o.level = "review" /\ SettledBy(rule, g, c, TRUE)
     THEN Clear ELSE o
SettledChecks(rule, g) == [c \in Checks[rule] \cap DOMAIN g |-> SettledCheck(rule, g, c)]
\* Of such outcomes of a unit's checks:
Found(checks)    == {c \in DOMAIN checks : checks[c].level = "review"}
AllClear(checks) == \A c \in DOMAIN checks : checks[c] = Clear

\* The Choice that confirms a finding resting on one kind of injection.
Confirm == [path |-> "paths", markup |-> "markup_values", redirect |-> "redirect_reach",
            sql |-> "query_values", shell |-> "query_values", code |-> "query_values"]
Queried == {"sql", "shell", "code"}
Confirmable(checks) == {k \in DOMAIN Confirm : Found(checks) = {k}}
Harmless(g, checks) == \E k \in Confirmable(checks) : Holds(g, Confirm[k], {"fine"}, Leads)
ProgramValues(g) == Holds(g, "values", {"fine"}, Leads)
OutsideMarkup(g, checks) ==
  "markup" \in Found(checks) /\ Holds(g, "markup_parts", {"outside"}, At)

Resources == {"path", "url", "redirect"}
\* The Choice over where a resource check's values come from was asked, and
\* leaned away from another party's.
SettleAsked(g, c) ==
  LET q == CASE c = "path" -> IF "path_parts" \in DOMAIN g THEN "path_parts" ELSE "path_source"
             [] c = "url" -> "url_parts" [] c = "redirect" -> "redirect_target"
  IN q \in DOMAIN g /\ ~Leads(Share(g[q], {"outside"}))

ByOrigin(o, g, checks) ==
  LET found   == Found(checks)
      open    == {c \in DOMAIN checks : checks[c] # Clear}
      leaning == Max({0} \cup {g[c] : c \in open})
  IN IF found = {} /\ o.level = "review" THEN AtMostNote(o)
     ELSE IF found = {} /\ o.level = "consider"
     THEN IF \/ Leads(leaning)
             \/ open # {} /\ \A c \in open : c \in Resources /\ SettleAsked(g, c)
          THEN Outcome("note", Max({leaning, o.p})) ELSE Outcome("uncertain", o.p)
     ELSE IF o.level = "consider" /\ found \subseteq Resources THEN Lowered(o) ELSE o

\* Presence never raises an injection; a check that found a variable placed
\* unhandled does, by where its values come from.
OriginOf(g, checks) ==
  IF Origin(g["origin"]).level # "review" /\ OutsideMarkup(g, checks)
  THEN Outcome("review", Share(g["markup_parts"], {"outside"})) ELSE Origin(g["origin"])
Confirmed(o, g, checks) ==
  IF \/ o.level = "consider" /\ ProgramValues(g)
     \/ Raised(o) /\ Harmless(g, checks)
  THEN AtMostNote(o) ELSE o
TracedOutcome(g, checks) ==
  IF AllClear(checks) THEN Clear
  ELSE Confirmed(ByOrigin(OriginOf(g, checks), g, checks), g, checks)
InjectionOutcome(g) ==
  LET presence == {Noul(g[q]) : q \in Presence[Injected]}
  IN IF ~(Presence[Injected] \subseteq DOMAIN g) THEN Missing
     ELSE IF presence = {Clear} THEN Clear
     ELSE IF "origin" \notin DOMAIN g \/ Checks[Injected] \cap DOMAIN g = {}
     THEN Outcome("uncertain", Max({x.p : x \in presence}))
     ELSE TracedOutcome(g, SettledChecks(Injected, g))
-----------------------------------------------------------------------------
(* Sensitive data and unsafe settings. *)

ErrorSignals == {"error_details", "exception_to_client"}
LogSignals   == {"logs_secret", "logs_object_secret"}
FoundAmong(g, questions) == \E q \in questions : Says(g, q, "review")

\* Whether a function's error messages are the program's own text.
OwnMessages(g) ==
  IF "messages" \in DOMAIN g THEN Holds(g, "messages", {"none"}, At)
                             ELSE Says(g, "own_messages", "review")
\* An operator turned the log line on, or it shows what a person asked for.
NotedLog(g) == \/ Holds(g, "logged_when", {"opt_in"}, At)
               \/ Holds(g, "logged_when", {"shown"}, Leads)
Inert(g)          == Holds(g, "raw_html", {"fine"}, Leads)
PrivateReaders(g) == Holds(g, "error_readers", {"fine"}, At)

\* A signal is an outcome and how far its answer leans to the concern.
Signal(o, lean) == [o |-> o, lean |-> lean]
ClearSignal == Signal(Clear, 0)
Judge(rule, g, q) ==
  LET o     == Noul(g[q])
      error == rule = Sensitive /\ q \in ErrorSignals
  IN IF error /\ OwnMessages(g) THEN ClearSignal
     ELSE IF error /\ o.level = "uncertain" /\ SettledBy(Sensitive, g, "error_details", FALSE)
     THEN ClearSignal
     ELSE IF Raised(o) /\ rule = Settings /\ q = "escape" /\ Inert(g)
     THEN Signal(AtMostNote(o), 0)
     ELSE IF Raised(o) /\ \/ rule = Sensitive /\ q \in LogSignals /\ NotedLog(g)
                          \/ error /\ PrivateReaders(g)
     THEN Signal(AtMostNote(o), g[q]) ELSE Signal(o, g[q])

PresenceSignal(s, rule, g, q) ==
  IF s.o # Clear /\ SettledBy(rule, g, q, TRUE) THEN ClearSignal ELSE s
CheckSignal(s, rule, g, c) ==
  IF \/ s.o.level = "uncertain" /\ SettledBy(rule, g, c, FALSE)
     \/ Raised(s.o) /\ SettledBy(rule, g, c, TRUE)
  THEN ClearSignal ELSE s

ExposureLevel(rule, presence, specific) ==
  LET signals  == presence \cup specific
      found    == {s.o : s \in {x \in signals : Raised(x.o)}}
      noted    == {s.o.p : s \in {x \in signals : x.o.level = "note"}}
      leaning  == Max({0} \cup {s.lean : s \in {x \in signals : x.o.level = "uncertain"}})
      clear(t) == \A s \in t : s.o = Clear
      unnamed  == /\ rule = Settings /\ specific # {}
                  /\ \A s \in specific : ~Leads(s.lean) /\ ~Raised(s.o)
  IN IF found # {} THEN IF unnamed THEN AtMostNote(Strongest(found)) ELSE Strongest(found)
     ELSE IF noted # {} THEN Outcome("note", Max(noted))
     ELSE IF clear(presence) \/ (specific # {} /\ clear(specific)) THEN Clear
     ELSE Outcome(IF Leads(leaning) THEN "note" ELSE "uncertain", leaning)

InDevelopment(o, g) == IF Says(g, "dev_only", "review") THEN Lowered(o) ELSE o
ExposureOutcome(rule, g) ==
  IF ~(Presence[rule] \subseteq DOMAIN g) THEN Missing
  ELSE InDevelopment(
         ExposureLevel(rule,
           {PresenceSignal(Judge(rule, g, q), rule, g, q) : q \in Presence[rule]},
           {CheckSignal(Judge(rule, g, c), rule, g, c) : c \in Checks[rule] \cap DOMAIN g}), g)

\* Django's settings: presence alone names nothing to change.
DjangoOutcome(o, g) == IF FoundAmong(g, Checks[Settings]) THEN o ELSE AtMostNote(o)
SettingsModuleOutcome(o, g) == InDevelopment(DjangoOutcome(o, g), g)
SettingsOutcome(is, o, g) ==
  IF "settings_module" \in is THEN SettingsModuleOutcome(o, g)
  ELSE IF "django" \in is THEN DjangoOutcome(o, g) ELSE o
=============================================================================
