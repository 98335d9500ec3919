---------------------------- MODULE AccountSettings ----------------------------
(***************************************************************************)
(* The settings page of a user who is signed in.  Password, name, e-mail   *)
(* and links go through the provider, whose loading flag unmounts the page *)
(* for the time of the request; the Steam sharecode has a hook of its own, *)
(* one flag for saving, removing, toggling and checking.  No request is    *)
(* called back: what a page that is gone asked for, the server still does. *)
(***************************************************************************)
EXTENDS Fetching

VARIABLES user,     \* the provider's: the account as it was told last
          waiting,     \* the provider's loading
          panel,    \* the section chosen, and what is said in each
          fields,   \* the form of the sharecode, and whether processing is shown as enabled
          hook,     \* useSteamSharecode: setup, loading, error; overlap: whether its
                    \* last request began before another ended, of its own or of a
                    \* page that is gone (nothing reads it)
          account   \* the server's
settingsExtras == <<user, waiting, panel, fields, hook, account>>
settingsVars == <<fetchVars, settingsExtras>>

LinkSections == {"steam", "discord"}
TextSections == {"password", "username", "email"}
Sections == TextSections \cup LinkSections \cup {"sharecode"}
\* bound: names and addresses are counted modulo 2
Renamed(a, section) == IF section = "password" THEN a ELSE [a EXCEPT !.version = 1 - @]
Linked(a, section) == [a EXCEPT !.linked = @ \cup {section}]
Unlinked(a, section) == [a EXCEPT !.linked = @ \ {section}]
SetUp(a) == [a EXCEPT !.setup = TRUE]
WithoutSetup(a) == [a EXCEPT !.setup = FALSE, !.enabled = FALSE]
WithToggle(a) == [a EXCEPT !.enabled = ~@]
\* What a request may have made of the account, when nobody knows whether it was
\* done.
MayBe(a, c) ==
    {a} \cup CASE c.key.does = "text" -> {Renamed(a, c.key.section)}
               [] c.key.does = "unlink" -> {Unlinked(a, c.key.section)}
               [] c.key.does = "save" -> {SetUp(a)}
               [] c.key.does = "remove" -> {WithoutSetup(a)}
               [] c.key.does = "toggle" /\ a.setup -> {WithToggle(a)}
               [] OTHER -> {}

FirstForm == [section |-> "password", said |-> [s \in Sections |-> "nothing"]]
FirstHook == [setup |-> FALSE, loading |-> FALSE, error |-> FALSE, overlap |-> FALSE]
\* The text of a field: empty, something, or undefined.
FieldsOf(u) == [sharecode |-> IF u.setup THEN "text" ELSE "", code |-> IF u.setup THEN "text" ELSE "",
                enabled |-> u.enabled]
Say(section, what) == panel' = [panel EXCEPT !.said[section] = what]

\* Those requests that may tell, or change, the setup while another is under way.
Overlaps(c) == c.slot = "setup" \/ (c.slot = "left" /\ c.key.does \in {"save", "remove"})
Busy(h, others) == [setup |-> h.setup, loading |-> TRUE, error |-> FALSE,
                    overlap |-> \E c \in others : Overlaps(c)]
Ended(setup, error) == [setup |-> setup, loading |-> FALSE, error |-> error, overlap |-> hook.overlap]
Check(n) == [slot |-> "setup", key |-> [does |-> "check", was |-> account], n |-> n]
\* The effect on the user: the form shows him, and the hook checks.
Synced(u, h, others, n) ==
    /\ user' = u /\ fields' = FieldsOf(u) /\ hook' = Busy(h, others)
    /\ calls' = others \cup {Check(n)} /\ asked' = n /\ sent' = [sent EXCEPT !["setup"] = n]
\* The page mounted with user u.
Enter(u, others) == /\ panel' = FirstForm /\ Synced(u, FirstHook, others, asked + 1)
\* A page that goes leaves the changes it has asked for, whose answers nobody
\* hears; the provider stays unless the application is loaded anew.
Changes == {"text", "unlink", "save", "remove", "toggle"}
Left(cs) == {[slot |-> "left", key |-> c.key, n |-> c.n] :
               c \in {d \in cs : d.slot # "user" /\ d.key.does \in Changes}}
Kept(cs) == {c \in cs : c.slot = "user"} \cup Left(cs)

SettingsInit ==
    /\ page = "settings"
    /\ \E setup, late \in BOOLEAN :
         /\ account = [version |-> 0, linked |-> {"steam"}, setup |-> setup, enabled |-> FALSE]
         /\ calls = {Check(1)} \cup
              (IF late THEN {[slot |-> "user", key |-> [ends |-> FALSE, was |-> account], n |-> 1]} ELSE {})
    /\ user = account /\ waiting = FALSE /\ panel = FirstForm
    /\ fields = FieldsOf(account) /\ hook = Busy(FirstHook, {})
    /\ view = <<>> /\ asked = 1 /\ sent = [setup |-> 1] /\ landed = [setup |-> 0]

\* The submit button of the sharecode section looks at both fields: rendering it
\* fails on one that is undefined.
FormBroken == /\ ~waiting /\ panel.section = "sharecode" /\ ~hook.loading
              /\ fields.sharecode # "" /\ fields.code = "undefined"
Usable == page = "settings" /\ ~waiting /\ ~FormBroken
OnPage == UNCHANGED <<page, view, landed>>
NoCall == UNCHANGED <<calls, asked, sent>>

ChooseSection(s) == /\ Usable /\ panel' = [panel EXCEPT !.section = s]
                    /\ NoCall /\ OnPage /\ UNCHANGED <<user, waiting, fields, hook, account>>
\* To another page and back.
LeaveAndReturn == /\ Usable /\ MayAsk /\ Enter(user, Kept(calls))
                  /\ OnPage /\ UNCHANGED <<waiting, account>>
\* The application loaded anew, once the user is known.
LoadSettings == /\ page = "settings" /\ MayAsk /\ Enter(account, Left(calls)) /\ waiting' = FALSE
                /\ OnPage /\ UNCHANGED account

-----------------------------------------------------------------------------
(* Password, name, e-mail and links: requests of the provider.             *)

\* The page is unmounted for the time of the request, and says nothing after.
StartOp(does, section) ==
    /\ MayAsk /\ waiting' = TRUE /\ asked' = asked + 1
    /\ calls' = Kept(calls) \cup {[slot |-> "op", key |-> [does |-> does, section |-> section], n |-> asked + 1]}
    /\ UNCHANGED <<sent, user, panel, fields, hook, account>> /\ OnPage
\* Passwords that differ or are short, a name that is empty or the old one, an
\* address that is none are not sent.
SubmitText(section, acceptable) ==
    /\ Usable /\ panel.section = section
    /\ IF acceptable THEN StartOp("text", section)
       ELSE /\ \A t \in TextSections \ {section} : panel.said[t] = "nothing"  \* bound: one such error
            /\ Say(section, "error") /\ NoCall /\ OnPage /\ UNCHANGED <<user, waiting, fields, hook, account>>
HandleLink(section) ==
    /\ Usable /\ panel.section = section
    /\ StartOp(IF section \in user.linked THEN "unlink" ELSE "link", section)

Finish(c, u) == waiting' = FALSE /\ Enter(u, Kept(calls \ {c}))
\* A new name or address comes with the user; after unlinking he is asked for;
\* linking goes to Steam or Discord and comes back with the application loaded anew.
OpGot(c) ==
    \/ /\ c.key.does = "text" /\ account' = Renamed(account, c.key.section)
       /\ Finish(c, IF c.key.section = "password" THEN user ELSE account') /\ OnPage
    \/ /\ c.key.does = "unlink" /\ c.key.section \in account.linked
       /\ account' = Unlinked(account, c.key.section)
       /\ calls' = Kept(calls \ {c}) \cup {[slot |-> "user", key |-> [ends |-> TRUE, was |-> account'], n |-> asked + 1]}
       /\ asked' = asked + 1 /\ UNCHANGED <<sent, user, waiting, panel, fields, hook>> /\ OnPage
    \/ /\ c.key.does = "link" /\ c.key.section \notin account.linked
       /\ account' \in {account, Linked(account, c.key.section)}
       /\ waiting' = FALSE /\ panel' = FirstForm /\ Synced(account', FirstHook, Left(calls \ {c}), asked + 1) /\ OnPage
\* The error is thrown on to a page that is not mounted any more; the change may
\* have been made.
OpFailed(c) == /\ Finish(c, user) /\ OnPage
               /\ account' \in MayBe(account, c)

\* fetchUser, after the sign in or at the end of unlinking; a failure signs out,
\* and the next sign in begins with the account as it is.
UserFetched(c) == \E u \in {c.key.was, account} :
    /\ IF c.key.ends THEN waiting' = FALSE /\ panel' = FirstForm /\ Synced(u, FirstHook, Kept(calls \ {c}), asked + 1)
       ELSE IF waiting THEN user' = u /\ calls' = calls \ {c} /\ UNCHANGED <<asked, sent, waiting, panel, fields, hook>>
       ELSE Synced(u, hook, calls \ {c}, asked + 1) /\ UNCHANGED <<waiting, panel>>
    /\ UNCHANGED account /\ OnPage
UserNotFetched(c) == /\ waiting' = FALSE /\ Enter(account, Left(calls)) /\ UNCHANGED account /\ OnPage

-----------------------------------------------------------------------------
(* The sharecode.                                                          *)

HookAsk(does) == /\ calls' = calls \cup {[slot |-> "setup", key |-> [does |-> does, was |-> account], n |-> asked + 1]}
                 /\ asked' = asked + 1 /\ sent' = [sent EXCEPT !["setup"] = asked + 1]
                 /\ hook' = Busy(hook, calls) /\ Say("sharecode", "nothing") /\ OnPage
                 /\ UNCHANGED <<user, waiting, fields, account>>
MayEdit == Usable /\ panel.section = "sharecode" /\ ~hook.loading
TypeField(f) == /\ MayEdit /\ fields' = [fields EXCEPT ![f] = "text"]
                /\ NoCall /\ OnPage /\ UNCHANGED <<user, waiting, panel, hook, account>>
SaveSharecode(wellFormed) ==
    /\ MayEdit /\ MayAsk /\ fields.sharecode = "text" /\ fields.code = "text"
    /\ IF wellFormed THEN HookAsk("save")
       ELSE Say("sharecode", "error") /\ NoCall /\ OnPage /\ UNCHANGED <<user, waiting, fields, hook, account>>
RemoveSharecode == MayEdit /\ MayAsk /\ hook.setup /\ HookAsk("remove")
ToggleProcessing == MayEdit /\ MayAsk /\ hook.setup /\ HookAsk("toggle")

Answer(c) == /\ calls' = calls \ {c} /\ landed' = [landed EXCEPT !["setup"] = c.n]
             /\ UNCHANGED <<page, view, asked, sent, user, waiting>>
SetupChecked(c) == \E a \in {c.key.was, account} :
    /\ c.key.does = "check" /\ Answer(c)
    /\ hook' = Ended(a.setup, hook.error)
    /\ UNCHANGED <<panel, fields, account>>
Saved(c) == /\ c.key.does = "save" /\ Answer(c) /\ account' = SetUp(account)
            /\ hook' = Ended(TRUE, hook.error)
            /\ Say("sharecode", "success") /\ UNCHANGED fields
\* A wrong SharecodeRemoved: the hook still has a setup.
SharecodeRemovedUnseen(c) ==
    /\ c.key.does = "remove" /\ account.setup /\ Answer(c) /\ account' = WithoutSetup(account)
    /\ hook' = Ended(hook.setup, hook.error)
    /\ fields' = [fields EXCEPT !.sharecode = "", !.code = "undefined"]
    /\ Say("sharecode", "success")
\* The form is set to an empty sharecode, without a code.
SharecodeRemoved(c) ==
    /\ c.key.does = "remove" /\ account.setup /\ Answer(c) /\ account' = WithoutSetup(account)
    /\ hook' = Ended(FALSE, hook.error)
    /\ fields' = [fields EXCEPT !.sharecode = "", !.code = "undefined"]
    /\ Say("sharecode", "success")
ProcessingToggled(c) ==
    /\ c.key.does = "toggle" /\ account.setup /\ Answer(c) /\ account' = WithToggle(account)
    /\ hook' = Ended(hook.setup, hook.error)
    /\ fields' = [fields EXCEPT !.enabled = account'.enabled] /\ Say("sharecode", "success")
\* No answer in time, or a refusal: the server may have done it.
SetupFailed(c) == /\ Answer(c) /\ hook' = Ended(hook.setup, TRUE)
                  /\ account' \in MayBe(account, c)
                  /\ IF c.key.does = "check" THEN UNCHANGED panel ELSE Say("sharecode", "error")
                  /\ UNCHANGED fields

\* What was left is done, or not, whatever page there is by then.
LeftDone(c) == /\ account' \in MayBe(account, c) /\ calls' = calls \ {c} /\ OnPage
               /\ UNCHANGED <<asked, sent, user, waiting, panel, fields, hook>>

-----------------------------------------------------------------------------
SettingsAnswer(c) ==
    \/ c.slot = "left" /\ LeftDone(c)
    \/ c.slot = "op" /\ (OpGot(c) \/ OpFailed(c))
    \/ c.slot = "user" /\ (UserFetched(c) \/ UserNotFetched(c))
    \/ c.slot = "setup" /\ (SetupChecked(c) \/ Saved(c) \/ SharecodeRemoved(c)
                           \/ ProcessingToggled(c) \/ SetupFailed(c))
SettingsAnswers == page = "settings" /\ \E c \in calls : SettingsAnswer(c)

SettingsNext ==
    \/ \E s \in Sections : ChooseSection(s)
    \/ LeaveAndReturn
    \/ LoadSettings
    \/ \E s \in TextSections, acceptable \in BOOLEAN : SubmitText(s, acceptable)
    \/ \E s \in LinkSections : HandleLink(s)
    \/ \E f \in {"sharecode", "code"} : TypeField(f)
    \/ \E wellFormed \in BOOLEAN : SaveSharecode(wellFormed)
    \/ RemoveSharecode
    \/ ToggleProcessing
    \/ SettingsAnswers

\* Requests are answered or time out.
SettingsFairness == WF_settingsVars(SettingsAnswers)
SettingsSpec == SettingsInit /\ [][SettingsNext]_settingsVars /\ SettingsFairness
-----------------------------------------------------------------------------
(* What must be true of the settings.                                      *)

\* Once the requests about the sharecode are answered without error, the page says
\* whether there is a complete setup, and offers to remove it only then: if the last
\* began when no other was under way, neither one of the page (a user fetched late
\* makes two overlap) nor a saving or removal of a page that was left meanwhile.
SetupShownTrue == page = "settings" /\ ~waiting /\ Settled("setup") /\ ~hook.error /\ ~hook.overlap
                    => hook.setup = account.setup
\* The same, of those that overlap too.
SetupShownAlways == page = "settings" /\ ~waiting /\ Settled("setup") /\ ~hook.error => hook.setup = account.setup

\* The page comes back from whatever it asks the provider, and its buttons from
\* whatever the hook asks.
SettingsReady == []<>(~waiting /\ ~hook.loading)

\* Nothing the form holds breaks the page: a sharecode typed after one was removed
\* does (account-settings.tsx:360 and 1069).
FormNeverBreaks == ~FormBroken

\* "Check sharecode status to ensure we have the latest data"
\* (account-settings.tsx:114): also of the processing that is shown as enabled.
ProcessingShownTrue == page = "settings" /\ ~waiting /\ Settled("setup") /\ ~hook.error => fields.enabled = account.enabled

\* "Password changed successfully" (account-settings.tsx:143) is said of one that was.
PasswordChangeSaid ==
    [][\A c \in calls : c.slot = "op" /\ c.key.does = "text" /\ c.key.section = "password" /\ OpGot(c)
         => panel'.said["password"] = "success"]_settingsVars
=============================================================================
