------------------------------ MODULE LoginFlow ------------------------------
(***************************************************************************)
(* What LoginJobs calls "login": the login.run calls of runWithRetries for *)
(* one job, each a browser that is led through X's login form by form,     *)
(* while the user or a shutdown may cancel the job.                        *)
(*                                                                         *)
(* X is external: it answers what was submitted when and as it likes, with *)
(* any form, page or refusal, and a form that was submitted twice twice.   *)
(* Selectors, typing and wording are left out; so are debug artifacts.     *)
(***************************************************************************)
EXTENDS Naturals, FiniteSets

CONSTANTS
    TextReasons,   \* refusals X shows as text: "invalid_credentials", ...
    UrlReasons,    \* refusals that only the URL tells: "account_locked", ...
    ApiReasons,    \* refusals in the bodies of onboarding responses
    MaxDue,        \* bound on answers X owes at once
    MaxAsks,       \* bound on who asks the job to stop
    MaxRejects     \* bound on calls that reject

Captcha == "captcha_required"
CodeByMail == "email_verification_required"
Refusals == TextReasons \cup UrlReasons \cup ApiReasons
Forms == {"username", "challenge", "password", "totp"}

ASSUME FlowAssumption ==
    /\ MaxDue \in Nat \ {0} /\ {MaxAsks, MaxRejects} \subseteq Nat
    /\ Refusals \cap (Forms \cup {"blank", "landing", "error", "home", "none", "ok", "cancelled",
                       "unknown", "home_not_reached", "unreachable", "cookies_missing"}) = {}

VARIABLES
    flow,     \* where runWithRetries is
    site,     \* X: what the page shows, what X has not answered yet, who is logged in
    errors,   \* collectOnboardingErrors: the last body before the username step, and since
    asked,    \* who has asked the job to stop: a cancelled row, the abort signal
    browser,  \* whether this login.run has started a browser, and how many were given up
    seen      \* ghosts, see Seen

flowVars == <<flow, site, errors, asked, browser, seen>>

-----------------------------------------------------------------------------
\* A step of login.run, or what follows it.  "retry" is the reload of an error page
\* within the username step; "between" and "advance" are the looks for a captcha and a
\* challenge; "script" is addInitScript; "decide" is runWithRetries with a result.
\* Steps that begin with a call of checkCancel:
Probed == {"launch", "prelogin", "navigate", "username", "challenge", "password", "totp", "home"}
Step == Probed \cup {"script", "open", "retry", "submit", "between", "advance", "code",
                     "cookies", "verify", "close", "decide", "done"}

Page == {"blank", "landing", "error", "home", Captcha} \cup Forms \cup Refusals

\* Who the browser is logged in as: nobody, the typed handle, or another.
Session == {"none", "typed", "other"}

NoReason == "none"

\* "unreachable" is home_not_reached when it comes from the settings check, where no
\* proxy helps.
Reason == Refusals \cup {Captcha, CodeByMail, "home_not_reached", "unreachable",
                         "cookies_missing", "cancelled", "unknown"}

\* ok, and the screenName; or not, and why; or NoReason while login.run goes on.
Result == Reason \cup {NoReason, "ok"}

MaxRuns == 3      \* a login, its transient retry, its proxy fallback
MaxAttempts == 3  \* of waitForUsernameInput, and submits of submitUsernameStep
MaxPasses == 2    \* of the settings check: LOGIN_SETTINGS_AUTH_RETRY is 1

Flow == [step : Step, probed : BOOLEAN, tries : 0 .. 2, run : 1 .. MaxRuns,
         result : Result, name : Session]

\* shown: the refusals X has uttered since the username step began.  late: what X was given
\* after the job was asked to stop.  missed: a probe was rejected.  rejects, logins:
\* how many calls were rejected, and how often login.run was called.
Seen == [shown : SUBSET Refusals, late : SUBSET Forms, missed : BOOLEAN,
         rejects : 0 .. MaxRejects, logins : 1 .. MaxRuns]

FlowTypeOK ==
    /\ flow \in Flow
    /\ site \in [page : Page, due : 0 .. MaxDue, session : Session]
    /\ errors \in [before : ApiReasons \cup {NoReason}, since : ApiReasons \cup {NoReason}]
    /\ asked \subseteq {"user", "shutdown"}
    /\ browser \in [mine : BOOLEAN, lost : Nat]
    /\ seen \in Seen

NoErrors == [before |-> NoReason, since |-> NoReason]

\* The profile directory may be that of a session.
FlowInit ==
    /\ flow = [step |-> "launch", probed |-> FALSE, tries |-> 0, run |-> 1,
               result |-> NoReason, name |-> "none"]
    /\ site \in [page : {"blank"}, due : {0}, session : Session]
    /\ errors = NoErrors
    /\ asked = {}
    /\ browser = [mine |-> FALSE, lost |-> 0]
    /\ seen = [shown |-> {}, late |-> {}, missed |-> FALSE, rejects |-> 0, logins |-> 1]

-----------------------------------------------------------------------------
(* Helpers.                                                                *)

\* The body of step s: its probe, if it has one, has let it pass.
In(s) == flow.step = s /\ (s \in Probed => flow.probed)

To(s) == flow' = [flow EXCEPT !.step = s, !.probed = FALSE, !.tries = 0]

\* login.run has a result; its finally comes next.
Ends(result, name) ==
    flow' = [flow EXCEPT !.step = "close", !.probed = FALSE, !.tries = 0,
                         !.result = result, !.name = name]

Fails(reason) == Ends(reason, "none")

Reject ==
    /\ seen.rejects < MaxRejects
    /\ seen' = [seen EXCEPT !.rejects = @ + 1]

\* X owes one more answer.
Owed == IF site.due < MaxDue THEN site.due + 1 ELSE site.due

\* X is asked for its login page.
Load == site' = [site EXCEPT !.page = "blank", !.due = 1]

\* The form is typed into and submitted.
Submit(form) ==
    /\ site' = [site EXCEPT !.due = Owed]
    /\ seen' = [seen EXCEPT !.late = IF asked = {} THEN @ ELSE @ \cup {form}]

-----------------------------------------------------------------------------
(* checkCancel, before a step.                                             *)

\* Mutant of ProbeStops: a rejected query counts as a cancellation.
ProbeStopsOnReject ==
    /\ flow.step \in Probed /\ ~flow.probed
    /\ asked # {} \/ seen.rejects < MaxRejects
    /\ Fails("cancelled")
    /\ UNCHANGED <<site, errors, asked, browser, seen>>

ProbeStops ==
    /\ flow.step \in Probed /\ ~flow.probed
    /\ asked # {}
    /\ Fails("cancelled")
    /\ UNCHANGED <<site, errors, asked, browser, seen>>

\* The username step remembers when it began.
Passes ==
    /\ flow' = [flow EXCEPT !.probed = TRUE]
    /\ IF flow.step = "username" /\ flow.tries = 0
       THEN errors' = [before |-> IF errors.since = NoReason THEN errors.before ELSE errors.since,
                       since |-> NoReason]
       ELSE UNCHANGED errors
    /\ UNCHANGED <<site, asked, browser>>

ShownNow == IF flow.step = "username" /\ flow.tries = 0 THEN {site.page} \cap Refusals ELSE seen.shown

ProbePasses ==
    /\ flow.step \in Probed /\ ~flow.probed
    /\ asked = {}
    /\ Passes
    /\ seen' = [seen EXCEPT !.shown = ShownNow]

\* The query of isCancelled rejects: the login goes on.
ProbeRejects ==
    /\ flow.step \in Probed /\ ~flow.probed
    /\ "shutdown" \notin asked
    /\ seen.rejects < MaxRejects
    /\ Passes
    /\ seen' = [seen EXCEPT !.shown = ShownNow, !.missed = TRUE, !.rejects = @ + 1]

-----------------------------------------------------------------------------
(* buildLoginContext and tryPreLoginSession.                               *)

LaunchBrowser ==
    /\ In("launch")
    /\ To("script")
    /\ browser' = [browser EXCEPT !.mine = TRUE]
    /\ UNCHANGED <<site, errors, asked, seen>>

\* launchPersistentContext rejects; or addInitScript does, and login.run, which has not
\* got the context yet, cannot close it.
NoContextForRun ==
    /\ In("launch") \/ In("script")
    /\ Reject
    /\ Fails("unknown")
    /\ browser' = [mine |-> FALSE, lost |-> browser.lost + IF browser.mine THEN 1 ELSE 0]
    /\ UNCHANGED <<site, errors, asked>>

ScriptAdded ==
    /\ In("script")
    /\ To("open")
    /\ UNCHANGED <<site, errors, asked, browser, seen>>

OpenPage ==
    /\ In("open")
    /\ To("prelogin")
    /\ UNCHANGED <<site, errors, asked, browser, seen>>

\* /home is served, to the handle that was typed.
SkipLogin ==
    /\ In("prelogin")
    /\ site.session = "typed"
    /\ Ends("ok", "typed")
    /\ UNCHANGED <<site, errors, asked, browser, seen>>

\* It is not, or something rejects.
NeedLogin ==
    /\ In("prelogin")
    /\ To("navigate")
    /\ UNCHANGED <<site, errors, asked, browser, seen>>

Navigate ==
    /\ In("navigate")
    /\ Load
    /\ To("username")
    /\ UNCHANGED <<errors, asked, browser, seen>>

-----------------------------------------------------------------------------
(* The username.                                                           *)

\* Forms in which SEL.usernameInput finds a field: the test id of a challenge's is in it,
\* and the name of a code's, if its type is text.
UsernameField == {"username", "challenge", "totp"}

\* The field is there: it is filled in and submitted.
TypeUsername ==
    /\ In("username") \/ In("retry")
    /\ site.page \in UsernameField
    /\ Submit("username")
    /\ To("submit")
    /\ UNCHANGED <<errors, asked, browser>>

\* Mutant of NextAttempt: no limit.
NextAttemptForEver == flow' = [flow EXCEPT !.step = "username", !.probed = FALSE]

\* The end of an iteration of waitForUsernameInput.
NextAttempt ==
    IF flow.tries + 1 < MaxAttempts
    THEN flow' = [flow EXCEPT !.step = "username", !.probed = FALSE, !.tries = @ + 1]
    ELSE Fails("home_not_reached")

\* The landing page: its login button is clicked.
ClickLogin ==
    /\ In("username")
    /\ site.page = "landing"
    /\ site' = [site EXCEPT !.due = Owed]
    /\ NextAttempt
    /\ UNCHANGED <<errors, asked, browser, seen>>

\* The error page: its retry button is clicked.
ClickRetry ==
    /\ In("username")
    /\ site.page = "error"
    /\ site' = [site EXCEPT !.due = Owed]
    /\ flow' = [flow EXCEPT !.step = "retry", !.probed = FALSE]
    /\ UNCHANGED <<errors, asked, browser, seen>>

\* Still no field: the login page is loaded again.
Reload ==
    /\ In("retry")
    /\ site.page \notin UsernameField \ {"totp"}
    /\ Load
    /\ NextAttempt
    /\ UNCHANGED <<errors, asked, browser, seen>>

\* The field does not come, on a page with neither button.
NoUsernameField ==
    /\ In("username")
    /\ site.page \notin UsernameField \ {"totp"}
    /\ site.page # "error"
    /\ Fails("unknown")
    /\ UNCHANGED <<site, errors, asked, browser, seen>>

-----------------------------------------------------------------------------
(* submitUsernameStep, whose first click is part of TypeUsername, and the  *)
(* optional challenge.                                                     *)

\* didLeaveUsernameStep looks for the password field and the captcha only.  Nobody reads
\* the errors any more.
Advanced == site.page \in {"password", Captcha}

LeaveUsername ==
    /\ In("submit")
    /\ Advanced
    /\ To("between")
    /\ errors' = NoErrors
    /\ UNCHANGED <<asked, browser, site, seen>>

\* After 4 s: Enter, and after 4 s more another click.  Another form than the one that was
\* typed into is submitted empty, which X need not answer.
SubmitAgain ==
    /\ In("submit")
    /\ ~Advanced
    /\ flow.tries < MaxAttempts - 1
    /\ flow' = [flow EXCEPT !.tries = @ + 1]
    /\ site' \in {site, [site EXCEPT !.due = Owed]}
    /\ UNCHANGED <<errors, asked, browser, seen>>

\* The field Enter is to be pressed in has gone.
EnterRejects ==
    /\ In("submit")
    /\ ~Advanced
    /\ flow.tries = 0
    /\ site.page \notin UsernameField \ {"totp"}
    /\ Fails("unknown")
    /\ UNCHANGED <<site, errors, asked, browser, seen>>

\* Mutant of SaidSince: classification by an error of the page's load.
SaidEver == IF errors.since = NoReason THEN errors.before ELSE errors.since

\* lastSince(stepStartedAt).
SaidSince == errors.since

\* Why the page does not go on; classifyVisibleFailure, if nothing else is known.
VisibleReason(known) ==
    CASE known # NoReason -> known
      [] known = NoReason /\ site.page \in TextReasons -> site.page
      [] OTHER -> "home_not_reached"

GiveUpUsername ==
    /\ In("submit")
    /\ ~Advanced
    /\ flow.tries = MaxAttempts - 1
    /\ Fails(VisibleReason(SaidSince))
    /\ UNCHANGED <<site, errors, asked, browser, seen>>

\* checkForCaptcha, around the challenge and on the way out of verify-home.
FindCaptcha ==
    /\ In("between") \/ In("advance")
    /\ site.page = Captcha
    /\ Fails(Captcha)
    /\ UNCHANGED <<site, errors, asked, browser, seen>>

\* isVisibleSoon(challengeInput), and waitForAdvance after it, which does not insist.
LookForChallenge ==
    /\ In("between") \/ In("advance")
    /\ site.page # Captcha
    /\ To(IF In("between") /\ site.page = "challenge" THEN "challenge" ELSE "password")
    /\ UNCHANGED <<site, errors, asked, browser, seen>>

AnswerChallenge ==
    /\ In("challenge")
    /\ site.page = "challenge"
    /\ Submit("challenge")
    /\ To("advance")
    /\ UNCHANGED <<errors, asked, browser>>

-----------------------------------------------------------------------------
(* The password and the code.                                              *)

TypePassword ==
    /\ In("password")
    /\ site.page = "password"
    /\ Submit("password")
    /\ To("code")
    /\ UNCHANGED <<errors, asked, browser>>

NoPasswordField ==
    /\ In("password")
    /\ site.page # "password"
    /\ Fails(VisibleReason(NoReason))
    /\ UNCHANGED <<site, errors, asked, browser, seen>>

\* isVisibleSoon(totpInput).
NoCodeWanted ==
    /\ In("code")
    /\ site.page # "totp"
    /\ To("home")
    /\ UNCHANGED <<site, errors, asked, browser, seen>>

CodeWanted ==
    /\ In("code")
    /\ site.page = "totp"
    /\ To("totp")
    /\ UNCHANGED <<site, errors, asked, browser, seen>>

\* The job has no totpSecret (whether it has one is left open).
NoCodeToGive ==
    /\ In("code")
    /\ site.page = "totp"
    /\ Fails(CodeByMail)
    /\ UNCHANGED <<site, errors, asked, browser, seen>>

\* Mutant of TypeCode: its step is entered without a probe.
TypeCodeUnprobed ==
    /\ flow.step = "totp"
    /\ site.page = "totp"
    /\ Submit("totp")
    /\ To("home")
    /\ UNCHANGED <<errors, asked, browser>>

TypeCode ==
    /\ In("totp")
    /\ site.page = "totp"
    /\ Submit("totp")
    /\ To("home")
    /\ UNCHANGED <<errors, asked, browser>>

\* A field that was visible is no longer, or a call of the step rejects.
StepRejects ==
    /\ \/ In("challenge") /\ site.page # "challenge" /\ UNCHANGED seen
       \/ In("totp") /\ site.page # "totp" /\ UNCHANGED seen
       \/ /\ \E s \in Step \ {"launch", "script", "prelogin", "verify", "close", "decide", "done"} :
               In(s)
          /\ Reject
    /\ Fails("unknown")
    /\ UNCHANGED <<site, errors, asked, browser>>

-----------------------------------------------------------------------------
(* verifyHome, extractCookies and verifyAuthenticatedSession.              *)

\* Nobody looks at the page any more.
ReachHome ==
    /\ In("home")
    /\ site.page = "home"
    /\ site' = [site EXCEPT !.due = 0]
    /\ To("cookies")
    /\ UNCHANGED <<errors, asked, browser, seen>>

\* By text, then captcha, then URL.  The words that ask for a code are those of a mail's.
NotHome ==
    /\ In("home")
    /\ site.page # "home"
    /\ \/ site.page \in TextReasons \cup UrlReasons \cup {Captcha} /\ Fails(site.page)
       \/ site.page = "totp" /\ Fails(CodeByMail)
       \/ site.page \notin TextReasons \cup UrlReasons \cup {Captcha} /\ Fails("home_not_reached")
    /\ UNCHANGED <<site, errors, asked, browser, seen>>

ExtractCookies ==
    /\ In("cookies")
    /\ site.session # "none"
    /\ To("verify")
    /\ UNCHANGED <<site, errors, asked, browser, seen>>

CookiesMissing ==
    /\ In("cookies")
    /\ Fails("cookies_missing")
    /\ UNCHANGED <<site, errors, asked, browser, seen>>

\* The page says who is logged in, or the settings API does.
Verified ==
    /\ In("verify")
    /\ Ends("ok", site.session)
    /\ UNCHANGED <<site, errors, asked, browser, seen>>

\* Both settings URLs answer 401 or 403: once more, 2.5 s later.
VerifyRefused ==
    /\ In("verify")
    /\ IF flow.tries + 1 < MaxPasses THEN flow' = [flow EXCEPT !.tries = @ + 1]
       ELSE Fails("cookies_missing")
    /\ UNCHANGED <<site, errors, asked, browser, seen>>

\* An answer without a name; another status, or no answer.
VerifyFails ==
    /\ In("verify")
    /\ \E reason \in {"cookies_missing", "unreachable"} : Fails(reason)
    /\ UNCHANGED <<site, errors, asked, browser, seen>>

-----------------------------------------------------------------------------
(* The end of login.run, and runWithRetries.                               *)

\* Mutant of CloseBrowser: a cancelled login returns before its finally.
CloseUnlessCancelled ==
    /\ In("close")
    /\ To("decide")
    /\ browser' = [mine |-> FALSE,
                   lost |-> browser.lost
                                + IF browser.mine /\ flow.result = "cancelled" THEN 1 ELSE 0]
    /\ site' = [site EXCEPT !.page = "blank", !.due = 0]
    /\ errors' = NoErrors
    /\ seen' = [seen EXCEPT !.shown = {}]
    /\ UNCHANGED asked

\* The browser ends with its page; a close that rejects is swallowed.
CloseBrowser ==
    /\ In("close")
    /\ To("decide")
    /\ \/ /\ browser' = [browser EXCEPT !.mine = FALSE]
          /\ seen' = [seen EXCEPT !.shown = {}]
       \/ /\ browser.mine
          /\ browser' = [mine |-> FALSE, lost |-> browser.lost + 1]
          /\ seen.rejects < MaxRejects
          /\ seen' = [seen EXCEPT !.shown = {}, !.rejects = @ + 1]
    /\ site' = [site EXCEPT !.page = "blank", !.due = 0]
    /\ errors' = NoErrors
    /\ UNCHANGED asked

\* login.run again: the transient retry is the second, the proxy fallback the third.
\* Where the profile directory is named after the proxy, nobody is logged in there.
Again(run) ==
    /\ flow' = [flow EXCEPT !.step = "launch", !.run = run, !.result = NoReason]
    /\ seen' = [seen EXCEPT !.logins = @ + 1]
    /\ site' \in {site, [site EXCEPT !.session = IF run = 3 THEN "none" ELSE @]}
    /\ UNCHANGED <<errors, asked, browser>>

\* isTransientFailure goes by the wording; the cooldown lets it pass.
TransientRetry ==
    /\ In("decide")
    /\ flow.run = 1
    /\ flow.result = "unknown"
    /\ Again(2)

\* shouldRetryWithFallbackProxy.
ProxyFallback ==
    /\ In("decide")
    /\ flow.run < 3
    /\ flow.result \in {"unknown", "home_not_reached"}
    /\ Again(3)

\* No retry applies, or a cooldown does, or there is no other proxy.
Decided ==
    /\ In("decide")
    /\ To("done")
    /\ UNCHANGED <<site, errors, asked, browser, seen>>

-----------------------------------------------------------------------------
(* X (external), and whoever asks the job to stop.                         *)

\* Steps that look at the page.
Looking == Forms \cup {"retry", "submit", "between", "advance", "code", "home"}

\* What it may show.  Of an error page that is not the login page's the code sees no more
\* than of a form that does not go on.
Answers ==
    Forms \cup TextReasons \cup UrlReasons \cup {"home", Captcha}
        \cup IF flow.step \in {"username", "retry"} THEN {"landing", "error"} ELSE {}

\* A page it renders, while login.run looks; home is for those who are logged in.
XAnswers ==
    /\ flow.step \in Looking
    /\ site.due > 0
    /\ \E page \in Answers \ {site.page} :
         /\ \E session \in IF page = "home" /\ site.session = "none" THEN {"typed", "other"}
                           ELSE {site.session} :
              site' = [page |-> page, due |-> site.due - 1, session |-> session]
         /\ seen' = [seen EXCEPT !.shown = @ \cup ({page} \cap Refusals)]
    /\ UNCHANGED <<flow, errors, asked, browser>>

\* An onboarding request of the page has failed, while somebody may still read of it; a
\* body that classifyOnboardingError does not know hides the ones before it.
XReports ==
    /\ flow.step \in {"prelogin", "navigate", "username", "retry", "submit"}
    /\ \E reason \in ApiReasons \cup {NoReason} :
         /\ errors' = [errors EXCEPT !.since = reason]
         /\ seen' = [seen EXCEPT !.shown = @ \cup ({reason} \cap ApiReasons)]
    /\ UNCHANGED <<flow, site, asked, browser>>

\* cancelForUser; onShutdownAbort.
Ask ==
    /\ flow.step # "done"
    /\ Cardinality(asked) < MaxAsks
    /\ \E who \in {"user", "shutdown"} \ asked : asked' = asked \cup {who}
    /\ UNCHANGED <<flow, site, errors, browser, seen>>

-----------------------------------------------------------------------------
Opening == LaunchBrowser \/ NoContextForRun \/ ScriptAdded \/ OpenPage \/ SkipLogin
           \/ NeedLogin \/ Navigate

UsernameStep == TypeUsername \/ ClickLogin \/ ClickRetry \/ Reload \/ NoUsernameField
                \/ LeaveUsername \/ SubmitAgain \/ EnterRejects \/ GiveUpUsername

SecretStep == FindCaptcha \/ LookForChallenge \/ AnswerChallenge \/ TypePassword
              \/ NoPasswordField \/ NoCodeWanted \/ CodeWanted \/ NoCodeToGive \/ TypeCode
              \/ StepRejects

Verdict == ReachHome \/ NotHome \/ ExtractCookies \/ CookiesMissing \/ Verified
           \/ VerifyRefused \/ VerifyFails \/ CloseBrowser \/ TransientRetry
           \/ ProxyFallback \/ Decided

LoginStep == ProbeStops \/ ProbePasses \/ ProbeRejects
             \/ Opening \/ UsernameStep \/ SecretStep \/ Verdict

FlowNext == LoginStep \/ XAnswers \/ XReports \/ Ask

FlowSpec == FlowInit /\ [][FlowNext]_flowVars

-----------------------------------------------------------------------------
(* Properties.                                                             *)

\* Once the job has been asked to stop, X is given what the step under way was about
\* to give it, and nothing more, in this run or the next: unless a probe was rejected,
\* no username, challenge, password or code follows another.
StopIsHeeded == ~seen.missed => Cardinality(seen.late) <= 1

\* login.run says what happened: a success names the account whose cookies it returns,
\* a cancellation was asked for, and a refusal is one X has uttered since the username
\* step began, in the page or in a response, and not one left over from before.
ResultIsTrue ==
    flow.step = "close" =>
        /\ flow.result = "ok" => flow.name = site.session
        /\ flow.result = "cancelled" => asked # {}
        /\ flow.result \in Refusals \ {CodeByMail} => flow.result \in seen.shown

\* However login.run ends, it leaves no browser behind, unless addInitScript or the
\* close itself was rejected; the next run finds its profile directory free.
NoBrowserIsForgotten ==
    /\ browser.lost <= seen.rejects
    /\ flow.step = "decide" \/ flow.step = "launch" => ~browser.mine

\* x-login-flow.runner.ts:76-79 goes on from an "unusual login" challenge that X shows
\* after the username.  The code does not: see README.md, "On record".
ChallengeIsAnswered ==
    flow.step = "close" /\ flow.result = "home_not_reached" => site.page # "challenge"

-----------------------------------------------------------------------------
(* To the job's worker all this is the phase "login" of LoginJobs.         *)

Job == 1

Worker == "worker"

\* Its row, its process, and the shutdowns, as the queue sees them.
QueueRow ==
    [j \in {Job} |-> [status |-> IF "user" \in asked THEN "cancelled" ELSE "running",
                     secret |-> "user" \notin asked,
                     lock |-> "held"]]

QueuePhase ==
    IF flow.step # "done" THEN "login"
    ELSE IF flow.result = "cancelled" THEN "cancel"
    ELSE IF flow.result = "ok" THEN "store" ELSE "fail"

QueueProcess ==
    [w \in {Worker} |-> [state |-> IF "shutdown" \in asked THEN "draining" ELSE "up",
                        phase |-> QueuePhase,
                        job |-> Job,
                        run |-> flow.run,
                        aborted |-> "shutdown" \in asked,
                        awaited |-> "shutdown" \in asked]]

QueueUsed == [faults |-> 0, stalls |-> 0, stops |-> IF "shutdown" \in asked THEN 1 ELSE 0]

Queue == INSTANCE LoginJobs WITH
    Workers <- {Worker}, MaxJobs <- 1, MaxFaults <- 0, MaxStalls <- 0, MaxStops <- 1,
    job <- QueueRow, stored <- {}, proc <- QueueProcess, used <- QueueUsed,
    logins <- [j \in {Job} |-> seen.logins]

\* Whatever happens between the forms, the login queue sees nothing, or what it expects
\* of a login: a real cancellation, an outcome, one more login of at most MaxRuns; or
\* somebody asks the job to stop.
ImplementsQueueStep ==
    [][\/ Queue!LoginReturns(Worker)
       \/ Queue!CancelForUser(Job)
       \/ Queue!Stop(Worker)]_(Queue!vars)
=============================================================================
