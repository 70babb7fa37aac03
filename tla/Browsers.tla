------------------------------- MODULE Browsers -------------------------------
(***************************************************************************)
(* The two services that launch browsers: XBrowserService, for everything  *)
(* that an account does, and XLoginService, for its logins.  They share    *)
(* neither state nor contexts, so one is looked at a time.  (They do share *)
(* the profile directory of an account, whose lock files both remove: two  *)
(* browsers in one directory are Chromium's to sort out.)                  *)
(***************************************************************************)
EXTENDS BrowserPool, LoginFlow

VARIABLE part  \* the service that is at work

browserVars == <<part, vars, flowVars>>

BrowsersTypeOK ==
    /\ TypeOK
    /\ FlowTypeOK
    /\ part \in {"pool", "login"}

BrowsersInit ==
    /\ Init
    /\ FlowInit
    /\ \/ part = "pool" /\ site.session = "none"
       \/ part = "login"

PoolPart(A) == A /\ part = "pool" /\ UNCHANGED <<part, flowVars>>

LoginPart(A) == A /\ part = "login" /\ UNCHANGED <<part, vars>>

BrowsersNext == PoolPart(Next) \/ LoginPart(FlowNext)

BrowsersSpec == BrowsersInit /\ [][BrowsersNext]_browserVars

\* Navigations, looks for fields, clicks, and presses of a key in a field have a timeout of
\* Playwright's.  Of the other awaits (keyboard, title, isVisible, addInitScript, newPage,
\* cookies, the query of isCancelled, and the close of the browser) it is assumed that
\* they settle.  Nothing is asked of X.
BrowsersFairSpec == BrowsersSpec /\ WF_browserVars(LoginPart(LoginStep))

\* X may answer a login as it likes, or not at all: it comes to an end, through all its
\* reloads, repeated submits and retries.
EveryLoginEnds == [](part = "login" => <>(flow.step = "done"))
=============================================================================
