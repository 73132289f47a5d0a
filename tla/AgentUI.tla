------------------------------- MODULE AgentUI -------------------------------
(***************************************************************************)
(* The agent's login page (src/agent-ui/js): a store (store/index.js) with *)
(* actions that fire axios requests and mutations that set its state, and  *)
(* a view (views/form.js) re-rendered on every commit, whose login button  *)
(* and data-sharing checkbox dispatch actions.  After the credentials are  *)
(* accepted a setInterval polls GET /api/v1/status every second until the  *)
(* agent reports up-to-date.                                               *)
(*                                                                         *)
(* Each JavaScript task (a click, a timer tick, an XHR completion with its *)
(* then/catch/finally microtasks) runs to completion: one action.  HTTP    *)
(* requests and their responses are a bag of messages delivered in any    *)
(* order.  The agent answering them (not in this repository) is an         *)
(* environment whose status moves waiting -> gathering -> up-to-date once  *)
(* it has credentials, possibly after it has answered the PUT.             *)
(***************************************************************************)
EXTENDS Integers, FiniteSets, Bags, BagsExt

CONSTANTS
    UrlInputs,     \* texts the user may type in the URL field
    UserInputs,    \* texts the user may type in the username field
    ReUrlOK,       \* UrlInputs -> BOOLEAN: what reUrl.test gives
    ReEmailOK,     \* UserInputs -> BOOLEAN: what reEmail.test gives
    MaxPuts,       \* bound: credential PUTs over a behaviour
    MaxInFlight,   \* bound: requests and responses on the wire at once
    NULL

ASSUME MaxPuts \in Nat /\ MaxInFlight \in Nat \ {0}

(* commons/states.js                                                       *)
CheckingStatus == "checkingStatus"
WaitingForCredentials == "waitingForCredentials"
CredentialsAccepted == "credentialsAccepted"
CredentialsRejected == "credentialsRejected"
InvalidCredentials == "invalidCredentials"
GatheringInventory == "gatheringInventory"
UpToDate == "upToDate"
Error == "error"

VARIABLES
    state,     \* the store's state object
    live,      \* ids of intervals set and not cleared
    nextId,    \* the id the next setInterval returns
    net,       \* bag of requests and responses on the wire
    puts,      \* PUTs sent so far (bounded by MaxPuts)
    agent      \* the agent: [status, hasCreds] (environment)

vars == <<state, live, nextId, net, puts, agent>>

AgentStatuses == {"waiting-for-credentials", "gathering-initial-inventory", "up-to-date"}
Kinds == {"status", "version", "url", "credentials"}
StatusResps == AgentStatuses \cup {"failed"}
PutResps == {200, 400, 401, 500}
Req(k) == [kind |-> k, resp |-> NULL]
Resp(k, r) == [kind |-> k, resp |-> r]

Send(k) == net' = BagAdd(net, Req(k))

-----------------------------------------------------------------------------
(* store/index.js lines 118-127 and main.js lines 11-16: the first render  *)
(* and the three requests dispatched on DOMContentLoaded.  A reload after  *)
(* an earlier login finds the agent in any of its states.                  *)
(* The DOMContentLoaded handler (main.js 11-16): the first render, then    *)
(* fetchAgentState, fetchAgentVersion and fetchPlannerUrl, one GET each;   *)
(* nothing else ever sends the version or URL requests.                    *)
OnLoad == SetToBag({Req("status"), Req("version"), Req("url")})

Init ==
    /\ state = [dataSharingAccepted |-> TRUE, requestPending |-> FALSE,
                version |-> "", url |-> "",
                creds |-> [url |-> "", username |-> ""],
                intervalID |-> NULL, formState |-> CheckingStatus,
                formValidation |-> [valid |-> TRUE, element |-> ""]]
    /\ live = {} /\ nextId = 1 /\ puts = 0
    /\ net = OnLoad
    /\ \/ agent = [status |-> "waiting-for-credentials", hasCreds |-> FALSE]
       \/ \E s \in AgentStatuses \ {"waiting-for-credentials"} :
            agent = [status |-> s, hasCreds |-> TRUE]

(* views/form.js render: the login form unless the inventory is shown     *)
(* (line 31), disabled while a request is pending or after acceptance     *)
(* (line 54).                                                              *)
FormShown == state.formState # UpToDate
FormDisabled == \/ state.requestPending
                \/ state.formState \in {CredentialsAccepted, GatheringInventory}

(* Mutant of isButtonEnabled: a pending request does not disable it.      *)
isButtonEnabledIgnoringPending ==
    /\ state.dataSharingAccepted
    /\ state.formState \notin {CredentialsAccepted, GatheringInventory}
(* The login button's enabled test (form.js 80-89).                        *)
isButtonEnabled ==
    /\ ~state.requestPending
    /\ state.dataSharingAccepted
    /\ state.formState \notin {CredentialsAccepted, GatheringInventory}

(* The store's mutations (store 84-117), each committing one field.       *)
updateDataSharing(s, enabled) == [s EXCEPT !.dataSharingAccepted = enabled]
updateFormState(s, formState) == [s EXCEPT !.formState = formState]
setVersion(s, version) == [s EXCEPT !.version = version]
updateRequestPending(s, pending) == [s EXCEPT !.requestPending = pending]
setUrl(s, url) == [s EXCEPT !.url = url]
setIntervalID(s, id) == [s EXCEPT !.intervalID = id]
setCredentials(s, creds) == [s EXCEPT !.creds = creds]
setFormValidation(s, payload) == [s EXCEPT !.formValidation = payload]

(* The login button (login-controls.js): rendered with the form, it        *)
(* carries `disabled` unless isButtonEnabled (line 11), and a click runs   *)
(* postCallback (28-30).                                                   *)
LoginButtonClickable == FormShown /\ isButtonEnabled

(* A click on the data-sharing checkbox (login-form.js 135-138) dispatches *)
(* enableDataSharing with the box's new checked value (store 7-9).  The    *)
(* checkbox is disabled while the form is.                                 *)
ToggleDataSharing ==
    /\ FormShown /\ ~FormDisabled
    /\ state' = updateDataSharing(state, ~state.dataSharingAccepted)
    /\ UNCHANGED <<live, nextId, net, puts, agent>>

(* A click on the login button runs postCallback (form.js 91-118): commit  *)
(* the typed credentials (formCredentials, store 80-82), stop at the first *)
(* failing regex with a formValidation commit (store 77-79), otherwise     *)
(* postCredentials (store 48-50) marks the request pending and sends the   *)
(* PUT.                                                                    *)
ClickLogin ==
    /\ LoginButtonClickable
    /\ \E u \in UrlInputs, n \in UserInputs :
         LET withCreds == setCredentials(state, [url |-> u, username |-> n]) IN
         CASE ~ReUrlOK[u] ->
                /\ state' = setFormValidation(withCreds, [valid |-> FALSE, element |-> "url"])
                /\ UNCHANGED <<net, puts>>
           [] ~ReEmailOK[n] ->
                /\ state' = setFormValidation(withCreds, [valid |-> FALSE, element |-> "username"])
                /\ UNCHANGED <<net, puts>>
           [] OTHER ->
                /\ puts < MaxPuts /\ BagCardinality(net) < MaxInFlight
                /\ state' = updateRequestPending(withCreds, TRUE)
                /\ Send("credentials") /\ puts' = puts + 1
    /\ UNCHANGED <<live, nextId, agent>>

(* An interval fires: fetchAgentState sends GET /api/v1/status (store      *)
(* 55-57, 11).                                                             *)
IntervalTick ==
    /\ \E i \in live : TRUE
    /\ BagCardinality(net) < MaxInFlight
    /\ Send("status")
    /\ UNCHANGED <<state, live, nextId, puts, agent>>

(* Mutant of StatusArrives: the up-to-date branch forgets the             *)
(* setIntervalID(null) commit after clearInterval.                         *)
StatusArrivesKeepsId(r) ==
    /\ BagIn(Resp("status", r), net)
    /\ net' = BagRemove(net, Resp("status", r))
    /\ CASE r = "waiting-for-credentials" ->
              /\ state' = updateFormState(state, WaitingForCredentials)
              /\ UNCHANGED live
         [] r = "up-to-date" ->
              /\ live' = IF state.intervalID # NULL
                         THEN live \ {state.intervalID} ELSE live
              /\ state' = updateFormState(state, UpToDate)
         [] OTHER -> UNCHANGED <<state, live>>
    /\ UNCHANGED <<nextId, puts, agent>>

(* Mutant of StatusArrives: the switch misspells the up-to-date case, so  *)
(* that answer falls through like an unknown status.                       *)
StatusArrivesMisspelt(r) ==
    /\ BagIn(Resp("status", r), net)
    /\ net' = BagRemove(net, Resp("status", r))
    /\ IF r = "waiting-for-credentials"
       THEN /\ state' = updateFormState(state, WaitingForCredentials)
            /\ UNCHANGED live
       ELSE UNCHANGED <<state, live>>
    /\ UNCHANGED <<nextId, puts, agent>>

(* Mutant of StatusArrives: the waiting-for-credentials case lacks its    *)
(* break and falls through into the up-to-date case.                       *)
StatusArrivesFallsThrough(r) ==
    /\ BagIn(Resp("status", r), net)
    /\ net' = BagRemove(net, Resp("status", r))
    /\ IF r \in {"waiting-for-credentials", "up-to-date"}
       THEN /\ live' = IF state.intervalID # NULL
                       THEN live \ {state.intervalID} ELSE live
            /\ state' = updateFormState(IF state.intervalID # NULL
                                        THEN setIntervalID(state, NULL) ELSE state,
                                        UpToDate)
       ELSE UNCHANGED <<state, live>>
    /\ UNCHANGED <<nextId, puts, agent>>

(* The status response (store 12-28): waiting-for-credentials shows the   *)
(* form; up-to-date clears the recorded interval, if any, and shows the    *)
(* inventory; any other status, or a failed request, changes nothing.     *)
StatusArrives(r) ==
    /\ BagIn(Resp("status", r), net)
    /\ net' = BagRemove(net, Resp("status", r))
    /\ CASE r = "waiting-for-credentials" ->
              /\ state' = updateFormState(state, WaitingForCredentials)
              /\ UNCHANGED live
         [] r = "up-to-date" ->
              /\ live' = IF state.intervalID # NULL
                         THEN live \ {state.intervalID} ELSE live
              /\ state' = updateFormState(IF state.intervalID # NULL
                                          THEN setIntervalID(state, NULL) ELSE state,
                                          UpToDate)
         [] OTHER -> UNCHANGED <<state, live>>
    /\ UNCHANGED <<nextId, puts, agent>>

(* fetchAgentVersion and fetchPlannerUrl responses (store 30-47).          *)
InfoArrives(k, r) ==
    /\ BagIn(Resp(k, r), net)
    /\ net' = BagRemove(net, Resp(k, r))
    /\ state' = CASE r = "failed"  -> state
                   [] k = "version" -> setVersion(state, "v")
                   [] OTHER         -> setUrl(state, "u")
    /\ UNCHANGED <<live, nextId, puts, agent>>

(* The PUT's response (store 51-75): on success show the spinner and      *)
(* start a 1s interval whose id replaces the recorded one; on an error map *)
(* error.status to a form state; finally clear requestPending.             *)
CredentialsArrive(r) ==
    /\ BagIn(Resp("credentials", r), net)
    /\ net' = BagRemove(net, Resp("credentials", r))
    /\ IF r = 200
       THEN /\ state' = updateRequestPending(
                          setIntervalID(updateFormState(state, CredentialsAccepted), nextId),
                          FALSE)
            /\ live' = live \cup {nextId} /\ nextId' = nextId + 1
       ELSE /\ state' = updateRequestPending(
                          updateFormState(state, CASE r = 400 -> InvalidCredentials
                                                   [] r = 401 -> CredentialsRejected
                                                   [] OTHER   -> Error),
                          FALSE)
            /\ UNCHANGED <<live, nextId>>
    /\ UNCHANGED <<puts, agent>>

-----------------------------------------------------------------------------
(* The agent (environment): it answers a request with its current status, *)
(* takes or refuses credentials (a refused PUT reaches the catch, whatever *)
(* failed), and once it has them reports gathering and then up-to-date.   *)
AgentAnswers(k) ==
      /\ BagIn(Req(k), net)
      /\ \E r \in CASE k = "status" -> {agent.status}
                    [] k = "credentials" -> PutResps
                    [] OTHER -> {"ok"} :
           /\ net' = BagAdd(BagRemove(net, Req(k)), Resp(k, r))
           /\ agent' = IF k = "credentials" /\ r = 200
                       THEN [agent EXCEPT !.hasCreds = TRUE] ELSE agent
      /\ UNCHANGED <<state, live, nextId, puts>>

(* A request fails on the network: axios rejects and the catch logs.      *)
RequestFails ==
    \E k \in Kinds \ {"credentials"} :
      /\ BagIn(Req(k), net)
      /\ net' = BagAdd(BagRemove(net, Req(k)), Resp(k, "failed"))
      /\ UNCHANGED <<state, live, nextId, puts, agent>>

AgentProgresses ==
    /\ agent.hasCreds
    /\ agent.status # "up-to-date"
    /\ agent' = [agent EXCEPT !.status = IF @ = "waiting-for-credentials"
                                         THEN "gathering-initial-inventory"
                                         ELSE "up-to-date"]
    /\ UNCHANGED <<state, live, nextId, net, puts>>

Next ==
    \/ ToggleDataSharing \/ ClickLogin \/ IntervalTick
    \/ \E r \in StatusResps : StatusArrives(r)
    \/ \E k \in {"version", "url"}, r \in {"ok", "failed"} : InfoArrives(k, r)
    \/ \E r \in PutResps : CredentialsArrive(r)
    \/ \E k \in Kinds : AgentAnswers(k)
    \/ RequestFails \/ AgentProgresses

(* The browser runs timers and hands every response that arrives to its    *)
(* callback; the agent progresses; the network does not fail every        *)
(* request forever (strong fairness: a kind of request sent again and      *)
(* again is eventually answered).  The user need do nothing.               *)
Fairness ==
    /\ WF_vars(IntervalTick) /\ WF_vars(AgentProgresses)
    /\ \A k \in Kinds : SF_vars(AgentAnswers(k))
    /\ \A r \in StatusResps : WF_vars(StatusArrives(r))
    /\ \A k \in {"version", "url"}, r \in {"ok", "failed"} : WF_vars(InfoArrives(k, r))
    /\ \A r \in PutResps : WF_vars(CredentialsArrive(r))

Spec == Init /\ [][Next]_vars /\ Fairness

-----------------------------------------------------------------------------
(* What the page shows: the render that runs after every commit.  Markup,  *)
(* icons and wording are left out; an alert, a field's status mark or a    *)
(* helper text is named by what it tells the user.                         *)

(* Alert.render (alert.js 6-48): the "Error" alert asks the user to check  *)
(* that the URL is reachable, the "Invalid Credentials" one to check the   *)
(* entry for typos or a locked account.                                    *)
AlertMessage(type) ==
    CASE type = "error"              -> "checkUrl"
      [] type = "invalidCredentials" -> "checkCredentials"

(* LoginForm.render (login-form.js 26-132): unless disabled, a 401 state   *)
(* shows the invalid-credentials alert, marks the credential fields as     *)
(* wrong and the URL as right (39-44); a 400 state shows the error alert   *)
(* and marks the URL as wrong (45-48); every other state shows neither.   *)
(* The helper text follows formValidation whether or not the form is      *)
(* disabled (69, 89); the checkbox shows dataSharingEnabled (116).         *)
LoginForm(props) ==
    LET shows(fs) == ~props.disabled /\ props.state = fs IN
    [disabled  |-> props.disabled,
     alert     |-> CASE shows(CredentialsRejected) -> AlertMessage("invalidCredentials")
                     [] shows(InvalidCredentials)  -> AlertMessage("error")
                     [] OTHER                      -> "none",
     urlInfo   |-> CASE shows(CredentialsRejected) -> "success"
                     [] shows(InvalidCredentials)  -> "error"
                     [] OTHER                      -> "",
     credsInfo |-> IF shows(CredentialsRejected) THEN "error" ELSE "",
     helper    |-> IF ~props.valid /\ props.invalidElement \in {"url", "username"}
                   THEN props.invalidElement ELSE "",
     checked   |-> props.dataSharingEnabled]

(* LoginBtn.render (login-controls.js 6-33): the button, disabled unless   *)
(* isButtonEnabled, and the spinner with its message when spinnerEnabled.  *)
LoginBtn(props) ==
    [enabled |-> props.isButtonEnabled,
     spinner |-> IF props.spinnerEnabled THEN props.msg ELSE "none"]

(* The spinner's message (form.js 68-75): `case A || B` evaluates A || B   *)
(* to A, a non-empty string, so only CredentialsAccepted says "Gathering   *)
(* inventory..."; every other state says "Log in...".                     *)
SpinnerMsg ==
    IF state.formState = CredentialsAccepted THEN "gatheringInventory" ELSE "logIn"

(* InfoDiscovery.render (info.js 5-42): "Connected", "Discovery completed". *)
InfoDiscovery == "connected"

(* DownloadControls.render with form.js's callbacks (download-controls.js  *)
(* 6-29, form.js 33-44): "Download inventory" opens /api/v1/inventory; "Go *)
(* back" opens the planner URL the agent gave, or the localhost default    *)
(* when none arrived.                                                      *)
DownloadControls ==
    [download |-> "inventory",
     goBack   |-> IF state.url # "" THEN "planner" ELSE "localhost"]

(* FormView.render (form.js 25-123): the inventory view once up to date,   *)
(* otherwise the login form and button built from the store's state.      *)
Page ==
    IF state.formState = UpToDate
    THEN [view |-> "inventory", info |-> InfoDiscovery, controls |-> DownloadControls]
    ELSE [view |-> "login",
          form |-> LoginForm([dataSharingEnabled |-> state.dataSharingAccepted,
                              disabled |-> FormDisabled,
                              state |-> state.formState,
                              valid |-> state.formValidation.valid,
                              invalidElement |-> state.formValidation.element]),
          button |-> LoginBtn([msg |-> SpinnerMsg,
                               isButtonEnabled |-> isButtonEnabled,
                               spinnerEnabled |-> FormDisabled])]

-----------------------------------------------------------------------------
FormStates == {CheckingStatus, WaitingForCredentials, CredentialsAccepted,
               CredentialsRejected, InvalidCredentials, GatheringInventory,
               UpToDate, Error}
Msgs == {Req(k) : k \in Kinds}
        \cup {Resp("status", r) : r \in AgentStatuses \cup {"failed"}}
        \cup {Resp(k, r) : k \in {"version", "url"}, r \in {"ok", "failed"}}
        \cup {Resp("credentials", r) : r \in {200, 400, 401, 500}}

TypeOK ==
    /\ state.formState \in FormStates
    /\ state.dataSharingAccepted \in BOOLEAN /\ state.requestPending \in BOOLEAN
    /\ state.intervalID \in live \cup {NULL}
    /\ state.creds \in [url : UrlInputs \cup {""}, username : UserInputs \cup {""}]
    /\ live \subseteq 1..nextId - 1 /\ nextId \in 1..MaxPuts + 1
    /\ IsABag(net) /\ BagToSet(net) \subseteq Msgs
    /\ puts \in 0..MaxPuts

(* Credential PUTs outstanding: sent and whose response has not run yet.  *)
PutsOutstanding ==
    CopiesIn(Req("credentials"), net)
    + CopiesIn(Resp("credentials", 200), net) + CopiesIn(Resp("credentials", 400), net)
    + CopiesIn(Resp("credentials", 401), net) + CopiesIn(Resp("credentials", 500), net)

(* The login button lets at most one PUT be outstanding, and the store's   *)
(* requestPending says exactly whether one is: a re-render after every     *)
(* commit must disable the button before a second click, and the finally  *)
(* must clear the flag on every path.                                      *)
OnePutAtATime ==
    /\ PutsOutstanding <= 1
    /\ state.requestPending <=> PutsOutstanding = 1

(* Once the agent is up to date and the page is polling, the page comes to *)
(* show the inventory: the interval keeps asking and the up-to-date answer *)
(* switches the view.                                                      *)
PollingReachesUpToDate ==
    (agent.status = "up-to-date" /\ state.intervalID # NULL)
        ~> state.formState = UpToDate

(* Once the agent is up to date the page comes to show the inventory      *)
(* without the user doing anything (form.js 30: "if the inventory is       *)
(* gathered don't show the login form"), whatever the agent was doing when *)
(* the page was loaded.                                                    *)
UpToDateAgentIsShown ==
    agent.status = "up-to-date" ~> state.formState = UpToDate

(* When the page shows the inventory no interval keeps polling (the        *)
(* up-to-date branch clears "the" interval).                               *)
PollingStopsWhenUpToDate ==
    state.formState = UpToDate => live = {}

(* The page offers the inventory ("Connected", "Download inventory") only *)
(* when the agent has one: the up-to-date view is reached only through an  *)
(* up-to-date status answer, however answers are delayed or reordered.     *)
InventoryOnlyWhenUpToDate ==
    Page.view = "inventory" => agent.status = "up-to-date"

(* The messages on the login form are about the credentials last           *)
(* submitted (postCallback commits them first): a URL helper only if that  *)
(* URL failed reUrl, and then no good mark on the URL field beside it; a   *)
(* username helper only if that URL passed and that username failed.      *)
PageMatchesLastSubmission ==
    Page.view = "login" =>
      /\ Page.form.helper = "url" =>
            ~ReUrlOK[state.creds.url] /\ Page.form.urlInfo # "success"
      /\ Page.form.helper = "username" =>
            ReUrlOK[state.creds.url] /\ ~ReEmailOK[state.creds.username]

(* When the agent refuses the credentials the form says so: the render     *)
(* after a refused PUT's catch (400, 401 or any other error) shows an      *)
(* alert.                                                                  *)
RefusedLoginIsReported ==
    [][\A r \in PutResps \ {200} :
         CopiesIn(Resp("credentials", r), net') < CopiesIn(Resp("credentials", r), net)
            => Page'.view = "login" /\ Page'.form.alert # "none"]_vars
=============================================================================
