----------------------------- MODULE Dashboard -----------------------------
(***************************************************************************)
(* The controller of the web page (main.ts): sheets that open over the     *)
(* landing view and are dismissed, the steps of the signing sheet, and the *)
(* debug terminal that shares the screen with a sheet.  Every handler runs *)
(* to completion; what it leaves to a timer, to a view transition or to    *)
(* the end of an animation runs later, among other handlers.               *)
(* Styling, drawings and the amphibian are left out.                       *)
(***************************************************************************)
EXTENDS Naturals, Sequences, FiniteSets

CONSTANTS
    NavTargets,   \* data-target of the links and the ribbon
    Petitions,    \* petitions of the carousel that must be verified
    Pages,        \* sets of controls usable on the page, among "cards", "tab"
                  \* and "request": index.html hides or disables all three
    MaxPending,   \* bound on what is left to run later
    MaxClicks     \* bound on what the user does

ASSUME DashboardAssumption ==
    /\ "sign" \in NavTargets /\ "discover" \notin NavTargets
    /\ "wip" \notin Petitions /\ "none" \notin Petitions
    /\ Pages \subseteq SUBSET {"cards", "tab", "request"}
    /\ MaxPending \in Nat /\ MaxClicks \in Nat

Sheets == NavTargets \cup {"sign", "petition"}
Views == Sheets \cup {"discover"}
Steps == {"identity", "otp", "eligible", "signature"}
Choices == Petitions \cup {"wip"}

VARIABLES
    page,        \* what the browser and index.html offer; never changes
    currentViewId,
    active,      \* views with class active, those on the screen
    steps,       \* sign steps with class active
    petitionId,  \* of signState, "none" for null
    tab,         \* is the petition tab visible
    casts,       \* signatures cast: the button goes with the first
    switching,   \* targets of view transitions whose callback has not run
    closing,     \* sheets whose 350 ms of dismissal are running
    selecting,   \* petitions to be selected after 50 ms
    opening,     \* is the page to open the signing sheet by itself
    leaving,     \* dismissals that a commit or a cast has ordered for later
    animations,  \* calls of triggerMcpAnimation that are awaited
    term,        \* the terminal: open, split
    splitting,   \* calls of enterSplitMode whose 600 ms are running
    frames,      \* calls of the terminal's animate that await the next frame
    verified,    \* (history) the code was entered since the sheet was opened
    unproved,    \* (history) the petitions cast without that
    strays,      \* (history) which late steps met a page they did not expect
    clicks

vars == <<page, currentViewId, active, steps, petitionId, tab, casts,
          switching, closing, selecting, opening, leaving, animations, term,
          splitting, frames, verified, unproved, strays, clicks>>

later == <<switching, closing, selecting, leaving, animations>>
signing == <<steps, petitionId, tab, verified>>
casting == <<casts, unproved>>
terminal == <<term, splitting, frames>>

Pending == Len(switching) + Len(closing) + Len(selecting) + leaving
             + animations + splitting

TypeOK ==
    /\ page \in [transitions : BOOLEAN, controls : Pages]
    /\ currentViewId \in Views
    /\ active \subseteq Views
    /\ steps \subseteq Steps
    /\ petitionId \in Choices \cup {"none"}
    /\ casts \in 0..1
    /\ switching \in Seq(Sheets) /\ closing \in Seq(Sheets)
    /\ selecting \in Seq(Choices)
    /\ leaving \in Nat /\ animations \in Nat /\ splitting \in Nat
    /\ frames \in 0..MaxClicks
    /\ term \in [open : BOOLEAN, split : BOOLEAN]
    /\ tab \in BOOLEAN /\ opening \in BOOLEAN /\ verified \in BOOLEAN
    /\ unproved \subseteq Choices \cup {"none"}
    /\ strays \subseteq {"switch", "step", "split"}
    /\ clicks \in 0..MaxClicks

\* The page as loaded, the auto-open timer running.
Init ==
    /\ page \in [transitions : BOOLEAN, controls : Pages]
    /\ currentViewId = "discover"
    /\ active = {"discover"}
    /\ steps = {"identity"}
    /\ petitionId = "none"
    /\ tab = FALSE
    /\ casts = 0
    /\ switching = <<>> /\ closing = <<>> /\ selecting = <<>>
    /\ opening = TRUE
    /\ leaving = 0 /\ animations = 0 /\ splitting = 0 /\ frames = 0
    /\ term = [open |-> FALSE, split |-> FALSE]
    /\ verified = FALSE
    /\ unproved = {}
    /\ strays = {}
    /\ clicks = 0

Click ==
    /\ clicks < MaxClicks
    /\ Pending < MaxPending
    /\ clicks' = clicks + 1

\* The mark left by a late step that finds the page changed under it.
Stray(kind, happens) ==
    strays' = IF happens THEN strays \cup {kind} ELSE strays

-----------------------------------------------------------------------------
(* Opening a sheet *)

\* A bug: the sheet that was open stays on the screen.
OpenedOver(target) == active \cup {target}

\* The previous sheet goes at once.
Opened(target) == (active \ ({currentViewId} \cap Sheets)) \cup {target}

\* performSwitch but for the tab: an open terminal moves aside; the signing
\* sheet starts from its first step.
PerformSwitch(target) ==
    /\ active' = Opened(target)
    /\ currentViewId' = target
    /\ splitting' = splitting + (IF term.open THEN 1 ELSE 0)
    /\ IF target = "sign" THEN steps' = {"identity"} /\ verified' = FALSE
                          ELSE UNCHANGED <<steps, verified>>

\* updatePetitionTab.  For a view other than the signing sheet it gives what
\* performSwitch does: the tab goes.
UpdatePetitionTab(view, id) == id # "none" /\ view = "sign"

\* showView but for the tab: nothing if the view is the current one; with
\* view transitions the browser calls performSwitch later.
ShowView(target) ==
    \/ /\ target = currentViewId
       /\ UNCHANGED <<currentViewId, active, steps, verified, splitting,
                      switching>>
    \/ /\ target # currentViewId /\ page.transitions
       /\ switching' = Append(switching, target)
       /\ UNCHANGED <<currentViewId, active, steps, verified, splitting>>
    \/ /\ target # currentViewId /\ ~page.transitions
       /\ PerformSwitch(target)
       /\ UNCHANGED switching

Switches == currentViewId' # currentViewId

\* A handler that does nothing but showView.
ShowOnly(target) ==
    /\ ShowView(target)
    /\ tab' = IF Switches THEN UpdatePetitionTab(target, petitionId) ELSE tab
    /\ Stray("switch", Switches /\ closing # <<>>)
    /\ UNCHANGED <<page, petitionId, casting, closing, selecting, opening,
                   leaving, animations, term, frames>>

TransitionCallback ==
    /\ switching # <<>>
    /\ PerformSwitch(Head(switching))
    /\ tab' = UpdatePetitionTab(Head(switching), petitionId)
    /\ switching' = Tail(switching)
    /\ Stray("switch", closing # <<>>)
    /\ UNCHANGED <<page, petitionId, casting, closing, selecting, opening,
                   leaving, animations, term, frames, clicks>>

\* A link or the ribbon; a petition's box in the grid.
ClickNav(target) == Click /\ ShowOnly(target)

\* openSignWithPetition: the sheet, the selection 50 ms later, and the tab,
\* before a view transition has made the sheet the current view.
OpenSignWithPetition(id) ==
    /\ ShowView("sign")
    /\ selecting' = Append(selecting, id)
    /\ tab' = UpdatePetitionTab(currentViewId', petitionId)
    /\ Stray("switch", Switches /\ closing # <<>>)
    /\ UNCHANGED <<page, petitionId, casting, closing, leaving, animations,
                   term, frames>>

\* The box Under Construction.
ClickWip == Click /\ OpenSignWithPetition("wip") /\ UNCHANGED opening

\* The page opens the signing sheet by itself 100 ms after it is loaded.
AutoOpen ==
    /\ opening
    /\ opening' = FALSE
    /\ OpenSignWithPetition("wip")
    /\ UNCHANGED clicks

-----------------------------------------------------------------------------
(* Dismissing *)

\* A bug: no timer takes the sheet away.
DismissTabOnly == closing' = closing /\ tab' = FALSE

\* dismissCurrentView: the tab goes, the sheet only after 350 ms.
DismissCurrentView ==
    IF currentViewId = "discover"
      THEN UNCHANGED <<closing, tab>>
      ELSE closing' = Append(closing, currentViewId) /\ tab' = FALSE

\* Escape, a click on the backdrop, a swipe down.
Dismiss ==
    /\ Click
    /\ DismissCurrentView
    /\ UNCHANGED <<page, currentViewId, active, steps, petitionId, verified,
                   casting, switching, selecting, opening, leaving,
                   animations, terminal, strays>>

\* A bug: nothing is moved back.
StaySplit == term

\* exitSplitMode, of an open terminal.
ExitSplitMode == [term EXCEPT !.split = @ /\ ~term.open]

\* The callback of the 350 ms: whatever has been opened meanwhile,
\* currentViewId becomes discover.
DismissEnd ==
    /\ closing # <<>>
    /\ closing' = Tail(closing)
    /\ active' = (active \ {Head(closing)}) \cup {"discover"}
    /\ currentViewId' = "discover"
    /\ term' = ExitSplitMode
    /\ Stray("split", splitting > 0)
    /\ UNCHANGED <<page, signing, casting, switching, selecting, opening,
                   leaving, animations, splitting, frames, clicks>>

\* The create button: committed, and dismissed 800 ms later.  It takes no
\* more clicks of the mouse, but those of the keyboard.
Create ==
    /\ Click
    /\ "create" \in active
    /\ leaving' = leaving + 1
    /\ UNCHANGED <<page, currentViewId, active, signing, casting, switching,
                   closing, selecting, opening, animations, terminal, strays>>

\* The end of those 800 ms, or of the 2 seconds after a cast.
Leave ==
    /\ leaving > 0
    /\ leaving' = leaving - 1
    /\ DismissCurrentView
    /\ UNCHANGED <<page, currentViewId, active, steps, petitionId, verified,
                   casting, switching, selecting, opening, animations,
                   terminal, strays, clicks>>

-----------------------------------------------------------------------------
(* The signing sheet *)

\* A control of a step can be used while the step is on the screen.
OnStep(s) == "sign" \in active /\ s \in steps

\* The code is requested for an address with an @: triggerMcpAnimation is
\* awaited, and then, whatever the page shows by now, the first step is
\* replaced by the second.
RequestCode ==
    /\ Click
    /\ "request" \in page.controls
    /\ OnStep("identity")
    /\ animations' = animations + 1
    /\ UNCHANGED <<page, currentViewId, active, signing, casting, switching,
                   closing, selecting, opening, leaving, terminal, strays>>

\* A bug: the step that is over is not taken away.
NextStepOver(from, to) == steps \cup {to}

NextStep(from, to) == (steps \ {from}) \cup {to}

AnimationEnd ==
    /\ animations > 0
    /\ animations' = animations - 1
    /\ steps' = NextStep("identity", "otp")
    /\ Stray("step", "identity" \notin steps)
    /\ UNCHANGED <<page, currentViewId, active, petitionId, tab, verified,
                   casting, switching, closing, selecting, opening, leaving,
                   terminal, clicks>>

StepTo(from, to) ==
    /\ Click
    /\ OnStep(from)
    /\ steps' = NextStep(from, to)
    /\ UNCHANGED <<page, currentViewId, active, petitionId, tab, casting,
                   switching, closing, selecting, opening, leaving, animations,
                   terminal, strays>>

\* The code is not compared with anything.
VerifyCode == StepTo("otp", "eligible") /\ verified' = TRUE

\* The button in the list that loadEligiblePetitions fills.
FinalSelect == StepTo("eligible", "signature") /\ UNCHANGED verified

\* A bug: the button is not replaced, and casts again.
CastButtonStays == OnStep("signature")

\* The step's content, its button too, is replaced for good by a cast.
CastButton == OnStep("signature") /\ casts = 0

Finalize ==
    /\ Click
    /\ CastButton
    /\ casts' = casts + 1
    /\ unproved' = IF verified THEN unproved ELSE unproved \cup {petitionId}
    /\ leaving' = leaving + 1
    /\ UNCHANGED <<page, currentViewId, active, signing, switching, closing,
                   selecting, opening, animations, terminal, strays>>

\* A bug: the petition is not noted.
SelectUnnoted(id) ==
    /\ UNCHANGED petitionId
    /\ tab' = UpdatePetitionTab(currentViewId, petitionId')
    /\ steps' = IF id = "wip" THEN {"signature"} ELSE steps
    /\ UNCHANGED <<verified, strays>>

\* selectSignPetition: only wip skips to the signature, and choosing another
\* petition afterwards does not lead back.
SelectSignPetition(id) ==
    /\ petitionId' = id
    /\ tab' = UpdatePetitionTab(currentViewId, petitionId')
    /\ steps' = IF id = "wip" THEN {"signature"} ELSE steps
    /\ UNCHANGED <<verified, strays>>

SelectLater ==
    /\ selecting # <<>>
    /\ selecting' = Tail(selecting)
    /\ SelectSignPetition(Head(selecting))
    /\ UNCHANGED <<page, currentViewId, active, casting, switching, closing,
                   opening, leaving, animations, terminal, clicks>>

\* A card of the carousel, which is built when the sheet is first opened.
ClickCard(id) ==
    /\ Click
    /\ "cards" \in page.controls
    /\ "sign" \in active
    /\ SelectSignPetition(id)
    /\ UNCHANGED <<page, currentViewId, active, casting, later, opening,
                   terminal>>

ClickTab ==
    /\ Click
    /\ "tab" \in page.controls
    /\ tab
    /\ petitionId \notin {"none", "wip"}
    /\ ShowOnly("petition")

-----------------------------------------------------------------------------
(* The debug terminal *)

\* Opening or closing it leaves its mode alone.  startAnim calls animate at
\* once; stopAnim leaves to the next frame what already waits for it.
Toggle ==
    /\ Click
    /\ term' = [term EXCEPT !.open = ~@]
    /\ frames' = IF term.open THEN frames ELSE frames + 1
    /\ Stray("split", currentViewId # "discover" \/ splitting > 0)
    /\ UNCHANGED <<page, currentViewId, active, signing, casting, later,
                   opening, splitting>>

\* A bug: the loop does not look whether it was stopped.
AnimateAlways == frames

\* animate asks for the next frame, unless the terminal was closed.
Animate == IF term.open THEN frames ELSE 0

Frame ==
    /\ frames > 0
    /\ frames' = Animate
    /\ UNCHANGED <<page, currentViewId, active, signing, casting, later,
                   opening, term, splitting, strays, clicks>>

\* The 600 ms of enterSplitMode are over: the sheets are pushed aside.
SplitEnd ==
    /\ splitting > 0
    /\ splitting' = splitting - 1
    /\ term' = [term EXCEPT !.split = TRUE]
    /\ UNCHANGED <<page, currentViewId, active, signing, casting, later,
                   opening, frames, strays, clicks>>

-----------------------------------------------------------------------------
Next ==
    \/ \E t \in NavTargets \cup {"petition"} : ClickNav(t)
    \/ ClickWip
    \/ Dismiss
    \/ Create
    \/ RequestCode
    \/ VerifyCode
    \/ FinalSelect
    \/ Finalize
    \/ \E id \in Choices : ClickCard(id)
    \/ ClickTab
    \/ Toggle
    \/ TransitionCallback
    \/ AutoOpen
    \/ DismissEnd
    \/ Leave
    \/ SelectLater
    \/ AnimationEnd
    \/ SplitEnd
    \/ Frame

\* Timers, view transitions and animations end, and the browser draws.
Fairness ==
    /\ WF_vars(TransitionCallback) /\ WF_vars(AutoOpen) /\ WF_vars(DismissEnd)
    /\ WF_vars(Leave) /\ WF_vars(SelectLater) /\ WF_vars(AnimationEnd)
    /\ WF_vars(SplitEnd) /\ WF_vars(Frame)

Spec == Init /\ [][Next]_vars /\ Fairness

-----------------------------------------------------------------------------
(* Properties *)

\* The screen shows the landing view and the sheet of currentViewId, no
\* other: a sheet is left behind, with nothing to dismiss it, only if it was
\* opened within the 350 ms of a dismissal.
SheetIsCurrent == "switch" \notin strays => active = {"discover", currentViewId}

\* The signing sheet shows one step at a time, as its style sheet intends,
\* unless the animation ended after its step had been left.
OneStep == "step" \notin strays => Cardinality(steps) = 1

\* An open terminal shares the screen exactly while a sheet is open, once its
\* animation is over, unless it was toggled over a sheet or a sheet was
\* opened and dismissed faster than that animation.
SplitWithSheet ==
    /\ strays \cap {"switch", "split"} = {}
    /\ splitting = 0
    /\ term.open
    => (term.split <=> currentViewId # "discover")

\* Only the petition under construction is signed without a code: what keeps
\* it so is that the carousel is hidden, since choosing a petition there
\* after wip leaves the signature step open.
UnprovedIsWip == "cards" \in page.controls \/ unproved \subseteq {"wip"}

\* A commit or a cast gets back to the landing view by itself, whatever is
\* clicked meanwhile.
LeavingReturns == leaving > 0 ~> currentViewId = "discover"

\* The terminal is drawn while it is open, and stops being drawn after it was
\* closed for good, also by those loops that were left over when it was closed
\* and opened again between two frames.
LoopFollows ==
    /\ [](term.open => frames > 0)
    /\ ~term.open ~> frames = 0 \/ term.open
=============================================================================
