------------------------------- MODULE Screen -------------------------------
(***************************************************************************)
(* What the unit puts on its own screen to prove that somebody holds it:   *)
(* the setup code of a unit without an owner, the button and the           *)
(* certificate's fingerprint (daemon/src/pairing.rs), and the terminal's   *)
(* second gate, whose code and whose "TERMINAL ACTIVE" line share the      *)
(* screen with them (daemon/src/stepup.rs, display/mod.rs,                 *)
(* key_input.rs).                                                          *)
(*                                                                         *)
(* Who is trusted is in Pairing; here only whether the unit is owned, in   *)
(* memory and for its owner.  The setup window, press requests and what    *)
(* is shown may lapse at any time; the terminal's windows and their line   *)
(* run down together, in ticks.                                            *)
(***************************************************************************)
EXTENDS Naturals, Sequences, FiniteSetsExt, Functions

CONSTANTS
    Browsers,
    None,
    MAX_SETUP_ATTEMPTS,
    MAX_WRONG,          \* wrong step-up codes that end the attempt
    WINDOW, HARD_CAP,   \* of a terminal window, in ticks
    MaxTokens           \* bound on the setup windows opened

ASSUME BrowsersAssumption == None \notin Browsers
ASSUME TimesAssumption ==
    /\ {MAX_SETUP_ATTEMPTS, MAX_WRONG, WINDOW, HARD_CAP, MaxTokens} \subseteq Nat \ {0}
    /\ WINDOW <= HARD_CAP

VARIABLES
    owner,      \* whether the unit is owned: in memory only, or its owner knows
    first,      \* first contact while its passphrase is hashed: by token or by press
    saving,     \* the claim that is being saved, the lock held
    window,     \* setup: the open window's token and its wrong tries; token 0 if closed
    tokens,     \* the tokens made so far
    press,      \* the request to pair by the button
    fpView,     \* showing_fingerprint
    over,       \* DisplayOverride: what is shown, and whose code it is
    pressTask,  \* a task spawned for a press has not run yet
    pending,    \* StepUp::pending: browser and wrong tries, the newest last
    terminal,   \* StepUp::windows: ticks since a window opened and was used
    banner      \* ticks the line "TERMINAL ACTIVE" stays up

setupVars == <<owner, first, saving, window, tokens, press, fpView, pressTask>>
stepVars == <<pending, terminal, banner>>
vars == <<owner, first, saving, window, tokens, press, fpView, over, pressTask,
          pending, terminal, banner>>

Shown == {"none", "setup code", "fingerprint", "press the button", "continue",
          "terminal code"}
TypeOK ==
    /\ owner \in {"none", "memory", "told"}
    /\ first \in {"none", "token", "press"}
    /\ saving \in {"none", "token", "press", "other"}
    /\ window \in [token: 0..MaxTokens, wrong: 0..(MAX_SETUP_ATTEMPTS - 1)]
    /\ tokens \in 0..MaxTokens
    /\ press \in [who: Browsers \cup {None}, fresh: BOOLEAN, approved: BOOLEAN]
    /\ fpView \in BOOLEAN
    /\ over \in [what: Shown, token: 0..MaxTokens]
    /\ pressTask \in BOOLEAN
    /\ pending \in Seq([who: Browsers, wrong: 0..(MAX_WRONG - 1)])
    /\ DOMAIN terminal \subseteq Browsers
    /\ \A b \in DOMAIN terminal : terminal[b] \in [age: 0..HARD_CAP, idle: 0..WINDOW]
    /\ banner \in 0..WINDOW

-----------------------------------------------------------------------------
Closed == [token |-> 0, wrong |-> 0]
NoPress == [who |-> None, fresh |-> FALSE, approved |-> FALSE]
Shows(what) == [what |-> what, token |-> 0]
SetupCode(t) == [what |-> "setup code", token |-> t]
Blank == Shows("none")

\* run_with_config, on a unit without an owner: the setup window opens.
Init ==
    /\ owner = "none" /\ first = "none" /\ saving = "none"
    /\ window = [token |-> 1, wrong |-> 0] /\ tokens = 1
    /\ press = NoPress /\ fpView = FALSE
    /\ over = SetupCode(1)
    /\ pressTask = FALSE /\ pending = <<>> /\ terminal = <<>> /\ banner = 0

-----------------------------------------------------------------------------
(* The setup window.  The lock of the trusted devices is held while a      *)
(* claim is saved, so what asks whether the unit is owned waits.           *)

Unowned == owner = "none" /\ saving = "none"

\* open_setup_window: a window that is open keeps its token, and the code is
\* shown again; an owned unit refuses.
OpenSetupWindow ==
    /\ saving = "none"
    /\ \/ owner # "none" /\ UNCHANGED <<window, tokens, over>>
       \/ /\ owner = "none" /\ window.token # 0
          /\ over' = SetupCode(window.token) /\ UNCHANGED <<window, tokens>>
       \/ /\ owner = "none" /\ window.token = 0 /\ tokens < MaxTokens
          /\ tokens' = tokens + 1
          /\ window' = [token |-> tokens', wrong |-> 0]
          /\ over' = SetupCode(tokens')

\* button_pressed, the task a press of the button spawns: a press request that
\* waits is approved; else an open window has the certificate's fingerprint
\* shown for a while, unless it is there already; else the window opens.
ButtonPressed ==
    /\ pressTask
    /\ pressTask' = FALSE
    /\ IF press.fresh /\ ~press.approved
       THEN /\ press' = [press EXCEPT !.approved = TRUE]
            /\ over' = Shows("continue")
            /\ UNCHANGED <<window, tokens, fpView>>
       ELSE /\ IF window.token # 0 /\ ~fpView
               THEN over' = Shows("fingerprint") /\ fpView' = TRUE /\ UNCHANGED <<window, tokens>>
               ELSE OpenSetupWindow /\ UNCHANGED fpView
            /\ UNCHANGED press
    /\ UNCHANGED <<owner, first, saving, stepVars>>

\* A slip: the view shows again what it covered.
FingerprintEndsBlindly ==
    /\ fpView
    /\ fpView' = FALSE
    /\ over' = SetupCode(tokens)
    /\ UNCHANGED <<owner, first, saving, window, tokens, press, pressTask, stepVars>>

\* The task show_fingerprint leaves behind: the code comes back if its window
\* is still open.
FingerprintEnds ==
    /\ fpView
    /\ fpView' = FALSE
    /\ over' = IF window.token # 0 THEN SetupCode(window.token) ELSE over
    /\ UNCHANGED <<owner, first, saving, window, tokens, press, pressTask, stepVars>>

\* request_press: one at a time, and only while the unit has no owner.
RequestPress(b) ==
    /\ Unowned /\ ~press.fresh
    /\ press' = [who |-> b, fresh |-> TRUE, approved |-> FALSE]
    /\ over' = Shows("press the button")
    /\ UNCHANGED <<owner, first, saving, window, tokens, fpView, pressTask, stepVars>>

\* A press request no longer keeps others out, or its approval ends.
PressLapses ==
    /\ press.who # None
    /\ press' = IF press.fresh /\ press.approved THEN [press EXCEPT !.fresh = FALSE]
                                                 ELSE NoPress
    /\ UNCHANGED <<owner, first, saving, window, tokens, fpView, over, pressTask, stepVars>>

WindowLapses ==
    /\ window.token # 0
    /\ window' = Closed
    /\ UNCHANGED <<owner, first, saving, tokens, press, fpView, over, pressTask, stepVars>>

OverrideLapses ==
    /\ over # Blank
    /\ over' = Blank
    /\ UNCHANGED <<setupVars, stepVars>>

-----------------------------------------------------------------------------
(* Claims.  setup_lock admits one first contact at a time.                 *)

\* check_setup_token: a wrong try is counted, and the last of them closes the
\* window and clears the screen.
WrongToken ==
    IF window.wrong + 1 >= MAX_SETUP_ATTEMPTS
    THEN window' = Closed /\ over' = Blank
    ELSE window' = [window EXCEPT !.wrong = @ + 1] /\ UNCHANGED over

\* complete_setup, with the token somebody read off the screen or typed wrong.
CompleteSetup(token) ==
    /\ first = "none" /\ Unowned /\ window.token # 0
    /\ IF token = window.token
       THEN first' = "token" /\ UNCHANGED <<window, over>>
       ELSE WrongToken /\ UNCHANGED first
    /\ UNCHANGED <<owner, saving, tokens, press, fpView, pressTask, stepVars>>

\* complete_setup_by_press: the button was pressed for this browser's request.
CompleteSetupByPress(b) ==
    /\ first = "none" /\ Unowned /\ press.who = b /\ press.approved
    /\ first' = "press"
    /\ UNCHANGED <<owner, saving, window, tokens, press, fpView, over, pressTask, stepVars>>

\* finish_setup, with the lock: refused if the unit got an owner meanwhile.
FinishSetup ==
    /\ first # "none" /\ saving = "none"
    /\ first' = "none"
    /\ saving' = IF owner = "none" THEN first ELSE "none"
    /\ owner' = IF owner = "none" THEN "memory" ELSE owner
    /\ UNCHANGED <<window, tokens, press, fpView, over, pressTask, stepVars>>

\* pair_with_account on a unit of any kind, pair_with_passphrase on an owned one.
PairOtherwise ==
    /\ saving = "none"
    /\ saving' = "other"
    /\ owner' = IF owner = "none" THEN "memory" ELSE owner
    /\ UNCHANGED <<first, window, tokens, press, fpView, over, pressTask, stepVars>>

\* close_setup_window also clears the screen, whatever is on it.
CloseSetupWindow == window' = Closed /\ over' = Blank

\* The save is done, and the owner is told.
ClaimSaved ==
    /\ saving # "none"
    /\ saving' = "none" /\ owner' = "told"
    /\ CloseSetupWindow
    /\ press' = IF saving = "press" THEN NoPress ELSE press
    /\ UNCHANGED <<first, tokens, fpView, pressTask, stepVars>>

\* The save fails, or the client hangs up: the window stays as it is.
ClaimFails ==
    /\ saving # "none"
    /\ saving' = "none"
    /\ UNCHANGED <<owner, first, window, tokens, press, fpView, over, pressTask, stepVars>>

\* The daemon stops and starts: an owner who was told is still there, one who
\* was not may be; the window opens on a unit that has none.
Restart(after) ==
    /\ (owner = "told") = (after = "told")
    /\ owner = "none" => after = "none"
    /\ owner' = after
    /\ first' = "none" /\ saving' = "none" /\ press' = NoPress /\ fpView' = FALSE
    /\ IF after = "none"
       THEN /\ tokens < MaxTokens
            /\ tokens' = tokens + 1
            /\ window' = [token |-> tokens', wrong |-> 0] /\ over' = SetupCode(tokens')
       ELSE window' = Closed /\ over' = Blank /\ UNCHANGED tokens
    /\ pressTask' = FALSE /\ pending' = <<>> /\ terminal' = <<>> /\ banner' = 0

-----------------------------------------------------------------------------
(* The terminal's second gate.                                             *)

Put(f, b, v) == [x \in DOMAIN f \cup {b} |-> IF x = b THEN v ELSE f[x]]
Drop(f, b) == [x \in DOMAIN f \ {b} |-> f[x]]

\* Window::expires_at, from now.
Left(w) == IF HARD_CAP - w.age < WINDOW - w.idle THEN HARD_CAP - w.age ELSE WINDOW - w.idle
Live(windows) == {b \in DOMAIN windows : Left(windows[b]) > 0}

\* A slip: the line stays up as long as the window that was touched last.
RefreshBannerFor(windows) ==
    /\ terminal' = [b \in Live(windows) |-> windows[b]]
    /\ banner' = IF Live(windows) = {} THEN 0
                 ELSE LET b == CHOOSE b \in Live(windows) :
                                \A c \in Live(windows) : windows[b].idle <= windows[c].idle
                      IN Left(windows[b])

\* refresh_banner: windows that ended are dropped, and the line stays up as long
\* as the longest of the others.
RefreshBanner(windows) ==
    /\ terminal' = [b \in Live(windows) |-> windows[b]]
    /\ banner' = Max({0} \cup {Left(windows[b]) : b \in Live(windows)})

\* A map by browser: each waits at most once.
Waiting(b) == {p \in Range(pending) : p.who = b}
Without(b) ==
    LET at == CHOOSE i \in DOMAIN pending : pending[i].who = b
    IN IF Waiting(b) = {} THEN pending
       ELSE [i \in 1..(Len(pending) - 1) |-> pending[IF i < at THEN i ELSE i + 1]]

\* stepup_start: the passphrase was right, and a fresh code goes on the screen.
StartStepUp(b) ==
    /\ owner # "none"
    /\ pending' = Append(Without(b), [who |-> b, wrong |-> 0])
    /\ over' = Shows("terminal code")
    /\ UNCHANGED <<setupVars, terminal, banner>>

\* A code waited too long: the oldest goes first.
CodeLapses ==
    /\ pending # <<>>
    /\ pending' = Tail(pending)
    /\ UNCHANGED <<setupVars, over, terminal, banner>>

\* open_window: what is on the screen is taken down, and the line goes up.
OpenWindow(b) ==
    /\ pending' = Without(b)
    /\ RefreshBanner(Put(terminal, b, [age |-> 0, idle |-> 0]))
    /\ over' = Blank

\* confirm: wrong codes are counted, and the last of them ends the attempt.
Confirm(b, right) ==
    /\ Waiting(b) # {}
    /\ IF right THEN OpenWindow(b)
       ELSE /\ pending' = IF \E p \in Waiting(b) : p.wrong + 1 >= MAX_WRONG THEN Without(b)
                          ELSE [i \in DOMAIN pending |->
                                  IF pending[i].who = b
                                  THEN [pending[i] EXCEPT !.wrong = @ + 1] ELSE pending[i]]
            /\ UNCHANGED <<over, terminal, banner>>
    /\ UNCHANGED setupVars

\* A press of the button (run_key_input_thread): it confirms the newest step-up,
\* and a task is spawned that tells the setup side.
KeyUp ==
    /\ ~pressTask
    /\ pressTask' = TRUE
    /\ IF pending # <<>> THEN OpenWindow(pending[Len(pending)].who)
                         ELSE UNCHANGED <<pending, terminal, banner, over>>
    /\ UNCHANGED <<owner, first, saving, window, tokens, press, fpView>>

\* run_terminal_command: active, which drops a window that ended, and extend.
Command(b) ==
    /\ b \in DOMAIN terminal
    /\ RefreshBanner(IF b \in Live(terminal) THEN [terminal EXCEPT ![b].idle = 0]
                     ELSE Drop(terminal, b))
    /\ UNCHANGED <<setupVars, over, pending>>

End(b) ==
    /\ b \in DOMAIN terminal
    /\ RefreshBanner(Drop(terminal, b))
    /\ UNCHANGED <<setupVars, over, pending>>

\* Time for the terminal's windows.
Tick ==
    /\ terminal # <<>>
    /\ terminal' = [b \in DOMAIN terminal |->
          [age |-> IF terminal[b].age < HARD_CAP THEN terminal[b].age + 1 ELSE HARD_CAP,
           idle |-> IF terminal[b].idle < WINDOW THEN terminal[b].idle + 1 ELSE WINDOW]]
    /\ banner' = IF banner > 0 THEN banner - 1 ELSE 0
    /\ UNCHANGED <<setupVars, over, pending>>

Next ==
    \/ ButtonPressed \/ FingerprintEnds \/ PressLapses \/ WindowLapses \/ OverrideLapses
    \/ FinishSetup \/ PairOtherwise \/ ClaimSaved \/ ClaimFails
    \/ \E t \in 0..tokens : CompleteSetup(t)
    \/ \E after \in {"none", "memory", "told"} : Restart(after)
    \/ CodeLapses \/ KeyUp \/ Tick
    \/ \E b \in Browsers :
          \/ RequestPress(b) \/ CompleteSetupByPress(b)
          \/ StartStepUp(b) \/ Command(b) \/ End(b)
          \/ \E right \in BOOLEAN : Confirm(b, right)

Spec == Init /\ [][Next]_vars

-----------------------------------------------------------------------------
\* "from then on the code never appears" (open_setup_window): once somebody was
\* told the unit is theirs no window is open and no setup code is on the
\* screen, though a fingerprint view, a press or another claim was under way;
\* and the code on the screen is always the open window's.
SetupCodeIsTrue ==
    /\ owner = "told" => window.token = 0 /\ over.what # "setup code"
    /\ over.what = "setup code" /\ window.token # 0 => over.token = window.token

\* What the screen, the window and the claims hold fits together.
ScreenInv == TypeOK /\ SetupCodeIsTrue

\* "While any window is open the screen says so" (stepup.rs): the line is due
\* to stay up exactly as long as the longest of the terminal's windows,
\* whatever windows were opened, used, ended or lapsed in between.
BannerTellsWindows == banner = Max({0} \cup {Left(terminal[b]) : b \in DOMAIN terminal})
=============================================================================
