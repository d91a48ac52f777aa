------------------------- MODULE ScreenAlertProofs -------------------------
(***************************************************************************)
(* Proofs about the two ways in which the unit reaches its owner: the      *)
(* screen (Screen), for any set of browsers and every limit, and the       *)
(* notification worker (Notifications), for every set of kinds and types,  *)
(* every debounce period and every channel.  The two share no state.       *)
(*                                                                         *)
(* What the screen shows of setup and what it says of the terminal touch   *)
(* different state, so each has its own invariant; both need the types.    *)
(* The line's is about a maximum: it exists because a window has at most   *)
(* WINDOW ticks left, however many browsers there are.  The worker's is    *)
(* about detections, which keep their distance.                            *)
(***************************************************************************)
EXTENDS Screen, Notifications, WellFoundedInduction, TLAPS

PendingCode == [who: Browsers, wrong: 0..(MAX_WRONG - 1)]
WindowAges == [age: 0..HARD_CAP, idle: 0..WINDOW]

\* The terminal's part of the types.
StepTyped ==
    /\ pending \in Seq(PendingCode)
    /\ DOMAIN terminal \subseteq Browsers
    /\ \A b \in DOMAIN terminal : terminal[b] \in WindowAges
    /\ banner \in 0..WINDOW

\* The setup side's part.
SetupTyped ==
    /\ owner \in {"none", "memory", "told"}
    /\ first \in {"none", "token", "press"}
    /\ saving \in {"none", "token", "press", "other"}
    /\ window \in [token: 0..MaxTokens, wrong: 0..(MAX_SETUP_ATTEMPTS - 1)]
    /\ tokens \in 0..MaxTokens
    /\ press \in [who: Browsers \cup {None}, fresh: BOOLEAN, approved: BOOLEAN]
    /\ fpView \in BOOLEAN
    /\ over \in [what: Shown, token: 0..MaxTokens]
    /\ pressTask \in BOOLEAN

\* The types are those of the two sides.
LEMMA TypeOKSplit == TypeOK <=> SetupTyped /\ StepTyped
  BY DEF TypeOK, SetupTyped, StepTyped, PendingCode, WindowAges

-----------------------------------------------------------------------------
(* The greatest of a set of numbers.                                       *)

\* A nonempty set of natural numbers with a bound has a greatest member.
LEMMA GreatestBounded ==
    ASSUME NEW n \in Nat, NEW S \in SUBSET (0..n), S # {}
    PROVE  \E x \in S : \A y \in S : x >= y
<1> DEFINE T == {n - x : x \in S}
           R == OpToRel(<, Nat)
<1>1. \A x \in S : x \in Nat /\ n - x \in Nat
  OBVIOUS
<1>2. T \subseteq Nat /\ T # {}
  BY <1>1
<1>3. \E t \in T : \A u \in T : ~ (<<u, t>> \in R)
  <2>1. IsWellFoundedOn(R, Nat)
    BY NatLessThanWellFounded
  <2> HIDE DEF R, T
  <2> QED BY <1>2, <2>1, WFMin
<1>4. \A t, u \in Nat : ~ (<<u, t>> \in R) => t <= u
  BY DEF OpToRel
<1>5. PICK t \in T : \A u \in T : t <= u
  <2> HIDE DEF R, T
  <2> QED BY <1>2, <1>3, <1>4
<1>6. PICK x \in S : t = n - x
  BY <1>5
<1>7. ASSUME NEW y \in S PROVE x >= y
  <2>1. n - y \in T
    OBVIOUS
  <2>2. n - x <= n - y
    BY <1>5, <1>6, <2>1
  <2> QED BY <1>1, <2>2
<1> QED BY <1>7

\* Max of such a set is its greatest member, and the only one.
LEMMA MaxIs ==
    ASSUME NEW n \in Nat, NEW S \in SUBSET (0..n), S # {}
    PROVE  /\ Max(S) \in S /\ \A y \in S : Max(S) >= y
           /\ \A x \in S : (\A y \in S : x >= y) => x = Max(S)
<1>1. Max(S) \in S /\ \A y \in S : Max(S) >= y
  <2>1. \E x \in S : \A y \in S : x >= y
    BY GreatestBounded
  <2> QED BY <2>1, Zenon DEF Max
<1>2. ASSUME NEW x \in S, \A y \in S : x >= y PROVE x = Max(S)
  <2>1. x >= Max(S) /\ Max(S) >= x
    BY <1>1, <1>2
  <2>2. x \in Int /\ Max(S) \in Int
    <3>1. \A y \in S : y \in Int
      OBVIOUS
    <3> QED BY <1>1, <3>1
  <2> QED BY <2>1, <2>2
<1> QED BY <1>1, <1>2

\* What is left of a window is a number of ticks, at most WINDOW.
LEMMA LeftTyped ==
    ASSUME NEW w \in WindowAges
    PROVE  Left(w) \in 0..WINDOW
  BY TimesAssumption DEF Left, WindowAges

\* The ticks left of some windows.
Times(windows) == {0} \cup {Left(windows[b]) : b \in DOMAIN windows}

\* They are a bounded set.
LEMMA TimesBounded ==
    ASSUME NEW windows, \A b \in DOMAIN windows : windows[b] \in WindowAges
    PROVE  Times(windows) \in SUBSET (0..WINDOW) /\ Times(windows) # {}
  BY LeftTyped, TimesAssumption DEF Times

-----------------------------------------------------------------------------
(* The terminal.                                                           *)

\* refresh_banner leaves the line with the windows that are live.
LEMMA RefreshBannerTells ==
    ASSUME NEW windows, DOMAIN windows \subseteq Browsers,
           \A b \in DOMAIN windows : windows[b] \in WindowAges, RefreshBanner(windows)
    PROVE  /\ DOMAIN terminal' \subseteq Browsers
           /\ \A b \in DOMAIN terminal' : terminal'[b] \in WindowAges
           /\ banner' \in 0..WINDOW
           /\ BannerTellsWindows'
<1>1. /\ DOMAIN terminal' = Live(windows) /\ Live(windows) \subseteq DOMAIN windows
      /\ \A b \in Live(windows) : terminal'[b] = windows[b]
  BY DEF RefreshBanner, Live
<1>2. {Left(windows[b]) : b \in Live(windows)} = {Left(terminal'[b]) : b \in DOMAIN terminal'}
  BY <1>1
<1>3. banner' = Max(Times(terminal'))
  BY <1>2 DEF RefreshBanner, Times
<1>4. \A b \in DOMAIN terminal' : terminal'[b] \in WindowAges
  BY <1>1
<1>5. Max(Times(terminal')) \in 0..WINDOW
  <2>1. Times(terminal') \in SUBSET (0..WINDOW) /\ Times(terminal') # {}
    BY <1>4, TimesBounded
  <2>2. Max(Times(terminal')) \in Times(terminal')
    BY <2>1, MaxIs, TimesAssumption
  <2> QED BY <2>1, <2>2
<1>6. BannerTellsWindows'
  BY <1>3 DEF BannerTellsWindows, Times, Left
<1> QED BY <1>1, <1>3, <1>4, <1>5, <1>6

\* A browser's attempt is taken out of the ones that wait.
LEMMA WithoutTyped ==
    ASSUME StepTyped, NEW b \in Browsers
    PROVE  Without(b) \in Seq(PendingCode)
<1>1. CASE Waiting(b) = {}
  BY <1>1 DEF Without, StepTyped
<1>2. CASE Waiting(b) # {}
  <2> DEFINE at == CHOOSE i \in DOMAIN pending : pending[i].who = b
             t == [i \in 1..(Len(pending) - 1) |-> pending[IF i < at THEN i ELSE i + 1]]
  <2>1. \E i \in DOMAIN pending : pending[i].who = b
    BY <1>2 DEF Waiting, Range
  <2>2. at \in DOMAIN pending
    BY <2>1
  <2> HIDE DEF at
  <2>3. /\ Len(pending) \in Nat /\ DOMAIN pending = 1..Len(pending)
        /\ \A i \in DOMAIN pending : pending[i] \in PendingCode
    BY DEF StepTyped
  <2>4. \A i \in 1..(Len(pending) - 1) : t[i] \in PendingCode
    BY <2>2, <2>3
  <2>5. t \in Seq(PendingCode)
    BY <2>2, <2>3, <2>4
  <2> QED BY <1>2, <2>5 DEF Without, at
<1> QED BY <1>1, <1>2

\* The line and the windows fit together.
TerminalInv == StepTyped /\ BannerTellsWindows

\* open_window, for the browser that brought the code or for the button.
LEMMA OpenWindowTells ==
    ASSUME TerminalInv, NEW b \in Browsers, OpenWindow(b)
    PROVE  TerminalInv'
<1> DEFINE windows == Put(terminal, b, [age |-> 0, idle |-> 0])
<1>1. [age |-> 0, idle |-> 0] \in WindowAges
  BY TimesAssumption DEF WindowAges
<1>2. DOMAIN windows \subseteq Browsers /\ \A x \in DOMAIN windows : windows[x] \in WindowAges
  BY <1>1 DEF TerminalInv, StepTyped, Put
<1>3. RefreshBanner(windows) /\ pending' = Without(b)
  BY DEF OpenWindow
<1> HIDE DEF windows
<1>4. pending' \in Seq(PendingCode)
  BY <1>3, WithoutTyped DEF TerminalInv
<1> QED BY <1>2, <1>3, <1>4, RefreshBannerTells DEF TerminalInv, StepTyped

\* A tick takes one from what is left of every window that is live, and from the
\* line.
LEMMA TickTells ==
    ASSUME TerminalInv, Tick
    PROVE  TerminalInv'
<1>1. /\ DOMAIN terminal' = DOMAIN terminal
      /\ \A b \in DOMAIN terminal : terminal'[b] =
            [age |-> IF terminal[b].age < HARD_CAP THEN terminal[b].age + 1 ELSE HARD_CAP,
             idle |-> IF terminal[b].idle < WINDOW THEN terminal[b].idle + 1 ELSE WINDOW]
      /\ banner' = IF banner > 0 THEN banner - 1 ELSE 0
      /\ pending' = pending
  BY DEF Tick
<1>2. ASSUME NEW b \in DOMAIN terminal
      PROVE  /\ terminal'[b] \in WindowAges
             /\ Left(terminal'[b]) = IF Left(terminal[b]) > 0 THEN Left(terminal[b]) - 1
                                                           ELSE 0
  <2>1. terminal[b] \in WindowAges
    BY DEF TerminalInv, StepTyped
  <2>2. terminal'[b].age \in 0..HARD_CAP /\ terminal'[b].idle \in 0..WINDOW
        /\ terminal'[b] \in WindowAges
    BY <1>1, <2>1, TimesAssumption DEF WindowAges
  <2>3. /\ terminal'[b].age = IF terminal[b].age < HARD_CAP THEN terminal[b].age + 1
                                                           ELSE HARD_CAP
        /\ terminal'[b].idle = IF terminal[b].idle < WINDOW THEN terminal[b].idle + 1
                                                           ELSE WINDOW
    BY <1>1
  <2> QED BY <2>1, <2>2, <2>3, TimesAssumption DEF Left, WindowAges
<1>3. /\ Times(terminal) \in SUBSET (0..WINDOW) /\ Times(terminal) # {}
      /\ Times(terminal') \in SUBSET (0..WINDOW) /\ Times(terminal') # {}
  BY <1>1, <1>2, TimesBounded DEF TerminalInv, StepTyped
<1>4. banner \in Times(terminal) /\ \A y \in Times(terminal) : banner >= y
  <2>1. banner = Max(Times(terminal))
    BY DEF TerminalInv, BannerTellsWindows, Times
  <2> QED BY <2>1, <1>3, MaxIs, TimesAssumption
<1>5. banner \in 0..WINDOW /\ banner' \in 0..WINDOW
  BY <1>1, TimesAssumption DEF TerminalInv, StepTyped
<1>6. banner' \in Times(terminal')
  BY <1>1, <1>2, <1>4, <1>5 DEF Times
<1>7. ASSUME NEW y \in Times(terminal') PROVE banner' >= y
  <2>1. CASE y = 0
    BY <1>5, <2>1, TimesAssumption
  <2>2. CASE y # 0
    <3>1. PICK b \in DOMAIN terminal : y = Left(terminal'[b])
      BY <1>1, <2>2 DEF Times
    <3>2. Left(terminal[b]) \in 0..WINDOW
      BY LeftTyped DEF TerminalInv, StepTyped
    <3>3. Left(terminal[b]) > 0 /\ y = Left(terminal[b]) - 1
      BY <1>2, <2>2, <3>1, <3>2
    <3>4. banner >= Left(terminal[b])
      BY <1>4 DEF Times
    <3> QED BY <1>1, <1>5, <3>2, <3>3, <3>4, TimesAssumption
  <2> QED BY <2>1, <2>2
<1>8. banner' = Max(Times(terminal'))
  BY <1>3, <1>6, <1>7, MaxIs, TimesAssumption
<1> QED
  BY <1>1, <1>2, <1>5, <1>8 DEF TerminalInv, StepTyped, BannerTellsWindows, Times, Left

\* Confirming, commands, ends and lapses keep the line with the windows.
LEMMA TerminalStepTells ==
    ASSUME TerminalInv, NEW b \in Browsers,
           \/ StartStepUp(b) \/ Command(b) \/ End(b)
           \/ \E right \in BOOLEAN : Confirm(b, right)
    PROVE  TerminalInv'
<1>1. /\ pending \in Seq(PendingCode) /\ DOMAIN terminal \subseteq Browsers
      /\ \A x \in DOMAIN terminal : terminal[x] \in WindowAges
      /\ Without(b) \in Seq(PendingCode)
  BY WithoutTyped DEF TerminalInv, StepTyped
<1>2. CASE StartStepUp(b)
  <2>1. pending' \in Seq(PendingCode)
    <3>1. [who |-> b, wrong |-> 0] \in PendingCode
      BY TimesAssumption DEF PendingCode
    <3>2. \A t \in Seq(PendingCode), p \in PendingCode : Append(t, p) \in Seq(PendingCode)
      OBVIOUS
    <3> QED BY <1>1, <1>2, <3>1, <3>2 DEF StartStepUp
  <2>2. UNCHANGED <<terminal, banner>>
    BY <1>2 DEF StartStepUp
  <2> QED BY <2>1, <2>2 DEF TerminalInv, StepTyped, BannerTellsWindows, Left
<1>3. ASSUME NEW windows, DOMAIN windows \subseteq DOMAIN terminal,
             \A x \in DOMAIN windows : windows[x] \in WindowAges,
             RefreshBanner(windows), UNCHANGED pending
      PROVE  TerminalInv'
  <2>1. DOMAIN windows \subseteq Browsers
    BY <1>1, <1>3
  <2> QED BY <1>1, <1>3, <2>1, RefreshBannerTells DEF TerminalInv, StepTyped
<1>4. DOMAIN Drop(terminal, b) \subseteq DOMAIN terminal
      /\ \A x \in DOMAIN Drop(terminal, b) : Drop(terminal, b)[x] \in WindowAges
  BY <1>1 DEF Drop
<1>5. CASE Command(b)
  <2>1. CASE b \in Live(terminal)
    <3> DEFINE windows == [terminal EXCEPT ![b].idle = 0]
    <3>1. [terminal[b] EXCEPT !.idle = 0] \in WindowAges
      BY <1>1, <1>5, TimesAssumption DEF Command, WindowAges
    <3>2. /\ DOMAIN windows = DOMAIN terminal
          /\ \A x \in DOMAIN windows : windows[x] \in WindowAges
      BY <1>1, <1>5, <3>1 DEF Command
    <3>3. RefreshBanner(windows) /\ UNCHANGED pending
      BY <1>5, <2>1 DEF Command
    <3> HIDE DEF windows
    <3> QED BY <1>3, <3>2, <3>3
  <2>2. CASE b \notin Live(terminal)
    <3>1. RefreshBanner(Drop(terminal, b)) /\ UNCHANGED pending
      BY <1>5, <2>2 DEF Command
    <3> QED BY <1>3, <1>4, <3>1
  <2> QED BY <2>1, <2>2
<1>6. CASE End(b)
  <2>1. RefreshBanner(Drop(terminal, b)) /\ UNCHANGED pending
    BY <1>6 DEF End
  <2> QED BY <1>3, <1>4, <2>1
<1>7. ASSUME NEW right \in BOOLEAN, Confirm(b, right)
      PROVE  TerminalInv'
  <2>1. CASE right
    BY <1>7, <2>1, OpenWindowTells DEF Confirm
  <2>2. CASE ~right
    <3>1. /\ UNCHANGED <<terminal, banner>>
          /\ pending' = IF \E p \in Waiting(b) : p.wrong + 1 >= MAX_WRONG THEN Without(b)
                        ELSE [i \in DOMAIN pending |->
                                IF pending[i].who = b
                                THEN [pending[i] EXCEPT !.wrong = @ + 1] ELSE pending[i]]
      BY <1>7, <2>2 DEF Confirm
    <3>2. pending' \in Seq(PendingCode)
      <4>1. CASE \E p \in Waiting(b) : p.wrong + 1 >= MAX_WRONG
        BY <1>1, <3>1, <4>1
      <4>2. CASE ~\E p \in Waiting(b) : p.wrong + 1 >= MAX_WRONG
        <5> DEFINE t == [i \in DOMAIN pending |->
                           IF pending[i].who = b
                           THEN [pending[i] EXCEPT !.wrong = @ + 1] ELSE pending[i]]
        <5>1. \A i \in DOMAIN pending : pending[i] \in PendingCode
          BY <1>1
        <5>2. ASSUME NEW i \in DOMAIN pending PROVE t[i] \in PendingCode
          <6>1. CASE pending[i].who = b
            <7>1. ~(pending[i].wrong + 1 >= MAX_WRONG)
              BY <4>2, <6>1 DEF Waiting, Range
            <7> QED BY <5>1, <6>1, <7>1, TimesAssumption DEF PendingCode
          <6>2. CASE pending[i].who # b
            BY <5>1, <6>2
          <6> QED BY <6>1, <6>2
        <5>3. t \in Seq(PendingCode)
          <6>1. DOMAIN pending = 1..Len(pending) /\ Len(pending) \in Nat
            BY <1>1
          <6> QED BY <5>2, <6>1
        <5> QED BY <3>1, <4>2, <5>3
      <4> QED BY <4>1, <4>2
    <3> QED BY <3>1, <3>2 DEF TerminalInv, StepTyped, BannerTellsWindows, Left
  <2> QED BY <2>1, <2>2
<1> QED BY <1>2, <1>5, <1>6, <1>7

\* Every step keeps the line with the windows.
LEMMA NextTerminal == TerminalInv /\ [Next]_vars => TerminalInv'
<1> SUFFICES ASSUME TerminalInv, [Next]_vars PROVE TerminalInv'
  OBVIOUS
<1>1. CASE UNCHANGED stepVars
  BY <1>1 DEF stepVars, TerminalInv, StepTyped, BannerTellsWindows, Left
<1>2. ASSUME NEW after, Restart(after) PROVE TerminalInv'
  <2>1. pending' = <<>> /\ terminal' = <<>> /\ banner' = 0
    BY <1>2 DEF Restart
  <2>2. DOMAIN terminal' = {}
    BY <2>1
  <2>3. Times(terminal') = {0}
    BY <2>2 DEF Times
  <2>4. Max({0}) = 0
    BY MaxIs, TimesAssumption
  <2>5. BannerTellsWindows'
    BY <2>1, <2>3, <2>4 DEF BannerTellsWindows, Times, Left
  <2> QED BY <2>1, <2>2, <2>5, TimesAssumption DEF TerminalInv, StepTyped
<1>3. CASE CodeLapses
  <2>1. pending' \in Seq(PendingCode)
    BY <1>3 DEF CodeLapses, TerminalInv, StepTyped
  <2> QED
    BY <1>3, <2>1 DEF CodeLapses, TerminalInv, StepTyped, BannerTellsWindows, Left
<1>4. CASE KeyUp
  <2>1. CASE pending # <<>>
    <3>1. pending[Len(pending)].who \in Browsers
      <4>1. pending \in Seq(PendingCode)
        BY DEF TerminalInv, StepTyped
      <4>2. Len(pending) \in DOMAIN pending
        BY <2>1, <4>1
      <4>3. pending[Len(pending)] \in PendingCode
        BY <4>1, <4>2
      <4> QED BY <4>3 DEF PendingCode
    <3> QED BY <1>4, <2>1, <3>1, OpenWindowTells DEF KeyUp
  <2>2. CASE pending = <<>>
    BY <1>1, <1>4, <2>2 DEF KeyUp, stepVars
  <2> QED BY <2>1, <2>2
<1>5. CASE Tick
  BY <1>5, TickTells
<1>6. ASSUME NEW b \in Browsers,
             \/ StartStepUp(b) \/ Command(b) \/ End(b)
             \/ \E right \in BOOLEAN : Confirm(b, right)
      PROVE  TerminalInv'
  BY <1>6, TerminalStepTells
<1>7. ASSUME \/ ButtonPressed \/ FingerprintEnds \/ PressLapses \/ WindowLapses
             \/ OverrideLapses \/ FinishSetup \/ PairOtherwise \/ ClaimSaved \/ ClaimFails
             \/ \E t \in 0..tokens : CompleteSetup(t)
             \/ \E b \in Browsers : RequestPress(b) \/ CompleteSetupByPress(b)
      PROVE  TerminalInv'
  BY <1>1, <1>7 DEF ButtonPressed, FingerprintEnds, PressLapses, WindowLapses,
       OverrideLapses, FinishSetup, PairOtherwise, ClaimSaved, ClaimFails, CompleteSetup,
       RequestPress, CompleteSetupByPress
<1> QED
  BY <1>1, <1>2, <1>3, <1>4, <1>5, <1>6, <1>7 DEF Next, vars, stepVars

-----------------------------------------------------------------------------
(* The setup side.                                                         *)

\* What the screen shows of setup.
SetupInv == SetupTyped /\ SetupCodeIsTrue

\* What may be shown.
LEMMA ShowsTyped ==
    /\ \A w \in Shown : Shows(w) \in [what: Shown, token: 0..MaxTokens] /\ Shows(w).what = w
    /\ Blank \in [what: Shown, token: 0..MaxTokens] /\ Blank.what # "setup code"
    /\ \A t \in 0..MaxTokens : /\ SetupCode(t) \in [what: Shown, token: 0..MaxTokens]
                              /\ SetupCode(t).token = t
    /\ Closed \in [token: 0..MaxTokens, wrong: 0..(MAX_SETUP_ATTEMPTS - 1)]
    /\ Closed.token = 0
    /\ NoPress \in [who: Browsers \cup {None}, fresh: BOOLEAN, approved: BOOLEAN]
  BY TimesAssumption DEF Shows, SetupCode, Blank, Shown, Closed, NoPress

\* open_setup_window: the code that comes up is the open window's.
LEMMA OpenSetupWindowTrue ==
    ASSUME SetupInv, OpenSetupWindow
    PROVE  /\ window' \in [token: 0..MaxTokens, wrong: 0..(MAX_SETUP_ATTEMPTS - 1)]
           /\ tokens' \in 0..MaxTokens
           /\ over' \in [what: Shown, token: 0..MaxTokens]
           /\ owner = "told" => window'.token = 0 /\ over'.what # "setup code"
           /\ over'.what = "setup code" /\ window'.token # 0 => over'.token = window'.token
<1>1. saving = "none"
  BY DEF OpenSetupWindow
<1>2. CASE owner # "none"
  BY <1>1, <1>2 DEF OpenSetupWindow, SetupInv, SetupTyped, SetupCodeIsTrue
<1>3. CASE owner = "none" /\ window.token # 0
  <2>1. over' = SetupCode(window.token) /\ UNCHANGED <<window, tokens>>
    BY <1>3 DEF OpenSetupWindow
  <2>2. /\ window \in [token: 0..MaxTokens, wrong: 0..(MAX_SETUP_ATTEMPTS - 1)]
        /\ window.token \in 0..MaxTokens /\ tokens \in 0..MaxTokens
    BY DEF SetupInv, SetupTyped
  <2>3. /\ SetupCode(window.token) \in [what: Shown, token: 0..MaxTokens]
        /\ SetupCode(window.token).token = window.token
    BY <2>2, ShowsTyped
  <2> QED BY <1>3, <2>1, <2>2, <2>3
<1>4. CASE owner = "none" /\ window.token = 0
  <2>1. /\ tokens' = tokens + 1 /\ tokens' \in 0..MaxTokens
        /\ window' = [token |-> tokens', wrong |-> 0] /\ over' = SetupCode(tokens')
    BY <1>1, <1>4, TimesAssumption DEF OpenSetupWindow, SetupInv, SetupTyped
  <2>2. /\ SetupCode(tokens') \in [what: Shown, token: 0..MaxTokens]
        /\ SetupCode(tokens').token = tokens'
    BY <2>1, ShowsTyped
  <2>3. /\ window' \in [token: 0..MaxTokens, wrong: 0..(MAX_SETUP_ATTEMPTS - 1)]
        /\ window'.token = tokens'
    BY <2>1, TimesAssumption
  <2> QED BY <1>4, <2>1, <2>2, <2>3
<1> QED BY <1>2, <1>3, <1>4

\* What the setup side does keeps the code true.
LEMMA SetupStepTrue ==
    ASSUME SetupInv,
           \/ ButtonPressed \/ FingerprintEnds \/ PressLapses \/ WindowLapses
           \/ \E t \in 0..tokens : CompleteSetup(t)
           \/ \E b \in Browsers : RequestPress(b) \/ CompleteSetupByPress(b)
    PROVE  SetupInv'
<1> USE DEF SetupInv, SetupTyped
<1>1. /\ owner = "told" => window.token = 0 /\ over.what # "setup code"
      /\ over.what = "setup code" /\ window.token # 0 => over.token = window.token
  BY DEF SetupCodeIsTrue
<1>2. CASE ButtonPressed
  <2>1. /\ UNCHANGED <<owner, first, saving>> /\ pressTask' = FALSE
    BY <1>2 DEF ButtonPressed
  <2>2. CASE press.fresh /\ ~press.approved
    <3>1. /\ press' = [press EXCEPT !.approved = TRUE] /\ over' = Shows("continue")
          /\ UNCHANGED <<window, tokens, fpView>>
      BY <1>2, <2>2 DEF ButtonPressed
    <3>2. /\ press' \in [who: Browsers \cup {None}, fresh: BOOLEAN, approved: BOOLEAN]
      BY <3>1
    <3>3. over' \in [what: Shown, token: 0..MaxTokens] /\ over'.what = "continue"
      BY <3>1, ShowsTyped DEF Shown
    <3> QED BY <1>1, <2>1, <3>1, <3>2, <3>3 DEF SetupCodeIsTrue
  <2>3. CASE ~(press.fresh /\ ~press.approved) /\ window.token # 0 /\ ~fpView
    <3>1. /\ over' = Shows("fingerprint") /\ fpView' = TRUE
          /\ UNCHANGED <<window, tokens, press>>
      BY <1>2, <2>3 DEF ButtonPressed
    <3>2. over' \in [what: Shown, token: 0..MaxTokens] /\ over'.what = "fingerprint"
      BY <3>1, ShowsTyped DEF Shown
    <3> QED BY <1>1, <2>1, <3>1, <3>2 DEF SetupCodeIsTrue
  <2>4. CASE ~(press.fresh /\ ~press.approved) /\ ~(window.token # 0 /\ ~fpView)
    <3>1. OpenSetupWindow /\ UNCHANGED <<fpView, press>>
      BY <1>2, <2>4 DEF ButtonPressed
    <3> QED BY <2>1, <3>1, OpenSetupWindowTrue DEF SetupCodeIsTrue
  <2> QED BY <2>2, <2>3, <2>4
<1>3. CASE FingerprintEnds
  <2>1. CASE window.token # 0
    <3>1. over' = SetupCode(window.token)
      BY <1>3, <2>1 DEF FingerprintEnds
    <3>2. /\ over' \in [what: Shown, token: 0..MaxTokens] /\ over'.token = window.token
      BY <3>1, ShowsTyped
    <3> QED BY <1>1, <1>3, <2>1, <3>2 DEF FingerprintEnds, SetupCodeIsTrue
  <2>2. CASE window.token = 0
    BY <1>1, <1>3, <2>2 DEF FingerprintEnds, SetupCodeIsTrue
  <2> QED BY <2>1, <2>2
<1>4. CASE PressLapses
  <2>1. press' \in [who: Browsers \cup {None}, fresh: BOOLEAN, approved: BOOLEAN]
    BY <1>4, ShowsTyped DEF PressLapses
  <2> QED BY <1>1, <1>4, <2>1 DEF PressLapses, SetupCodeIsTrue
<1>5. CASE WindowLapses
  BY <1>1, <1>5, ShowsTyped DEF WindowLapses, SetupCodeIsTrue
<1>6. ASSUME NEW t \in 0..tokens, CompleteSetup(t) PROVE SetupInv'
  <2>1. owner = "none" /\ UNCHANGED <<owner, saving, tokens, press, fpView, pressTask>>
    BY <1>6 DEF CompleteSetup, Unowned
  <2>2. CASE t = window.token
    BY <1>1, <1>6, <2>1, <2>2 DEF CompleteSetup, SetupCodeIsTrue
  <2>3. CASE t # window.token
    <3>1. WrongToken /\ UNCHANGED first
      BY <1>6, <2>3 DEF CompleteSetup
    <3>2. CASE window.wrong + 1 >= MAX_SETUP_ATTEMPTS
      BY <2>1, <3>1, <3>2, ShowsTyped DEF WrongToken, SetupCodeIsTrue
    <3>3. CASE ~(window.wrong + 1 >= MAX_SETUP_ATTEMPTS)
      <4>1. window' = [window EXCEPT !.wrong = @ + 1] /\ UNCHANGED over
        BY <3>1, <3>3 DEF WrongToken
      <4>2. /\ window' \in [token: 0..MaxTokens, wrong: 0..(MAX_SETUP_ATTEMPTS - 1)]
            /\ window'.token = window.token
        BY <3>3, <4>1, TimesAssumption
      <4> QED BY <1>1, <2>1, <3>1, <4>1, <4>2 DEF SetupCodeIsTrue
    <3> QED BY <3>2, <3>3
  <2> QED BY <2>2, <2>3
<1>7. ASSUME NEW b \in Browsers, RequestPress(b) PROVE SetupInv'
  <2>1. /\ press' = [who |-> b, fresh |-> TRUE, approved |-> FALSE]
        /\ over' = Shows("press the button") /\ owner = "none"
    BY <1>7 DEF RequestPress, Unowned
  <2>2. press' \in [who: Browsers \cup {None}, fresh: BOOLEAN, approved: BOOLEAN]
    BY <2>1
  <2>3. over' \in [what: Shown, token: 0..MaxTokens] /\ over'.what = "press the button"
    BY <2>1, ShowsTyped DEF Shown
  <2> QED BY <1>7, <2>1, <2>2, <2>3 DEF RequestPress, SetupCodeIsTrue
<1>8. ASSUME NEW b \in Browsers, CompleteSetupByPress(b) PROVE SetupInv'
  BY <1>1, <1>8 DEF CompleteSetupByPress, SetupCodeIsTrue
<1> QED BY <1>2, <1>3, <1>4, <1>5, <1>6, <1>7, <1>8

\* A claim, saved or not, and a restart keep the code true: a saved claim closes
\* the window, one that was not saved leaves it.
LEMMA ClaimTrue ==
    ASSUME SetupInv,
           \/ FinishSetup \/ PairOtherwise \/ ClaimSaved \/ ClaimFails
           \/ \E after \in {"none", "memory", "told"} : Restart(after)
    PROVE  SetupInv'
<1> USE DEF SetupInv, SetupTyped
<1>1. CASE FinishSetup \/ PairOtherwise \/ ClaimFails
  <2>1. UNCHANGED <<window, tokens, press, fpView, over, pressTask>>
    BY <1>1 DEF FinishSetup, PairOtherwise, ClaimFails
  <2>2. /\ first' \in {"none", "token", "press"}
        /\ saving' \in {"none", "token", "press", "other"}
        /\ owner' \in {"none", "memory", "told"} /\ (owner' = "told" => owner = "told")
    BY <1>1 DEF FinishSetup, PairOtherwise, ClaimFails
  <2> QED BY <2>1, <2>2 DEF SetupCodeIsTrue
<1>2. CASE ClaimSaved
  <2>1. press' \in [who: Browsers \cup {None}, fresh: BOOLEAN, approved: BOOLEAN]
    BY <1>2, ShowsTyped DEF ClaimSaved
  <2>2. window' = Closed /\ over' = Blank
    BY <1>2 DEF ClaimSaved, CloseSetupWindow
  <2> QED BY <1>2, <2>1, <2>2, ShowsTyped DEF ClaimSaved, SetupCodeIsTrue
<1>3. ASSUME NEW after \in {"none", "memory", "told"}, Restart(after) PROVE SetupInv'
  <2>1. /\ owner' = after /\ first' = "none" /\ saving' = "none" /\ press' = NoPress
        /\ fpView' = FALSE /\ pressTask' = FALSE
    BY <1>3 DEF Restart
  <2>2. CASE after = "none"
    <3>1. /\ tokens' = tokens + 1 /\ tokens' \in 0..MaxTokens
          /\ window' = [token |-> tokens', wrong |-> 0] /\ over' = SetupCode(tokens')
      BY <1>3, <2>2, TimesAssumption DEF Restart
    <3>2. /\ over' \in [what: Shown, token: 0..MaxTokens] /\ over'.token = tokens'
      BY <3>1, ShowsTyped
    <3>3. /\ window' \in [token: 0..MaxTokens, wrong: 0..(MAX_SETUP_ATTEMPTS - 1)]
          /\ window'.token = tokens'
      BY <3>1, TimesAssumption
    <3> QED BY <2>1, <2>2, <3>1, <3>2, <3>3, ShowsTyped DEF SetupCodeIsTrue
  <2>3. CASE after # "none"
    <3>1. window' = Closed /\ over' = Blank /\ UNCHANGED tokens
      BY <1>3, <2>3 DEF Restart
    <3> QED BY <2>1, <3>1, ShowsTyped DEF SetupCodeIsTrue
  <2> QED BY <2>2, <2>3
<1> QED BY <1>1, <1>2, <1>3

\* The terminal's steps show nothing of setup: they blank the screen or put their
\* own code on it.
LEMMA OverTrue ==
    ASSUME SetupInv,
           UNCHANGED <<owner, first, saving, window, tokens, press, fpView>>,
           pressTask' \in BOOLEAN,
           over' \in {over, Blank, Shows("terminal code")}
    PROVE  SetupInv'
<1>1. /\ Shows("terminal code") \in [what: Shown, token: 0..MaxTokens]
      /\ Shows("terminal code").what # "setup code"
  BY ShowsTyped DEF Shown
<1>2. \/ over' = over
      \/ over' \in [what: Shown, token: 0..MaxTokens] /\ over'.what # "setup code"
  BY <1>1, ShowsTyped
<1> QED BY <1>2 DEF SetupInv, SetupTyped, SetupCodeIsTrue

\* Every step keeps the code on the screen true.
LEMMA NextSetup == SetupInv /\ [Next]_vars => SetupInv'
<1> SUFFICES ASSUME SetupInv, [Next]_vars PROVE SetupInv'
  OBVIOUS
<1>1. pressTask \in BOOLEAN
  BY DEF SetupInv, SetupTyped
<1>2. CASE OverrideLapses \/ CodeLapses \/ Tick \/ UNCHANGED vars
  BY <1>1, <1>2, OverTrue DEF OverrideLapses, CodeLapses, Tick, vars, setupVars
<1>3. CASE KeyUp
  BY <1>3, OverTrue DEF KeyUp, OpenWindow
<1>4. ASSUME NEW b \in Browsers,
             \/ StartStepUp(b) \/ Command(b) \/ End(b)
             \/ \E right \in BOOLEAN : Confirm(b, right)
      PROVE  SetupInv'
  BY <1>1, <1>4, OverTrue DEF StartStepUp, Command, End, Confirm, OpenWindow, setupVars
<1> QED
  BY <1>2, <1>3, <1>4, SetupStepTrue, ClaimTrue DEF Next

-----------------------------------------------------------------------------
\* Both hold when the daemon starts.
LEMMA InitInvs == Init => SetupInv /\ TerminalInv
<1> SUFFICES ASSUME Init PROVE SetupInv /\ TerminalInv
  OBVIOUS
<1>1. /\ over = SetupCode(1) /\ window = [token |-> 1, wrong |-> 0]
      /\ owner = "none" /\ press = NoPress
      /\ pending = <<>> /\ terminal = <<>> /\ banner = 0
  BY DEF Init
<1>2. /\ over \in [what: Shown, token: 0..MaxTokens] /\ over.token = 1
  <2>1. 1 \in 0..MaxTokens
    BY TimesAssumption
  <2> QED BY <1>1, <2>1, ShowsTyped
<1>3. /\ window \in [token: 0..MaxTokens, wrong: 0..(MAX_SETUP_ATTEMPTS - 1)]
      /\ window.token = 1
  BY <1>1, TimesAssumption
<1>4. SetupTyped
  BY <1>1, <1>2, <1>3, ShowsTyped, TimesAssumption DEF Init, SetupTyped
<1>5. SetupCodeIsTrue
  BY <1>1, <1>2, <1>3 DEF SetupCodeIsTrue
<1>6. DOMAIN terminal = {} /\ Times(terminal) = {0} /\ Max({0}) = 0
  <2>1. DOMAIN terminal = {}
    BY <1>1
  <2>2. Max({0}) = 0
    BY MaxIs, TimesAssumption
  <2> QED BY <2>1, <2>2 DEF Times
<1>7. BannerTellsWindows
  BY <1>1, <1>6 DEF BannerTellsWindows, Times
<1>8. StepTyped
  BY <1>1, <1>6, TimesAssumption DEF StepTyped
<1> QED BY <1>4, <1>5, <1>7, <1>8 DEF SetupInv, TerminalInv

\* The code on the screen is the open window's, and from the moment somebody was
\* told the unit is theirs there is neither window nor code, whatever views,
\* presses and other claims were under way (open_setup_window,
\* close_setup_window, show_fingerprint).
THEOREM SetupCodeTrue == Spec => []ScreenInv
<1>1. SetupInv /\ TerminalInv => ScreenInv
  BY TypeOKSplit DEF SetupInv, TerminalInv, ScreenInv
<1> QED BY <1>1, InitInvs, NextSetup, NextTerminal, PTL DEF Spec

\* The line "TERMINAL ACTIVE" is due to stay up exactly as long as the longest of
\* the terminal's windows (refresh_banner), for any number of browsers.
THEOREM BannerIsRight == Spec => []BannerTellsWindows
<1>1. TerminalInv => BannerTellsWindows
  BY DEF TerminalInv
<1> QED BY <1>1, InitInvs, NextTerminal, PTL DEF Spec

-----------------------------------------------------------------------------
(* The notification worker.                                                *)

\* What the code's constants satisfy.
LEMMA WorkerFacts ==
    /\ Detection \in Kinds /\ DOMAIN TypeOf = Kinds /\ Debounce \in [Kinds -> Nat]
    /\ Capacity \in Nat \ {0} /\ MaxFailures \in Nat /\ 2 ^ MaxFailures \in Nat
BY KindsAssumption, ChannelAssumption, PowerAssumption

DetectionType == TypeOf[Detection]

\* Nothing is delivered that was not asked for.
TodoNeeds == \A t \in todo : status[t].needs

\* A detection that waits for its delivery, however long it is retried, came
\* after the period of the last delivery of its type.
WaitingIsDue ==
    \A t \in Types : status[t].needs /\ status[t].message = Detection =>
        t = DetectionType /\ Debounce[Detection] <= status[t].sent

\* The attempt that was not answered, or one after it, began the delay.
UnansweredIsTried == Unanswered => status[DetectionType].tried <= reported

\* The inductive invariant.
WorkerInv == WorkerTypeOK /\ TodoNeeds /\ WaitingIsDue /\ UnansweredIsTried

\* What AlertsAreSpaced says of a step.
Spaced ==
    Alert => \/ reported >= Debounce[Detection]
             \/ Unanswered /\ reported >= MinWaitTime(TypeOf[Detection])

NotificationStatus ==
    [message: Kinds \cup {NoMessage}, needs: BOOLEAN, sent: Ages, tried: Ages,
     failed: 0..MaxFailures]

-----------------------------------------------------------------------------
\* WindowAges are numbers, the period of a detection among them.
LEMMA AgeFacts ==
        /\ Never \in Nat /\ 0 \in Ages /\ Never \in Ages
    /\ Detection \in Kinds /\ DetectionType \in Types
    /\ Debounce[Detection] \in Nat /\ Debounce[Detection] < Never
<1>1. Debounce[Detection] \in Nat /\ 2 ^ MaxFailures \in Nat /\ Detection \in Kinds
  BY WorkerFacts
<1>2. MaxAge \in Nat /\ Debounce[Detection] <= MaxAge
  <2> DEFINE d == 2 ^ MaxFailures
  <2>1. MaxAge = IF d > Debounce[Detection] THEN d ELSE Debounce[Detection]
    BY DEF MaxAge
  <2> HIDE DEF d
  <2>2. d \in Nat
    BY <1>1 DEF d
  <2> QED BY <1>1, <2>1, <2>2
<1>3. Never \in Nat /\ Debounce[Detection] < Never
  BY <1>1, <1>2 DEF Never
<1> QED BY <1>1, <1>3 DEF Ages, DetectionType, Types

LEMMA StatusFacts ==
    ASSUME WorkerTypeOK
    PROVE  /\ status \in [Types -> NotificationStatus]
           /\ \A t \in Types : status[t].sent \in Nat /\ status[t].tried \in Nat
           /\ reported \in Nat
BY AgeFacts DEF WorkerTypeOK, NotificationStatus, Ages

LEMMA WorkerStart == WorkerInit => WorkerInv
<1> SUFFICES ASSUME WorkerInit PROVE WorkerInv
  OBVIOUS
<1>1. WorkerTypeOK
  <2>1. \A t \in Types : status[t] \in NotificationStatus
    BY AgeFacts, WorkerFacts DEF WorkerInit, NotificationStatus
  <2>2. status \in [Types -> NotificationStatus]
    BY <2>1 DEF WorkerInit
  <2>3. channel \in Seq(Kinds) /\ Len(channel) <= Capacity
    BY WorkerFacts DEF WorkerInit
  <2> QED BY <2>2, <2>3, AgeFacts DEF WorkerInit, WorkerTypeOK, NotificationStatus
<1>2. TodoNeeds /\ WaitingIsDue
  BY DEF WorkerInit, TodoNeeds, WaitingIsDue
<1>3. UnansweredIsTried
  BY AgeFacts DEF WorkerInit, UnansweredIsTried, Unanswered, DetectionType
<1> QED BY <1>1, <1>2, <1>3 DEF WorkerInv

\* A notification in the channel touches no status.
LEMMA NotifyPreserves ==
    ASSUME WorkerInv, NEW k \in Kinds, Notify(k)
    PROVE  WorkerInv'
<1>1. WorkerTypeOK'
  <2>1. channel' \in Seq(Kinds) /\ Len(channel') <= Capacity
    BY WorkerFacts DEF WorkerInv, WorkerTypeOK, Notify
  <2>2. owed' \in BOOLEAN
    BY DEF WorkerInv, WorkerTypeOK, Notify
  <2> QED BY <2>1, <2>2 DEF WorkerInv, WorkerTypeOK, Notify
<1> QED BY <1>1 DEF WorkerInv, Notify, TodoNeeds, WaitingIsDue, UnansweredIsTried,
     Unanswered

\* What is noted in a drain passed the check of its own period.
LEMMA DrainPreserves ==
    ASSUME WorkerInv, Drain
    PROVE  WorkerInv'
<1> DEFINE passing(t) == {i \in DOMAIN channel : TypeOf[channel[i]] = t /\ Passes(channel[i])}
           last(t) == CHOOSE i \in passing(t) : \A j \in passing(t) : j <= i
<1>1. /\ status \in [Types -> NotificationStatus] /\ channel \in Seq(Kinds)
      /\ Len(channel) \in Nat /\ DOMAIN channel = 1..Len(channel)
      /\ \A i \in DOMAIN channel : channel[i] \in Kinds
  BY StatusFacts DEF WorkerInv, WorkerTypeOK
<1>2. ASSUME NEW t \in Types, passing(t) # {}
      PROVE  /\ channel[last(t)] \in Kinds /\ TypeOf[channel[last(t)]] = t
             /\ Passes(channel[last(t)])
  <2>1. \E i \in passing(t) : \A j \in passing(t) : j <= i
    <3>1. passing(t) \in SUBSET (0..Len(channel))
      BY <1>1
    <3>2. \A i, j \in 0..Len(channel) : i >= j <=> j <= i
      OBVIOUS
    <3> HIDE DEF passing
    <3>3. \E i \in passing(t) : \A j \in passing(t) : i >= j
      BY <1>1, <1>2, <3>1, GreatestBounded
    <3> QED BY <3>1, <3>2, <3>3
  <2>2. last(t) \in passing(t)
    <3> HIDE DEF passing
    <3> QED BY <2>1
  <2> HIDE DEF last
  <2> QED BY <1>1, <2>2
<1>3. status' = [t \in Types |-> IF passing(t) = {} THEN status[t]
                                 ELSE Note(status[t], channel[last(t)])]
  BY DEF Drain
<1>4. /\ channel' = <<>> /\ worker' = "send" /\ todo' = {t \in Types : status'[t].needs}
      /\ reported' = reported /\ owed' = owed
  BY DEF Drain
<1> HIDE DEF passing, last
<1>5. ASSUME NEW t \in Types
      PROVE  /\ status'[t] \in NotificationStatus /\ status'[t].sent = status[t].sent
             /\ status'[t].tried = status[t].tried
             /\ \/ status'[t] = status[t]
                \/ /\ status'[t].message \in Kinds /\ TypeOf[status'[t].message] = t
                   /\ Passes(status'[t].message)
  <2>1. status[t] \in NotificationStatus
    BY <1>1
  <2>2. CASE passing(t) = {}
    BY <1>3, <2>1, <2>2
  <2>3. CASE passing(t) # {}
    <3> DEFINE k == channel[last(t)]
    <3>1. k \in Kinds /\ TypeOf[k] = t /\ Passes(k)
      BY <1>2, <2>3
    <3>2. status'[t] = [status[t] EXCEPT !.message = k, !.needs = TRUE]
      BY <1>3, <2>3 DEF Note
    <3> HIDE DEF k
    <3>3. /\ status'[t] \in NotificationStatus /\ status'[t].sent = status[t].sent
          /\ status'[t].tried = status[t].tried /\ status'[t].message = k
      BY <2>1, <3>1, <3>2 DEF NotificationStatus
    <3> QED BY <3>1, <3>3
  <2> QED BY <2>2, <2>3
<1>6. WorkerTypeOK'
  <2>1. status' \in [Types -> NotificationStatus]
    BY <1>3, <1>5
  <2>2. channel' \in Seq(Kinds) /\ Len(channel') <= Capacity
    BY <1>4, WorkerFacts
  <2> QED BY <1>4, <2>1, <2>2 DEF WorkerInv, WorkerTypeOK, NotificationStatus
<1>7. TodoNeeds'
  BY <1>4 DEF TodoNeeds
<1>8. UnansweredIsTried'
  BY <1>4, <1>5, AgeFacts DEF WorkerInv, UnansweredIsTried, Unanswered, DetectionType
<1>9. WaitingIsDue'
  <2> SUFFICES ASSUME NEW t \in Types, status'[t].needs, status'[t].message = Detection
               PROVE  t = DetectionType /\ Debounce[Detection] <= status'[t].sent
    BY DEF WaitingIsDue
  <2>1. CASE status'[t] = status[t]
    BY <2>1 DEF WorkerInv, WaitingIsDue
  <2>2. CASE TypeOf[Detection] = t /\ Passes(Detection)
    <3>1. status[t].sent >= Debounce[Detection]
      BY <2>2 DEF Passes
    <3>2. status[t].sent \in Nat
      BY StatusFacts DEF WorkerInv
    <3> QED BY <1>5, <2>2, <3>1, <3>2, AgeFacts DEF DetectionType
  <2> QED BY <1>5, <2>1, <2>2
<1> QED BY <1>6, <1>7, <1>8, <1>9 DEF WorkerInv

\* A delivery the worker knows of ends a detection's wait; any other prolongs it.
LEMMA DeliverPreserves ==
    ASSUME WorkerInv, NEW t \in Types, NEW outcome \in Outcomes, Deliver(t, outcome)
    PROVE  WorkerInv'
<1>1. /\ WorkerTypeOK /\ status \in [Types -> NotificationStatus] /\ status[t] \in NotificationStatus
      /\ status[t].needs /\ t \in todo
      /\ \A u \in Types : status[u].sent \in Nat
      /\ reported \in Nat
  BY StatusFacts DEF WorkerInv, TodoNeeds, Deliver
<1>2. /\ channel' = channel /\ worker' = worker /\ todo' = todo \ {t}
      /\ reported' = IF outcome # "lost" /\ status[t].message = Detection THEN 0 ELSE reported
  BY DEF Deliver
<1>3. status[t].message = Detection => t = DetectionType
  BY <1>1 DEF WorkerInv, WaitingIsDue
<1>4. /\ reported' \in Ages /\ (t # DetectionType => reported' = reported)
  BY <1>1, <1>2, <1>3, AgeFacts DEF WorkerTypeOK
<1>5. CASE outcome = "sent"
  <2> DEFINE s == [status[t] EXCEPT !.sent = 0, !.failed = 0, !.needs = FALSE]
  <2>1. /\ status' = [status EXCEPT ![t] = s]
        /\ owed' = (owed /\ t # TypeOf[Detection])
    BY <1>1, <1>5 DEF Deliver
  <2>2. s \in NotificationStatus /\ ~s.needs /\ s.sent = 0
    <3>1. 0 \in Ages /\ 0 \in 0..MaxFailures /\ FALSE \in BOOLEAN
      BY AgeFacts, WorkerFacts
    <3>2. s \in NotificationStatus
      BY <1>1, <3>1 DEF NotificationStatus
    <3>3. s.needs = FALSE /\ s.sent = 0
      BY <1>1 DEF NotificationStatus
    <3> QED BY <3>2, <3>3
  <2> HIDE DEF s
  <2>3. /\ status' \in [Types -> NotificationStatus] /\ status'[t] = s
        /\ \A u \in Types : u # t => status'[u] = status[u]
    BY <1>1, <2>1, <2>2
  <2>4. WorkerTypeOK'
    <3>1. owed' \in BOOLEAN
      BY <1>1, <2>1 DEF WorkerTypeOK
    <3> QED BY <1>1, <1>2, <1>4, <2>3, <3>1 DEF WorkerTypeOK, NotificationStatus
  <2>5. TodoNeeds'
    BY <1>1, <1>2, <2>3 DEF WorkerInv, TodoNeeds, WorkerTypeOK
  <2>6. WaitingIsDue'
    <3> SUFFICES ASSUME NEW u \in Types, status'[u].needs, status'[u].message = Detection
                 PROVE  u = DetectionType /\ Debounce[Detection] <= status'[u].sent
      BY DEF WaitingIsDue
    <3>1. u # t /\ status'[u] = status[u]
      BY <2>2, <2>3
    <3> QED BY <3>1 DEF WorkerInv, WaitingIsDue
  <2>7. UnansweredIsTried'
    <3>1. CASE t = DetectionType
      <4>1. status'[DetectionType].sent = 0 /\ reported' \in Nat
        BY <1>4, <2>2, <2>3, <3>1, AgeFacts DEF Ages
      <4> QED BY <4>1 DEF UnansweredIsTried, Unanswered, DetectionType
    <3>2. CASE t # DetectionType
      BY <1>4, <2>3, <3>2, AgeFacts DEF WorkerInv, UnansweredIsTried, Unanswered, DetectionType
    <3> QED BY <3>1, <3>2
  <2> QED BY <2>4, <2>5, <2>6, <2>7 DEF WorkerInv
<1>6. CASE outcome # "sent"
  <2> DEFINE f == IF status[t].failed < MaxFailures THEN status[t].failed + 1
                  ELSE status[t].failed
             s == [status[t] EXCEPT !.tried = 0, !.failed = f]
  <2>1. status' = [status EXCEPT ![t] = s] /\ owed' = owed
    BY <1>1, <1>6 DEF Deliver
  <2>2. f \in 0..MaxFailures
    BY <1>1, WorkerFacts DEF NotificationStatus
  <2> HIDE DEF f
  <2>3. /\ s \in NotificationStatus /\ s.needs = status[t].needs /\ s.message = status[t].message
        /\ s.sent = status[t].sent /\ s.tried = 0
    BY <1>1, <2>2, AgeFacts DEF NotificationStatus
  <2> HIDE DEF s
  <2>4. /\ status' \in [Types -> NotificationStatus] /\ status'[t] = s
        /\ \A u \in Types : u # t => status'[u] = status[u]
    BY <1>1, <2>1, <2>3
  <2>5. \A u \in Types : /\ status'[u].needs = status[u].needs
                         /\ status'[u].message = status[u].message
                         /\ status'[u].sent = status[u].sent
    BY <2>3, <2>4
  <2>6. WorkerTypeOK'
    BY <1>1, <1>2, <1>4, <2>1, <2>4 DEF WorkerTypeOK, NotificationStatus
  <2>7. TodoNeeds' /\ WaitingIsDue'
    BY <1>1, <1>2, <2>5, AgeFacts DEF WorkerInv, TodoNeeds, WaitingIsDue, WorkerTypeOK
  <2>8. UnansweredIsTried'
    <3>1. CASE t = DetectionType
      <4>1. status'[DetectionType].tried = 0 /\ reported' \in Nat
        BY <1>4, <2>3, <2>4, <3>1, AgeFacts DEF Ages
      <4> QED BY <4>1 DEF UnansweredIsTried
    <3>2. CASE t # DetectionType
      BY <1>4, <2>4, <3>2, AgeFacts DEF WorkerInv, UnansweredIsTried, Unanswered, DetectionType
    <3> QED BY <3>1, <3>2
  <2> QED BY <2>6, <2>7, <2>8 DEF WorkerInv
<1> QED BY <1>5, <1>6

\* What the server gets keeps its distance from what it got before.
LEMMA AlertIsDue == WorkerInv => Spaced
<1> SUFFICES ASSUME WorkerInv, NEW t \in Types, NEW outcome \in {"sent", "unanswered"},
                    status[t].message = Detection, Deliver(t, outcome)
             PROVE  \/ reported >= Debounce[Detection]
                    \/ Unanswered /\ reported >= MinWaitTime(TypeOf[Detection])
  BY DEF Spaced, Alert
<1> DEFINE s == status[DetectionType]
           w == MinWaitTime(DetectionType)
<1>1. /\ t = DetectionType /\ Debounce[Detection] <= s.sent /\ s.tried >= w
  <2>1. status[t].needs
    BY DEF WorkerInv, TodoNeeds, Deliver
  <2>2. t = DetectionType /\ Debounce[Detection] <= status[t].sent
    BY <2>1 DEF WorkerInv, WaitingIsDue
  <2> QED BY <2>2 DEF Deliver
<1>2. /\ s.sent \in Nat /\ s.tried \in Nat /\ reported \in Nat /\ Debounce[Detection] \in Nat
  BY AgeFacts, StatusFacts DEF WorkerInv
<1>3. CASE s.sent <= reported
  BY <1>1, <1>2, <1>3
<1>4. CASE s.sent > reported
  <2>1. Unanswered /\ s.tried <= reported
    BY <1>4 DEF WorkerInv, UnansweredIsTried, Unanswered, DetectionType
  <2>2. w \in Nat
    <3>1. s.failed \in 0..MaxFailures
      BY AgeFacts, StatusFacts DEF WorkerInv, NotificationStatus
    <3> QED BY <3>1, PowerAssumption DEF MinWaitTime
  <2> HIDE DEF w, s
  <2> QED BY <1>1, <1>2, <2>1, <2>2 DEF w, DetectionType
<1> QED BY <1>2, <1>3, <1>4

\* Time takes every age up by one, up to the same limit.
LEMMA TimePreserves ==
    ASSUME WorkerInv, TimePasses
    PROVE  WorkerInv'
<1>1. /\ WorkerTypeOK /\ status \in [Types -> NotificationStatus] /\ reported \in Ages
  BY StatusFacts DEF WorkerInv, WorkerTypeOK
<1>2. \A a \in Ages : Older(a) \in Ages /\ Older(a) \in Nat /\ a \in Nat /\ a <= Older(a)
  BY AgeFacts DEF Ages, Older
<1>3. \A a, b \in Ages : a <= b => Older(a) <= Older(b)
  BY AgeFacts DEF Ages, Older
<1>4. /\ status' = [t \in Types |-> [status[t] EXCEPT !.sent = Older(status[t].sent),
                                                      !.tried = Older(status[t].tried)]]
      /\ reported' = Older(reported) /\ channel' = channel /\ worker' = worker
      /\ todo' = todo /\ owed' = owed
  <2>1. \A t \in Types : [status[t] EXCEPT !.sent = Older(@), !.tried = Older(@)]
            = [status[t] EXCEPT !.sent = Older(status[t].sent),
                                !.tried = Older(status[t].tried)]
    BY <1>1 DEF NotificationStatus
  <2> QED BY <2>1 DEF TimePasses
<1>5. ASSUME NEW t \in Types
      PROVE  /\ status'[t] \in NotificationStatus /\ status'[t].sent = Older(status[t].sent)
             /\ status'[t].tried = Older(status[t].tried)
             /\ status'[t].needs = status[t].needs /\ status'[t].message = status[t].message
  <2>1. status[t] \in NotificationStatus /\ status[t].sent \in Ages /\ status[t].tried \in Ages
    BY <1>1 DEF NotificationStatus
  <2> DEFINE s == Older(status[t].sent)
             r == Older(status[t].tried)
  <2>2. s \in Ages /\ r \in Ages
    BY <1>2, <2>1
  <2>3. status'[t] = [status[t] EXCEPT !.sent = s, !.tried = r]
    BY <1>4
  <2> HIDE DEF s, r
  <2>4. /\ status'[t] \in NotificationStatus /\ status'[t].sent = s /\ status'[t].tried = r
        /\ status'[t].needs = status[t].needs /\ status'[t].message = status[t].message
    BY <2>1, <2>2, <2>3 DEF NotificationStatus
  <2> QED BY <2>4 DEF s, r
<1>6. WorkerTypeOK'
  <2>1. status' \in [Types -> NotificationStatus]
    BY <1>4, <1>5
  <2>2. reported' \in Ages
    BY <1>1, <1>2, <1>4
  <2> QED BY <1>1, <1>4, <2>1, <2>2 DEF WorkerTypeOK, NotificationStatus
<1>7. UnansweredIsTried'
  <2> DEFINE a == status[DetectionType].sent
             b == status[DetectionType].tried
  <2>1. a \in Ages /\ b \in Ages /\ reported \in Ages
    BY <1>1, AgeFacts DEF NotificationStatus
  <2>2. /\ status'[DetectionType].sent = Older(a) /\ status'[DetectionType].tried = Older(b)
        /\ reported' = Older(reported)
    BY <1>4, <1>5, AgeFacts
  <2>3. a > reported => b <= reported
    BY DEF WorkerInv, UnansweredIsTried, Unanswered, DetectionType
  <2> HIDE DEF a, b
  <2>4. Older(a) > Older(reported) => a > reported
    BY <2>1, AgeFacts DEF Ages, Older
  <2>5. Older(a) > Older(reported) => Older(b) <= Older(reported)
    BY <1>3, <2>1, <2>3, <2>4
  <2> QED BY <2>2, <2>5 DEF UnansweredIsTried, Unanswered, DetectionType
<1>8. TodoNeeds'
  BY <1>1, <1>4, <1>5 DEF WorkerInv, TodoNeeds, WorkerTypeOK
<1>9. WaitingIsDue'
  <2> SUFFICES ASSUME NEW t \in Types, status'[t].needs, status'[t].message = Detection
               PROVE  t = DetectionType /\ Debounce[Detection] <= status'[t].sent
    BY DEF WaitingIsDue
  <2>1. t = DetectionType /\ Debounce[Detection] <= status[t].sent
    BY <1>5 DEF WorkerInv, WaitingIsDue
  <2>2. status[t].sent \in Ages
    BY <1>1 DEF NotificationStatus
  <2>3. status[t].sent <= status'[t].sent /\ status[t].sent \in Nat /\ status'[t].sent \in Nat
    BY <1>2, <1>5, <2>2
  <2> QED BY <2>1, <2>3, AgeFacts
<1> QED BY <1>6, <1>7, <1>8, <1>9 DEF WorkerInv

\* Every step keeps the inductive invariant.
LEMMA WorkerStepPreserves == WorkerInv /\ [WorkerNext]_workerVars => WorkerInv'
<1> SUFFICES ASSUME WorkerInv, [WorkerNext]_workerVars PROVE WorkerInv'
  OBVIOUS
<1>1. ASSUME NEW k \in Kinds, Notify(k) PROVE WorkerInv'
  BY <1>1, NotifyPreserves
<1>2. CASE Drain
  BY <1>2, DrainPreserves
<1>3. CASE EndOfRound
  BY <1>3 DEF EndOfRound, WorkerInv, WorkerTypeOK, TodoNeeds, WaitingIsDue,
              UnansweredIsTried, Unanswered
<1>4. CASE Wake
  BY <1>4 DEF Wake, WorkerInv, WorkerTypeOK, TodoNeeds, WaitingIsDue,
              UnansweredIsTried, Unanswered
<1>5. ASSUME NEW t \in Types, Skip(t) PROVE WorkerInv'
  BY <1>5 DEF Skip, WorkerInv, WorkerTypeOK, TodoNeeds, WaitingIsDue,
              UnansweredIsTried, Unanswered
<1>6. ASSUME NEW t \in Types, NEW outcome \in Outcomes, Deliver(t, outcome) PROVE WorkerInv'
  BY <1>6, DeliverPreserves
<1>7. CASE TimePasses
  BY <1>7, TimePreserves
<1>8. CASE UNCHANGED workerVars
  BY <1>8 DEF workerVars, WorkerInv, WorkerTypeOK, TodoNeeds, WaitingIsDue,
              UnansweredIsTried, Unanswered
<1>9. CASE WorkerNext
  BY <1>1, <1>2, <1>3, <1>4, <1>5, <1>6, <1>7, <1>9
  DEF WorkerNext, WorkerStep, Drain, EndOfRound, Wake
<1> QED BY <1>8, <1>9 DEF workerVars

-----------------------------------------------------------------------------
\* AlertsAreSpaced: whatever fails, is retried, is replaced or arrives
\* meanwhile, and whatever the server got without saying so, it gets a
\* detection a debounce period after the one before, or after the delay of a
\* retry when that one was not answered (run_notification_worker).
THEOREM AlertsKeepDistance == WorkerSpec => AlertsAreSpaced
<1>1. WorkerInit => WorkerInv
  BY WorkerStart
<1>2. WorkerInv /\ [WorkerNext]_workerVars => WorkerInv'
  BY WorkerStepPreserves
<1>3. WorkerInv => [Spaced]_workerVars
  BY AlertIsDue
<1>4. WorkerSpec => [][Spaced]_workerVars
  BY <1>1, <1>2, <1>3, PTL DEF WorkerSpec
<1> QED BY <1>4 DEF AlertsAreSpaced, Spaced
=============================================================================
