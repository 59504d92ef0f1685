------------------------------ MODULE MCWebPages ------------------------------
(***************************************************************************)
(* The single pages of the admin UI, one browser tab on one of them: the   *)
(* screen is chosen at the start, the others are not mounted and stay at   *)
(* one of their initial states.                                            *)
(***************************************************************************)
EXTENDS UsagePanel, ReadPanels, OverviewPage, DateRangePicker, SettingsPage, AdminSession, TLC

VARIABLE screen

vars == <<screen, pageVars, usageVars, panelVars, overviewVars, pickerVars, settingsVars, sessionVars>>

(* A day, a week, the half of the two, and a month.                        *)
MCRanges == {[preset |-> "today", minutes |-> 60], [preset |-> "7d", minutes |-> 9000],
             [preset |-> "custom", minutes |-> 1440], [preset |-> "30d", minutes |-> 43000]}
MCFirstRange == [preset |-> "7d", minutes |-> 9000]
(* January 2024 to October 2028; 2 March 2024, 10:00, and 31 August, 00:15. *)
MCMonths == <<0, 31, 60, 91, 121, 152, 182, 213, 244, 274, 305, 335,
              366, 397, 425, 456, 486, 517, 547, 578, 609, 639, 670, 700,
              731, 762, 790, 821, 851, 882, 912, 943, 974, 1004, 1035, 1065,
              1096, 1127, 1155, 1186, 1216, 1247, 1277, 1308, 1339, 1369, 1400, 1430,
              1461, 1492, 1521, 1552, 1582, 1613, 1643, 1674, 1705, 1735, 1766>>
MCMonthStart == [m \in 0 .. Len(MCMonths) - 1 |-> MCMonths[m + 1]]
MCNows == {61 * 1440 + 600, 243 * 1440 + 15}
MCElsewhere == {[DefaultPolicy EXCEPT !.load = "sticky", !.attempts = 3]}

Init ==
    /\ screen \in {"usage", "panel", "overview", "picker", "settings", "session"}
    /\ InitPage /\ OverviewInit
    /\ UsageInit /\ (screen = "usage" \/ onServer = {})
    /\ PanelInit /\ (screen = "panel" \/ panel = "models")
    /\ PickerInit /\ (screen = "picker" \/ value.to = 61 * 1440 + 600)
    /\ SettingsInit /\ srv = DefaultPolicy
    /\ SessionInit /\ (screen = "session" \/ (cookie = 0 /\ valid = {}))

On(name) == screen = name /\ UNCHANGED screen
OnSession == On("session") /\ UNCHANGED <<usageVars, panelVars, overviewVars, pickerVars, settingsVars>>

Next ==
    \/ On("usage") /\ UsageNext
       /\ UNCHANGED <<panelVars, overviewVars, pickerVars, settingsVars, sessionVars>>
    \/ On("panel") /\ PanelNext
       /\ UNCHANGED <<usageVars, overviewVars, pickerVars, settingsVars, sessionVars>>
    \/ On("overview") /\ OverviewNext
       /\ UNCHANGED <<usageVars, panelVars, pickerVars, settingsVars, sessionVars>>
    \/ On("picker") /\ PickerNext
       /\ UNCHANGED <<pageVars, usageVars, panelVars, overviewVars, settingsVars, sessionVars>>
    \/ On("settings") /\ SettingsNext
       /\ UNCHANGED <<usageVars, panelVars, overviewVars, pickerVars, sessionVars>>
    \/ OnSession /\ SessionNext

(* AnswersCome of AdminSession, on the session's screen. *)
SessionAnswersCome == \A c \in Calls :
    WF_vars(OnSession /\ Served(c)) /\ WF_vars(OnSession /\ Returns(c))

Spec == Init /\ [][Next]_vars /\ SessionAnswersCome

(* A bound on what is explored: handlers that take turns field by field    *)
(* have many interleavings, so on the settings screen either nothing fails *)
(* or changes elsewhere, or there are two clicks.                          *)
SettingsBound == screen = "settings" => clicks <= 2 \/ faults = 0

(* Every variable of every page has its type. *)
PagesTypeOK == /\ PageTypeOK /\ UsageTypeOK /\ PanelsTypeOK /\ OverviewTypeOK
               /\ PickerTypeOK /\ SettingsTypeOK /\ SessionTypeOK

(* No page is left with a spinner or a disabled button for a call that has *)
(* come back, and none lowers one for a call that has not.                 *)
SpinnersBacked ==
    CASE screen = "panel"    -> PanelSpinnersBacked
      [] screen = "overview" -> OverviewSpinnerBacked
      [] screen = "settings" -> SettingsFlagsBacked
      [] screen = "session"  -> SessionWaitsBacked
      [] OTHER               -> TRUE

(* On the picker's screen, AxisCountsRange of DateRangePicker. *)
PickedRangeIsCounted == screen = "picker" => AxisCountsRange

(* On the session's screen, SessionSettles of AdminSession. *)
SessionComesToRest == <>[](screen = "session" => AtRest)
===============================================================================
