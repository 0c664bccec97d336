------------------------------ MODULE Clients ------------------------------
(***************************************************************************)
(* The parts of the two clients side by side: the session and the review   *)
(* cards of the browser console; a window of the desktop client, its       *)
(* settings form, widget and graph.  They have no state in common but the  *)
(* event log, so a behaviour is that of one part, and the others have not  *)
(* been opened.                                                            *)
(*                                                                         *)
(* An event that the session consumes is EventArrives of the cards.        *)
(***************************************************************************)
EXTENDS Console, ConsoleReview, Desktop, SettingsForm, Widget, GraphWindow

VARIABLE part

formsVars   == <<settingsVars, widgetVars, graphVars>>
clientsVars == <<part, consoleVars, cardVars, desktopVars, formsVars>>

Parts == {"session", "cards", "window", "settings", "widget", "graph"}

ClientsTypeOK ==
    /\ part \in Parts
    /\ ConsoleTypeOK /\ CardsTypeOK
    /\ DesktopTypeOK /\ SettingsTypeOK /\ WidgetTypeOK /\ GraphTypeOK

ClientsInit ==
    /\ part \in Parts
    /\ IF part = "session" THEN ConsoleInit ELSE FeedInit /\ SignedOut
    /\ IF part = "window" THEN DesktopInit ELSE WindowUnopened /\ booting = "nothing"
    /\ CardsInit
    /\ SettingsInit /\ WidgetInit /\ GraphInit

ClientsNext ==
    /\ UNCHANGED part
    /\ \/ /\ part = "session"  /\ ConsoleNext
          /\ UNCHANGED <<cardVars, bootVars, liveVars, queryVars, formsVars>>
       \/ /\ part = "cards"    /\ CardsNext
          /\ UNCHANGED <<consoleVars, desktopVars, formsVars>>
       \/ /\ part = "window"   /\ DesktopNext
          /\ UNCHANGED <<sessionVars, loopVars, calls, cardVars, formsVars>>
       \/ /\ part = "settings" /\ SettingsNext
          /\ UNCHANGED <<consoleVars, cardVars, desktopVars, widgetVars, graphVars>>
       \/ /\ part = "widget"   /\ WidgetNext
          /\ UNCHANGED <<consoleVars, cardVars, desktopVars, settingsVars, graphVars>>
       \/ /\ part = "graph"    /\ GraphNext
          /\ UNCHANGED <<consoleVars, cardVars, desktopVars, settingsVars, widgetVars>>

ClientsSpec ==
    ClientsInit /\ [][ClientsNext]_clientsVars /\ ConsoleFairness /\ DesktopFairness
=============================================================================
