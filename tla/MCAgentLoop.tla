---------------------------- MODULE MCAgentLoop ----------------------------
(* A small model and a small desktop for AgentLoop.                         *)
EXTENDS AgentLoop

Act1(type, at, keys) == [type |-> type, at |-> at, keys |-> keys]
Say(stop, actions) == [stop |-> stop, actions |-> actions]

PanelClick == Act1("click", "panel", "none")
BlankClick == Act1("click", "blank", "none")
PressTab == Act1("keypress", "none", "Tab")
PressReturn == Act1("keypress", "none", "Return")
Wait == Act1("wait", "none", "none")

FewResponses ==
  { Say("message", << >>),
    Say("error", << >>),
    Say("actions", << PanelClick >>),
    Say("actions", << BlankClick, PressTab >>),
    Say("actions", << PressTab >>),
    Say("actions", << PressReturn >>),
    Say("actions", << Wait >>) }
=============================================================================
