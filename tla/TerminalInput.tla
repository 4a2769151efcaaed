--------------------------- MODULE TerminalInput ---------------------------
(***************************************************************************)
(* The keyboard of an attached terminal (internal/daemon/attachclient.go,   *)
(* terminalInput): one goroutine reads the terminal for the whole time its  *)
(* user is here, and hands bytes and commands over on two channels.         *)
(*                                                                         *)
(* Two channels have no order between them, so the reader puts a fence on   *)
(* `data` after each command: what precedes it was typed before the         *)
(* command, what follows it belongs to where the command leads.             *)
(***************************************************************************)
EXTENDS Naturals, Sequences

CONSTANTS Commands,     \* what the prefix key can ask for
          DataCap,      \* capacity of data; cmds holds one
          MaxKeys,      \* bound: chunks typed for a service
          MaxCommands   \* bound: commands typed

ASSUME TerminalInputAssumption == DataCap \in Nat \ {0} /\ {MaxKeys, MaxCommands} \subseteq Nat

VARIABLES reader,   \* pc of terminalInput.run: "reading", "fencing", "ended"
          data,     \* chunks and fences, each with the number of commands typed before it
          cmds,     \* commands
          ended,    \* the terminal's end, if nobody has taken it yet
          typed,    \* history: commands typed so far
          keys      \* history: chunks typed so far

keyboard == <<reader, data, cmds, ended, typed, keys>>

Key(n) == [fence |-> FALSE, at |-> n]
Fence(n) == [fence |-> TRUE, at |-> n]

KeyboardOK ==
    /\ reader \in {"reading", "fencing", "ended"}
    /\ data \in Seq([fence : BOOLEAN, at : 0..MaxCommands]) /\ Len(data) <= DataCap
    /\ cmds \in Seq(Commands) /\ Len(cmds) <= 1
    /\ ended \in BOOLEAN
    /\ typed \in 0..MaxCommands /\ keys \in 0..MaxKeys

KeyboardInit ==
    /\ reader = "reading" /\ data = <<>> /\ cmds = <<>> /\ ended = FALSE
    /\ typed = 0 /\ keys = 0

\* A run of bytes for the service: flush blocks while data is full.
TypeKeys ==
    /\ reader = "reading" /\ keys < MaxKeys /\ Len(data) < DataCap
    /\ data' = Append(data, Key(typed)) /\ keys' = keys + 1
    /\ UNCHANGED <<reader, cmds, ended, typed>>

\* The prefix key and a command; it blocks while an earlier one waits.
TypeCommand(o) ==
    /\ reader = "reading" /\ typed < MaxCommands /\ cmds = <<>>
    /\ cmds' = <<o>> /\ typed' = typed + 1 /\ reader' = "fencing"
    /\ UNCHANGED <<data, ended, keys>>

PutFence ==
    /\ reader = "fencing" /\ Len(data) < DataCap
    /\ data' = Append(data, Fence(typed)) /\ reader' = "reading"
    /\ UNCHANGED <<cmds, ended, typed, keys>>

\* The terminal is closed, or redirected input runs out.
TypeEnd ==
    /\ reader = "reading"
    /\ reader' = "ended" /\ ended' = TRUE
    /\ UNCHANGED <<data, cmds, typed, keys>>

\* Has nobody read the fence of the n-th command yet?
Unread(n) == n > 0 /\ (Fence(n) \in {data[i] : i \in DOMAIN data} \/ (reader = "fencing" /\ typed = n))

=============================================================================
