----------------------------- MODULE ClaudeHooks -----------------------------
(***************************************************************************)
(* The hooks a Claude turn puts into .claude/settings.local.json of its    *)
(* workspace (runner_claude_hooks.go).  Each turn keeps the file as it     *)
(* found it and puts that back at its end.  Two turns of one workspace may *)
(* run at a time, and neither knows of the other.                          *)
(***************************************************************************)
EXTENDS FiniteSets

CONSTANT Turns          \* the turns that run in the workspace

VARIABLES settings,     \* the user's file and its directory
          hooked,       \* the turns whose hooks are in the file
          saved,        \* what each turn has to put back, Nothing if it has not
          overlapped    \* did two turns have hooks installed at a time?

hookVars == <<settings, hooked, saved, overlapped>>

Nothing == <<>>

\* had: had the user such a file?  shared: are there other files in .claude?
Settings == [had: BOOLEAN, shared: BOOLEAN, exists: BOOLEAN, dir: BOOLEAN]
Saved == {Nothing} \cup (BOOLEAN \X SUBSET Turns)

HooksDataOK ==
  /\ settings \in Settings /\ hooked \subseteq Turns
  /\ saved \in [Turns -> Saved]

HooksTypeOK == HooksDataOK /\ overlapped \in BOOLEAN

HooksInit ==
  /\ settings \in {s \in Settings : s.exists = s.had /\ (s.had \/ s.shared => s.dir)}
  /\ hooked = {} /\ saved = [t \in Turns |-> Nothing] /\ overlapped = FALSE

installClaudeWorkspaceHooks(t) ==
  /\ settings' = [settings EXCEPT !.exists = TRUE, !.dir = TRUE]
  /\ hooked' = hooked \cup {t}
  /\ saved' = [saved EXCEPT ![t] = <<settings.exists, hooked>>]
  /\ overlapped' = (overlapped \/ \E u \in Turns \ {t} : saved[u] # Nothing)

\* The file cannot be read or written: the turn runs without hooks.
installFails == UNCHANGED hookVars

\* Mutant: the file is put back, but never removed.
cleanupKeepsFile(t) ==
  /\ saved' = [saved EXCEPT ![t] = Nothing]
  /\ UNCHANGED overlapped
  /\ IF saved[t] # Nothing /\ saved[t][1]
     THEN hooked' = saved[t][2] /\ UNCHANGED settings
     ELSE UNCHANGED <<settings, hooked>>

\* Through a sync.Once.  The directory goes with the file if nothing else is in it; without it
\* nothing can be put back.
cleanupClaudeHooks(t) ==
  /\ saved' = [saved EXCEPT ![t] = Nothing]
  /\ UNCHANGED overlapped
  /\ \/ /\ saved[t] = Nothing
        /\ UNCHANGED <<settings, hooked>>
     \/ /\ saved[t] # Nothing /\ saved[t][1] /\ settings.dir
        /\ settings' = [settings EXCEPT !.exists = TRUE]
        /\ hooked' = saved[t][2]
     \/ /\ saved[t] # Nothing /\ saved[t][1] /\ ~settings.dir
        /\ UNCHANGED <<settings, hooked>>
     \/ /\ saved[t] # Nothing /\ ~saved[t][1]
        /\ settings' = [settings EXCEPT !.exists = FALSE, !.dir = settings.shared]
        /\ hooked' = {}

\* What installClaudeWorkspaceHooks promises: "the original content (or absence) is restored when
\* cleanup() runs".
SettingsRestored ==
  (\A t \in Turns : saved[t] = Nothing) => hooked = {} /\ settings.exists = settings.had

\* Has the turn its hooks in the file, and the user's settings to put back?
Alone(t) == saved[t] = <<settings.had, {}>> /\ hooked = {t} /\ settings.dir

\* Until two turns overlap there is one at most, and what it saved is the user's.
HooksInv ==
  ~overlapped =>
    /\ SettingsRestored
    /\ \A t \in Turns : saved[t] # Nothing => Alone(t) /\ \A u \in Turns \ {t} : saved[u] = Nothing
===============================================================================
