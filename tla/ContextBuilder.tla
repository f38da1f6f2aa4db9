---------------------------- MODULE ContextBuilder ----------------------------
(***************************************************************************)
(* context/context_builder.py: the sections of one prompt shed until they  *)
(* fit the input budget, over the history of one conversation.             *)
(*                                                                         *)
(* A text is its length.  A turn is stored before the prompt that answers  *)
(* it is built, and more turns are stored while the build awaits.          *)
(***************************************************************************)
EXTENDS Naturals, SequencesExt

CONSTANTS
  Limits,             \* [input, history]: the input tokens and history turns of a tier
  CharactersPerToken,
  Lengths,            \* of a turn, and of the trigger it makes
  Contract,           \* the length of the output contract
  Scenes,             \* [profile, event, world]: lengths of the rest, 0 for no section
  MaxTurns            \* bound of the model: turns of the conversation

Clipped == 2          \* the length of CLIPPED

ASSUME ContextAssumption ==
  /\ Limits \subseteq [input: Nat \ {0}, history: Nat] /\ MaxTurns \in Nat
  /\ CharactersPerToken \in Nat \ {0} /\ Lengths \subseteq Nat \ {0} /\ Contract \in Nat \ {0}
  /\ Scenes \subseteq [profile: Nat, event: Nat, world: Nat]

VARIABLES
  turns,     \* the lengths of the turns stored, oldest first
  trigger,   \* the turn being answered, or 0
  limit,     \* the limits of its tier
  whole,     \* history: the sections as they were before anything was shed
  kept,      \* the sections kept, most important first
  remaining, \* the turns of the history not yet shed
  step       \* "idle", "reading", "fitting" or "built"

promptVars == <<turns, trigger, limit, whole, kept, remaining, step>>

PromptInit ==
  /\ turns = << >> /\ trigger = 0 /\ limit \in Limits
  /\ whole = << >> /\ kept = << >> /\ remaining = << >> /\ step = "idle"

-----------------------------------------------------------------------------

Section(name, length) == [name |-> name, length |-> length]
Required == {"contract", "trigger"}

\* estimate_tokens and characters_for.
EstimateTokens(length) == (length + CharactersPerToken - 1) \div CharactersPerToken
CharactersFor(tokens)  == tokens * CharactersPerToken

Tokens(sections) == FoldLeft(LAMBDA sum, s : sum + EstimateTokens(s.length), 0, sections)
Over(sections)   == Tokens(sections) > limit.input

Sum(lengths) == FoldLeft(LAMBDA sum, l : sum + l, 0, lengths)

\* _history: the turns joined by line breaks.
Told(history) ==
  IF history = << >> THEN 0 ELSE Sum(history) + Len(history) - 1

\* The sections that say something and are not of these names.
Without(names, sections) ==
  FoldLeft(LAMBDA rest, s : IF s.name \in names \/ s.length = 0 THEN rest ELSE Append(rest, s),
           << >>, sections)

\* The sections with this history instead of theirs.
WithHistory(sections, history) ==
  LET texts == Without({"history"}, sections)
  IN IF history = << >> THEN texts ELSE Append(texts, Section("history", Told(history)))

\* TurnStore.recent: the newest turns that precede the one answered.
Before(t) ==
  SubSeq(turns, (IF t > limit.history THEN t - limit.history ELSE 1), t - 1)

-----------------------------------------------------------------------------

\* The conversation goes on, whatever is being built.
Say(length) ==
  /\ Len(turns) < MaxTurns
  /\ turns' = Append(turns, length)
  /\ UNCHANGED <<trigger, limit, whole, kept, remaining, step>>

\* build, up to the history it awaits.
Build(t, l) ==
  /\ step = "idle"
  /\ trigger' = t /\ limit' = l /\ step' = "reading"
  /\ UNCHANGED <<turns, whole, kept, remaining>>

\* The history has come, and the sections are put together in their order.
Assemble(scene) ==
  /\ step = "reading" /\ step' = "fitting"
  /\ remaining' = Before(trigger)
  /\ kept' = Without({}, <<Section("contract", Contract), Section("trigger", turns[trigger]),
                           Section("profile", scene.profile), Section("event", scene.event),
                           Section("world", scene.world),
                           Section("history", Told(Before(trigger)))>>)
  /\ whole' = kept'
  /\ UNCHANGED <<turns, trigger, limit>>

\* build_for_event: the event is the trigger, and there is no history.
BuildForEvent(length, scene, l) ==
  /\ step = "idle" /\ step' = "fitting"
  /\ limit' = l /\ remaining' = << >>
  /\ kept' = Without({}, <<Section("contract", Contract), Section("trigger", length),
                           Section("profile", scene.profile), Section("world", scene.world)>>)
  /\ whole' = kept'
  /\ UNCHANGED <<turns, trigger>>

\* Mutant of ShedTurn: the newest turn is shed first.
ShedNewest ==
  /\ step = "fitting" /\ Over(kept) /\ remaining # << >>
  /\ remaining' = Front(remaining)
  /\ kept' = WithHistory(kept, Front(remaining))
  /\ UNCHANGED <<turns, trigger, limit, whole, step>>

\* _fit's loops.
ShedTurn ==
  /\ step = "fitting" /\ Over(kept) /\ remaining # << >>
  /\ remaining' = Tail(remaining)
  /\ kept' = WithHistory(kept, Tail(remaining))
  /\ UNCHANGED <<turns, trigger, limit, whole, step>>

ShedSection ==
  /\ step = "fitting" /\ Over(kept) /\ remaining = << >>
  /\ Last(kept).name \notin Required
  /\ kept' = Front(kept)
  /\ UNCHANGED <<turns, trigger, limit, whole, remaining, step>>

\* Mutant of Spare: the mark's own length is forgotten.
SpareForText == CharactersFor(limit.input - EstimateTokens(Contract))

\* What is left for the text of the trigger.
Spare ==
  LET spare == CharactersFor(limit.input - EstimateTokens(Contract))
  IN IF limit.input >= EstimateTokens(Contract) /\ spare > Clipped THEN spare - Clipped ELSE 0

\* _with_clipped_trigger; trailing blanks go before the mark.
ClipTrigger ==
  /\ step = "fitting" /\ Over(kept) /\ remaining = << >>
  /\ Last(kept).name \in Required
  /\ \E length \in 0..Spare :
       kept' = <<Section("contract", Contract), Section("trigger", length + Clipped)>>
  /\ step' = "built"
  /\ UNCHANGED <<turns, trigger, limit, whole, remaining>>

Fit ==
  /\ step = "fitting" /\ ~Over(kept)
  /\ step' = "built"
  /\ UNCHANGED <<turns, trigger, limit, whole, kept, remaining>>

PromptNext ==
  \/ \E length \in Lengths : Say(length)
  \/ \E t \in 1..Len(turns), l \in Limits : Build(t, l)
  \/ \E scene \in Scenes : Assemble(scene)
  \/ \E length \in Lengths, scene \in Scenes, l \in Limits : BuildForEvent(length, scene, l)
  \/ ShedTurn \/ ShedSection \/ ClipTrigger \/ Fit

PromptSpec == PromptInit /\ [][PromptNext]_promptVars

-----------------------------------------------------------------------------
\* A prompt stays within its tier's budget and says who answers what: only a
\* contract that leaves no room for the mark itself exceeds it
\* (context_builder.py: "the trigger is clipped rather than the budget being
\* exceeded").
FitsBudget ==
  step = "built" =>
    /\ [i \in 1..2 |-> kept[i].name] = <<"contract", "trigger">>
    /\ \/ Tokens(kept) <= limit.input
       \/ EstimateTokens(Contract) + EstimateTokens(Clipped) > limit.input

\* What is shed is the least important, and no more than must be: the next
\* longer prompt of the order "the oldest history, then whole sections" would
\* not have fitted.
HistoryWith(n) ==
  LET t == SubSeq(turns, trigger - n, trigger - 1)
  IN WithHistory(whole, t)

NothingShedInVain ==
  (step = "built" /\ kept # whole) =>
    LET texts == Without({"history"}, whole)
    IN \/ Last(kept).name = "history"
          /\ kept = HistoryWith(Len(remaining)) /\ Over(HistoryWith(Len(remaining) + 1))
       \/ Last(kept).name # "history" /\ IsPrefix(kept, texts)
          /\ Over(IF kept = texts THEN HistoryWith(1) ELSE SubSeq(texts, 1, Len(kept) + 1))
       \/ Len(kept) = 2 /\ kept[2].length < texts[2].length + Clipped
          /\ Over(SubSeq(texts, 1, 2))
=============================================================================
