----------------------------- MODULE MCAdmission -----------------------------
(* Small instances of Admission: administrators without callers, callers   *)
(* whose provider changes, and both.                                       *)
EXTENDS Admission

Update(k, u, m, y) == [kind |-> k, url |-> u, model |-> m, key |-> y]
SomeUpdates ==
  {Update(None, None, "m1", None), Update("anthropic", "u2", None, "k2"),
   Update(None, "u1", Blank, None), Update(None, None, None, Blank),
   Update(None, None, None, "k1"), Update(None, "bad", None, None)}

Item(name, reasons, levels, default) == Wire!CatalogItem(name, reasons, levels, default)
Wide == <<Item("", "yes", <<"low">>, "low"), Item("m1", "unsaid", <<"low", "high", "low">>, "high"),
          Item("m2", "yes", <<"default">>, "default")>>
Narrow == <<Item("m2", "no", <<"high">>, "high")>>
SomeShelves == {Wide, Narrow}

\* The adapters read every catalog of up to two items as its provider wrote it.
AnyItem == {Item(n, r, l, d) : n \in {"", "m1", "m2"}, r \in {"yes", "no", "unsaid"},
                               l \in {<<>>, <<"low">>, <<"low", "high", "low">>}, d \in {"", "low", "high"}}
ASSUME CatalogsOfTheShelves ==
  /\ CatalogsTell(SomeShelves)
  /\ CatalogsTell({<<>>} \cup {<<i>> : i \in AnyItem} \cup {<<i, j>> : i, j \in AnyItem})

SomeWants == {[model |-> None, level |-> None], [model |-> "m1", level |-> "high"],
              [model |-> "m2", level |-> "default"]}

Keyed == [kind |-> "openai", url |-> "u1", model |-> "m2", key |-> "k1"]
Keyless == [kind |-> "responses", url |-> "u1", model |-> None, key |-> None]

OneAdmin == CHOOSE a \in Admins : TRUE
OneCaller == CHOOSE c \in Callers : TRUE

\* One administrator may leave a file operation adrift where nobody calls.
World(store, admins, callers, seed, deaths, clock, changing) ==
  [store |-> store, admins |-> admins, callers |-> callers, seed |-> seed, crashes |-> deaths,
   env |-> IF seed = Keyless THEN "k1" ELSE None, directory |-> TRUE, clock |-> clock,
   leavers |-> IF callers = {} THEN {OneAdmin} ELSE {},
   shelf |-> [u \in Urls |-> IF u = "u1" THEN Wide ELSE Narrow], changing |-> changing]

SettingsWorlds ==
  {World("memory", Admins, {}, s, 1, 0, {}) : s \in {None, Keyed}} \cup
  {World("sql", {OneAdmin}, {}, s, 1, 0, {}) : s \in {None, Keyed, Keyless}}
CallerWorlds ==
  {World("memory", {}, Callers, Keyed, 0, MaxTime, {"u1"}),
   World("memory", {}, {OneCaller}, Keyless, 1, 1, {"u1"})}
BothWorlds == {World("sql", {OneAdmin}, {OneCaller}, Keyed, 0, 1, {})}
AllWorlds == SettingsWorlds \cup CallerWorlds \cup BothWorlds

\* Two administrators on a SQL store.
SharedWorlds == {World("sql", Admins, {}, None, 0, 0, {})}
=============================================================================
