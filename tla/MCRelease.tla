----------------------------- MODULE MCRelease -----------------------------
(* A small instance of the release for TLC: a prerelease that is out, the next  *)
(* one, and the release; the real manifest in small.                       *)
EXTENDS Release, TLC

Out == [core |-> 1, pre |-> <<<<1, 1>>, <<0, 1>>>>]
Next1 == [core |-> 1, pre |-> <<<<1, 1>>, <<0, 2>>>>]
Full == [core |-> 1, pre |-> <<>>]

MCVersion == {Out, Next1, Full}
MCFileOf == [package |-> "package.json", plugin |-> "plugin.json", install |-> "README.md",
             extra |-> "docs", dated |-> "docs", h0 |-> "CHANGELOG.md", h1 |-> "CHANGELOG.md",
             h2 |-> "CHANGELOG.md"]
MCPlace == DOMAIN MCFileOf
MCHeadingOf == (Out :> "h0") @@ (Next1 :> "h1") @@ (Full :> "h2")

Locator(at, kind, class, only) ==
  [at |-> at, kind |-> kind, class |-> class, occurrences |-> 1, only |-> only]

Listed ==
  {Locator({"package"}, "json-pointer", "mutable", AnyVersion),
   Locator({"install"}, "anchored-text", "mutable", AnyVersion),
   Locator({"h0", "h1", "h2"}, "anchored-text", "retained", AnyVersion),
   Locator({"dated"}, "anchored-text", "retained", Out)}
Plugin == Locator({"plugin"}, "json-pointer", "mutable", AnyVersion)
Extra == Locator({"extra"}, "anchored-text", "mutable", AnyVersion)

\* As it is, without the plugin, and with the new place.
MCManifests == {Listed \cup {Plugin}, Listed, Listed \cup {Plugin, Extra}}

Start(plugin, extra, notes) ==
  [names |-> [package |-> Out, plugin |-> plugin, install |-> Out, extra |-> extra,
              dated |-> Out, h0 |-> Out, h1 |-> Nothing, h2 |-> Nothing],
   notes |-> notes, channel |-> "next",
   manifest |-> IF plugin = Out THEN Listed \cup {Plugin} ELSE Listed]

\* As it should be; without notes; naming a version before its time; and with a
\* plugin that was left behind and is not listed.
MCStartTrees ==
  {Start(Out, Nothing, TRUE), Start(Out, Nothing, FALSE), Start(Out, Full, TRUE),
   Start(Nothing, Nothing, TRUE)}
=============================================================================
