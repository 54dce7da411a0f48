------------------------- MODULE MCCredentialMigration -------------------------
(***************************************************************************)
(* The installations that the credential migration is checked on.          *)
(***************************************************************************)
EXTENDS CredentialMigration, TLC

CONSTANTS c1, c2, l1, l2

MCBackends == [b \in BackendIds |-> None]

MCConfig(backends, b1, b2) ==
    [bindings |-> c1 :> b1 @@ c2 :> b2, backends |-> backends @@ MCBackends,
     migration |-> None]

InLegacy(l) == [backend |-> Legacy, locator |-> l]
InTarget(l) == [backend |-> Target, locator |-> l]
InDev(l)    == [backend |-> "dev", locator |-> l]

Secrets(s1, s2) == l1 :> s1 @@ l2 :> s2

Plaintext(owner, s1, s2) ==
    [plaintext |-> [owner |-> owner, entries |-> Secrets(s1, s2)], other |-> None]

NoFiles == [f \in Files |-> None]

MCBounds(kill, config, file, kc, ask) ==
    [kill |-> kill, config |-> config, file |-> file, keychain |-> kc, ask |-> ask]

Install(config, at, kc, bounds) ==
    [config |-> config, files |-> at, keychain |-> kc, bounds |-> bounds]

FromInterim == Legacy :> "plaintext"

MCInstallations == {
    \* Two secrets of the interim releases, every fault on the way.
    Install(MCConfig(FromInterim, InLegacy(l1), InLegacy(l2)),
            Plaintext(Legacy, "a", "b"), NoEntries, MCBounds(2, 1, 1, 1, 0)),
    \* One of them, and requests while the migration is pending.
    Install(MCConfig(FromInterim, InLegacy(l1), None),
            Plaintext(Legacy, "a", None), NoEntries, MCBounds(1, 1, 1, 1, 1)),
    \* One secret has moved already; the store has one that nothing names.
    Install(MCConfig(FromInterim @@ Target :> "keychain", InLegacy(l1), InTarget(l2)),
            Plaintext(Legacy, "a", None), Secrets(None, "b"), MCBounds(0, 0, 1, 1, 2)),
    Install(MCConfig(FromInterim, InLegacy(l1), None),
            Plaintext(Legacy, "a", "b"), Secrets(None, "b"), MCBounds(1, 1, 0, 0, 1)),
    \* Two bindings that become one reference.
    Install(MCConfig(FromInterim @@ Target :> "keychain", InLegacy(l1), InTarget(l1)),
            Plaintext(Legacy, "a", None), NoEntries, MCBounds(1, 1, 0, 0, 1)),
    \* A binding without a secret; no store at all; a new installation.
    Install(MCConfig(FromInterim, InLegacy(l1), InLegacy(l2)),
            Plaintext(Legacy, "a", None), NoEntries, MCBounds(1, 0, 0, 0, 1)),
    Install(MCConfig(FromInterim, InLegacy(l1), None), NoFiles, NoEntries,
            MCBounds(1, 1, 0, 0, 1)),
    Install(MCConfig(MCBackends, None, None), NoFiles, NoEntries, MCBounds(1, 1, 0, 0, 2)),
    \* A backend of a developer at the same path; one that has the target's id.
    Install(MCConfig(FromInterim @@ "dev" :> "alias", InDev(l1), None),
            Plaintext("dev", "a", None), NoEntries, MCBounds(1, 0, 0, 0, 1)),
    Install(MCConfig("dev" :> "alias", InDev(l1), None),
            Plaintext("dev", "a", None), NoEntries, MCBounds(0, 0, 0, 0, 1)),
    Install(MCConfig(FromInterim @@ Target :> "other", InLegacy(l1), None),
            Plaintext(Legacy, "a", None), NoEntries, MCBounds(1, 0, 0, 0, 2)),
    \* Nothing to migrate: requests that overlap.
    Install(MCConfig("dev" :> "other", InDev(l1), InDev(l2)), NoFiles, NoEntries,
            MCBounds(0, 0, 1, 0, 2)),
    Install(MCConfig(Target :> "keychain", InTarget(l1), None), NoFiles, NoEntries,
            MCBounds(0, 0, 0, 1, 3))}
================================================================================
