----------------------------- MODULE SiteConfig -----------------------------
(***************************************************************************)
(* What a site is built from: the files `polaris scaffold-publish` and the *)
(* publish itself write, the audit of the start command, and secrets.env,  *)
(* which the publishes and rollbacks of a project share for good           *)
(* (polaris.py; services/publish.py).                                      *)
(***************************************************************************)
EXTENDS Naturals, Sequences, SequencesExt

CONSTANTS MaxRounds   \* bound: publishes and rollbacks, and no edit after the last

ASSUME SiteAssumption == MaxRounds \in Nat

VARIABLES
    manifest,   \* what polaris.yaml declares, NoManifest when there is none
    deployed,   \* manifests that have been published and are in an archive
    site,       \* the manifest the site has been deployed with last
    vault,      \* secrets.env
    rounds,
    start,      \* the start command the audit reads
    verdict     \* what the audit says

siteConfigVars == <<manifest, deployed, site, vault, rounds, start, verdict>>

-----------------------------------------------------------------------------
(* The audit of the start command, a sequence of words: an assignment,     *)
(* a wrapper (npm, pnpm, yarn), npx, a path, the name of a binary of       *)
(* node_modules, any other word, and the "&&" between two commands.        *)

Words == {"K=v", "npm", "npx", "./path", "bin", "word", "&&"}

\* Words are counted without the operators of the shell: the place of the next one
\* after i, or the end.
Following(cmd, i) ==
    Min({j \in DOMAIN cmd : j > i /\ cmd[j] # "&&"} \cup {Len(cmd) + 1})

\* Mutant: the assignments are taken for the command.
SkipAll(cmd, i) ==
    IF cmd[i] \in {"npm", "npx", "K=v"} THEN Following(cmd, Following(cmd, i)) ELSE Following(cmd, i)

\* A wrapper is skipped with the word it is given.
Skip(cmd, i) ==
    IF cmd[i] \in {"npm", "npx"} THEN Following(cmd, Following(cmd, i)) ELSE Following(cmd, i)

\* _check_bare_node_bins: the places where a bare binary is found.
BareNodeBins(cmd) ==
    LET scan[i \in 1..(Len(cmd) + 1)] ==
            IF i > Len(cmd) THEN {}
            ELSE (IF cmd[i] = "bin" THEN {i} ELSE {}) \cup scan[Skip(cmd, i)]
    IN  scan[Following(cmd, 0)]

\* What the shell does: the first word of a command that is no assignment is run.
ShellRuns(cmd, i) ==
    \E j \in 1..i :
        /\ j = 1 \/ cmd[j - 1] = "&&"
        /\ \A k \in j..(i - 1) : cmd[k] = "K=v"

\* The command before the word i ends in a wrapper, as in `yarn && next start`.
BehindWrapper(cmd, i) ==
    \E w \in 1..(i - 1) :
        cmd[w] \in {"npm", "npx"} /\ \A k \in (w + 1)..(i - 1) : cmd[k] = "&&"

\* The part of `polaris prepublish-audit` that reads polaris.yaml of a node or spa
\* stack, in a project that nobody works on.
Audit ==
    /\ verdict = "none"
    /\ verdict' = IF BareNodeBins(start) = {} THEN "passed" ELSE "failed"
    /\ UNCHANGED <<manifest, deployed, site, vault, rounds, start>>

-----------------------------------------------------------------------------
(* Stacks and templates.                                                   *)

Stacks    == {"spa", "node", "node-prisma", "python", "static"}
CliStacks == {"spa", "node", "python", "static", "custom"}
Markers   == [pkg : BOOLEAN, vite : BOOLEAN, prisma : BOOLEAN, py : BOOLEAN, html : BOOLEAN]

DetectStack(repo) ==
    IF repo.pkg THEN IF repo.vite THEN "spa" ELSE IF repo.prisma THEN "node-prisma" ELSE "node"
    ELSE IF repo.py THEN "python"
    ELSE IF repo.html THEN "static"
    ELSE "custom"

\* The manifest of every template.
Plain == [deps |-> {}, secrets |-> {}, env |-> 0]
Manifests == [deps : SUBSET {"postgres"}, secrets : SUBSET {"DATABASE_URL", "SECRET"}, env : 0..1]
NoManifest == [deps |-> {}, secrets |-> {}, env |-> 2]

\* `polaris scaffold-publish --stack=...`: there is no template for "custom", and a
\* file that exists is skipped without --force.
Scaffold(stack, force) ==
    /\ stack \in CliStacks \cap Stacks
    /\ rounds < MaxRounds
    /\ manifest = NoManifest \/ force
    /\ manifest' = Plain
    /\ UNCHANGED <<deployed, site, vault, rounds, start, verdict>>

\* The agent writes polaris.yaml, or edits what the template has left.
WriteManifest(m) ==
    /\ rounds < MaxRounds
    /\ manifest' = m
    /\ UNCHANGED <<deployed, site, vault, rounds, start, verdict>>

-----------------------------------------------------------------------------
(* materialize_secrets                                                     *)

Absent == [src |-> "none", n |-> 0, escaped |-> 0]
Random == [src |-> "random", n |-> rounds + 1, escaped |-> 1]
Static(v) == [src |-> "static", n |-> v, escaped |-> 1]
UrlOf(password) == [src |-> "composed", n |-> password.n, escaped |-> 1]

Keys == {"POSTGRES_PASSWORD", "DATABASE_URL", "SECRET", "SETTING"}
Exists(k) == vault[k] # Absent

\* Mutant: the password is drawn for every publish.
RotatedPassword(m) == IF "postgres" \in m.deps THEN Random ELSE vault["POSTGRES_PASSWORD"]

Password(m) ==
    IF "postgres" \in m.deps /\ ~Exists("POSTGRES_PASSWORD") THEN Random
    ELSE vault["POSTGRES_PASSWORD"]

Declared(m, k) ==
    IF k = "POSTGRES_PASSWORD" THEN Password(m)
    ELSE IF k \notin m.secrets \/ Exists(k) THEN vault[k]
    ELSE IF k = "DATABASE_URL" /\ "postgres" \in m.deps THEN UrlOf(Password(m))
    ELSE Random

\* Only a static value can hold a "$", which every write doubles again; generated
\* ones have none.
Written(v) == IF v.src = "static" THEN [v EXCEPT !.escaped = @ + 1] ELSE v

\* A new file, or one that lacks a secret, is written, with the static values that
\* it does not have; otherwise it is left alone.
Materialize(m) ==
    LET wanted == [k \in Keys |-> Declared(m, k)]
        first  == \A k \in Keys : ~Exists(k)
    IN  vault' = IF wanted = vault /\ ~first THEN vault
                 ELSE [k \in Keys |->
                         IF k = "SETTING" /\ m.env # 0 /\ ~Exists(k) THEN Static(m.env)
                         ELSE Written(wanted[k])]

Deploy(m) ==
    /\ rounds < MaxRounds /\ rounds' = rounds + 1
    /\ Materialize(m)
    /\ site' = m
    /\ deployed' = deployed \cup {m}

\* auto_scaffold_if_missing, load_manifest, materialize_secrets.
PublishSite(repo) ==
    /\ IF manifest # NoManifest THEN UNCHANGED manifest
       ELSE DetectStack(repo) # "custom" /\ manifest' = Plain
    /\ Deploy(manifest')
    /\ UNCHANGED <<start, verdict>>

\* A rollback takes the manifest from the archive.
RollBackSite ==
    /\ \E m \in deployed : Deploy(m)
    /\ UNCHANGED <<manifest, start, verdict>>

-----------------------------------------------------------------------------
SiteInit ==
    /\ manifest = NoManifest /\ site = NoManifest
    /\ deployed = {}
    /\ vault = [k \in Keys |-> Absent]
    /\ rounds = 0
    /\ verdict = "none"

SiteNext ==
    \/ \E stack \in CliStacks, force \in BOOLEAN : Scaffold(stack, force)
    \/ \E m \in Manifests : WriteManifest(m)
    \/ \E repo \in Markers : PublishSite(repo)
    \/ RollBackSite

-----------------------------------------------------------------------------
SiteTypeOK ==
    /\ {manifest, site} \subseteq Manifests \cup {NoManifest}
    /\ deployed \subseteq Manifests
    /\ vault \in [Keys -> [src : {"none", "random", "composed", "static"}, n : Nat, escaped : Nat]]
    /\ rounds \in 0..MaxRounds
    /\ start \in Seq(Words)
    /\ verdict \in {"none", "passed", "failed"}

\* What the shell would run without a path to it the audit finds, whatever
\* assignments, wrappers and commands are in front, with one exception: a wrapper
\* that ends its command takes the first word of the next one (`yarn && next start`
\* passes).
AuditFindsBareBins ==
    verdict = "passed" =>
        \A i \in DOMAIN start :
            start[i] = "bin" /\ ShellRuns(start, i) => BehindWrapper(start, i)

\* polaris.py:89: "Bare `next start ...` / `tsx foo.ts` -> fail", without exception.
AuditFindsEveryBin ==
    verdict = "passed" => \A i \in DOMAIN start : start[i] = "bin" => ~ShellRuns(start, i)

\* What a publish has generated is there for good, whatever later manifests declare
\* and whichever archive a rollback takes its manifest from ("passwords do NOT
\* rotate - cross-publish data volumes stay openable"); and the URL the platform
\* has composed opens the database.
SiteKeepsSecrets ==
    [][/\ \A k \in Keys : vault[k].src \in {"random", "composed"} => vault'[k] = vault[k]
       /\ vault'["DATABASE_URL"].src = "composed" =>
             vault'["DATABASE_URL"].n = vault'["POSTGRES_PASSWORD"].n
      ]_siteConfigVars

\* publish.py:367: the app and the database "always agree on the credential".
AppOpensDatabase ==
    "postgres" \in site.deps /\ "DATABASE_URL" \in site.secrets =>
        vault["DATABASE_URL"].src = "composed"

\* docs/CONFIGURATION.md:264: "All values ... have $ escaped as $$", which compose undoes.
EscapedOnce == vault["SETTING"].escaped <= 1

\* polaris.yaml of the templates: env is "baked into deploys".
SiteHasSetting ==
    site # NoManifest /\ site.env # 0 => vault["SETTING"].n = site.env
=============================================================================
