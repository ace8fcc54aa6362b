----------------------------- MODULE Deployment -----------------------------
(***************************************************************************)
(* How the diamond comes to the services of docker-compose.yml: a deployer *)
(* that runs once and ends (apps/contracts/scripts/deploy/deploy-          *)
(* diamond.ts) builds it on a chain that lives in memory and writes its    *)
(* address to a volume; issuer and verifier read that as they start        *)
(* (libs/common/src/config/blockchain.schema.ts).  dev-runner.mjs brings   *)
(* all of it up, or a service.                                             *)
(*                                                                         *)
(* An address does not tell its chain: it is made of the creator's and of  *)
(* how many transactions that account has sent, and the deployer's account *)
(* is the same on every chain and starts again from none.  A diamond gets  *)
(* any address that this chain has not given one yet, the failed runs and  *)
(* the owner's own transactions being counted too; on another chain it may *)
(* have been another diamond's.                                            *)
(*                                                                         *)
(* The env files the deployer writes are in its own container, where       *)
(* nothing reads them, and are left out.                                   *)
(***************************************************************************)
EXTENDS Naturals, Sequences

CONSTANTS
    Services,           \* those that read the shared config
    DiamondAddresses,   \* bound: the addresses that diamonds get, on any chain
    NoDiamond,          \* no address
    Torn,               \* a file cut off in the middle
    Off,                \* a service that does not run
    MaxBoots            \* bound: starts of the chain

Keepers == {"deployer", "config", "checkpoint"}

ASSUME DeploymentAssumption ==
    /\ MaxBoots \in Nat
    /\ Off # NoDiamond /\ NoDiamond # Torn
    /\ {NoDiamond, Torn, Off} \cap DiamondAddresses = {}
    /\ Services \cap Keepers = {}

\* Fault: the address is saved as soon as it is known.
SavedEarly == <<"deployment_pending",
    "DiamondCutFacet", "Diamond", "saveToSharedConfig", "DiamondInit", "DiamondLoupeFacet",
    "OwnershipFacet", "TrustedIssuerFacet", "CredentialStatusFacet", "AttestationBatchFacet",
    "diamondCut", "addTrustedIssuer", "ready">>

\* deployDiamond with DEPLOY_INIT, one await after the other.
Script == <<"deployment_pending",
    "DiamondCutFacet", "Diamond", "DiamondInit", "DiamondLoupeFacet", "OwnershipFacet",
    "TrustedIssuerFacet", "CredentialStatusFacet", "AttestationBatchFacet",
    "diamondCut", "addTrustedIssuer", "saveToSharedConfig", "ready">>

Files == {"deployment_pending", "saveToSharedConfig", "ready"}

VARIABLES
    node,           \* the chain is up
    boot,           \* bound: starts of the chain so far
    diamonds,       \* of this chain, by address: how far each is
    deployer,       \* "created", "running", "failed" or "done"
    line,           \* of Script, next to run
    diamond,        \* the deployer's constant
    config,         \* /shared/diamond-config.json
    checkpoint,     \* .checkpoint.docker.json
    wanted,         \* services that docker compose starts when the deployer is done
    running,        \* by service: Off, or the address it resolved as it started
    fresh           \* history: who holds an address that was made on this chain

chain == <<node, boot, diamonds>>
deployVars == <<chain, deployer, line, diamond, config, checkpoint, wanted, running, fresh>>

DeployTypeOK ==
    /\ node \in BOOLEAN /\ boot \in 0 .. MaxBoots
    /\ diamonds \in [DiamondAddresses -> {"none", "bare", "cut", "complete"}]
    /\ deployer \in {"created", "running", "failed", "done"}
    /\ line \in 1 .. Len(Script) + 1
    /\ diamond \in DiamondAddresses \cup {NoDiamond}
    /\ config \in DiamondAddresses \cup {NoDiamond, Torn}
    /\ checkpoint \in [status : {"none", "deployment_pending", "ready"},
                       diamond : DiamondAddresses \cup {NoDiamond}]
    /\ wanted \subseteq Services
    /\ running \in [Services -> DiamondAddresses \cup {NoDiamond, Off}]
    /\ fresh \subseteq Services \cup Keepers

NoDiamonds == [d \in DiamondAddresses |-> "none"]
NoCheckpoint == [status |-> "none", diamond |-> NoDiamond]

\* resolveDiamondAddress: a config that does not parse is no config, and the
\* variables it falls back on are empty.
ResolveDiamondAddress == IF config = Torn THEN NoDiamond ELSE config

\* x takes over the address that y holds.
TakesOver(x, y) == fresh' = IF y \in fresh THEN fresh \cup {x} ELSE fresh \ {x}

-----------------------------------------------------------------------------
(* docker compose. *)

EmptyChain ==
    /\ boot < MaxBoots
    /\ node' = TRUE /\ boot' = boot + 1 /\ diamonds' = NoDiamonds /\ fresh' = {}

\* up: the chain, left alone if it runs and its image is the same, the deployer
\* once more, in its old container or a new one, and the services asked for when
\* it is done.
Up(services) ==
    /\ deployer # "running"
    /\ deployer' = "running" /\ line' = 1 /\ diamond' = NoDiamond
    /\ wanted' = services
    /\ checkpoint' \in {checkpoint, NoCheckpoint}
    /\ \/ EmptyChain
       \/ /\ node /\ UNCHANGED chain
          /\ fresh' = fresh \ ({"deployer"} \cup {x \in {"checkpoint"} : checkpoint' # checkpoint})
    /\ UNCHANGED <<config, running>>

\* dev-runner starts the chain by itself before a service.
UpHardhat ==
    /\ ~ node
    /\ EmptyChain
    /\ UNCHANGED <<deployer, line, diamond, config, checkpoint, wanted, running>>

Resolves(s) ==
    /\ running' = [running EXCEPT ![s] = ResolveDiamondAddress]
    /\ TakesOver(s, "config")

\* A service that runs is left alone or replaced by its new image.
Starts(s) ==
    /\ deployer = "done" /\ s \in wanted
    /\ wanted' = wanted \ {s}
    /\ \/ Resolves(s)
       \/ running[s] # Off /\ UNCHANGED <<running, fresh>>
    /\ UNCHANGED <<chain, deployer, line, diamond, config, checkpoint>>

\* restart: unless-stopped, after a crash.
Restarts(s) ==
    /\ running[s] # Off
    /\ Resolves(s)
    /\ UNCHANGED <<chain, deployer, line, diamond, config, checkpoint, wanted>>

\* down, by Ctrl+C: the volume stays.
Down ==
    /\ node /\ node' = FALSE /\ diamonds' = NoDiamonds /\ fresh' = {}
    /\ deployer' = "created" /\ line' = 1 /\ diamond' = NoDiamond
    /\ checkpoint' = NoCheckpoint
    /\ wanted' = {} /\ running' = [s \in Services |-> Off]
    /\ UNCHANGED <<boot, config>>

-----------------------------------------------------------------------------
(* The deployer. *)

Running(name) == deployer = "running" /\ line \in DOMAIN Script /\ Script[line] = name

Proceeds ==
    /\ line' = line + 1
    /\ deployer' = IF line = Len(Script) THEN "done" ELSE "running"

\* A call to the deployer's diamond.  Where the chain was emptied under it, it fails
\* if another contract is there by now; if none is, it succeeds and does nothing.
Call(how) ==
    diamonds' = IF diamonds[diamond] = "none" THEN diamonds
                ELSE [diamonds EXCEPT ![diamond] = how]

\* One transaction, and its receipt.
Transacts ==
    /\ deployer = "running" /\ Script[line] \notin Files
    /\ node /\ Proceeds
    /\ \/ Running("Diamond") /\ fresh' = fresh \cup {"deployer"}
          /\ \E d \in DiamondAddresses :
                /\ diamonds[d] = "none" /\ diamond' = d
                /\ diamonds' = [diamonds EXCEPT ![d] = "bare"]
       \/ Running("diamondCut") /\ Call("cut") /\ UNCHANGED <<diamond, fresh>>
       \/ Running("addTrustedIssuer") /\ Call("complete") /\ UNCHANGED <<diamond, fresh>>
       \/ Script[line] \notin {"Diamond", "diamondCut", "addTrustedIssuer"}
          /\ UNCHANGED <<diamonds, diamond, fresh>>
    /\ UNCHANGED <<node, boot, config, checkpoint, wanted, running>>

\* updateCheckpoint keeps the fields it is not given; its errors are warnings.
UpdateCheckpoint ==
    /\ \/ Running("deployment_pending")
          /\ checkpoint' \in {checkpoint, [checkpoint EXCEPT !.status = "deployment_pending"]}
          /\ UNCHANGED fresh
       \/ Running("ready") /\ UNCHANGED <<checkpoint, fresh>>
       \/ Running("ready")
          /\ checkpoint' = [status |-> "ready", diamond |-> diamond]
          /\ TakesOver("checkpoint", "deployer")
    /\ Proceeds
    /\ UNCHANGED <<chain, diamond, config, wanted, running>>

\* saveToSharedConfig: writeFileSync cuts the file off, then writes it.
CutsConfig ==
    /\ Running("saveToSharedConfig") /\ config # Torn
    /\ config' = Torn /\ fresh' = fresh \ {"config"}
    /\ UNCHANGED <<chain, deployer, line, diamond, checkpoint, wanted, running>>

\* Written, or an error, before the file was cut or after, that is only logged.
SaveToSharedConfig ==
    /\ Running("saveToSharedConfig")
    /\ \/ UNCHANGED <<config, fresh>>
       \/ config = Torn /\ config' = diamond /\ TakesOver("config", "deployer")
    /\ Proceeds
    /\ UNCHANGED <<chain, diamond, checkpoint, wanted, running>>

\* A call that fails, or the process killed: docker compose starts nothing more.
DeployerFails ==
    /\ deployer = "running"
    /\ deployer' = "failed" /\ wanted' = {}
    /\ line' = 1 /\ diamond' = NoDiamond /\ fresh' = fresh \ {"deployer"}
    /\ UNCHANGED <<chain, config, checkpoint, running>>

\* The chain comes back empty, under the deployer too.
NodeRestarts ==
    /\ node /\ EmptyChain
    /\ UNCHANGED <<deployer, line, diamond, config, checkpoint, wanted, running>>

-----------------------------------------------------------------------------

DeployInit ==
    /\ node = FALSE /\ boot = 0 /\ diamonds = NoDiamonds /\ fresh = {}
    /\ deployer = "created" /\ line = 1 /\ diamond = NoDiamond
    /\ config = NoDiamond /\ checkpoint = NoCheckpoint
    /\ wanted = {} /\ running = [s \in Services |-> Off]

DeployNext ==
    \/ \E services \in SUBSET Services \ {{}} : Up(services)
    \/ \E s \in Services : Starts(s) \/ Restarts(s)
    \/ UpHardhat \/ Transacts \/ UpdateCheckpoint \/ CutsConfig \/ SaveToSharedConfig
    \/ DeployerFails \/ NodeRestarts \/ Down

DeploySpec == DeployInit /\ [][DeployNext]_deployVars

-----------------------------------------------------------------------------

AddressOf(x) ==
    CASE x = "deployer" -> diamond
      [] x = "config" -> config
      [] x = "checkpoint" -> checkpoint.diamond
      [] x \in Services -> running[x]

\* An address made on the chain there is reaches volume, checkpoint and services
\* only when its diamond has all its facets and trusts its deployer, whatever fails,
\* restarts or is brought up twice.  (One kept from an earlier chain may name no
\* diamond, or the one that is being built.)
PublishedIsComplete ==
    node => \A x \in fresh \ {"deployer"} : diamonds[AddressOf(x)] = "complete"

=============================================================================
