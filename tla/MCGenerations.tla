--------------------------- MODULE MCGenerations ---------------------------
(* Instances of Generations for TLC. *)
EXTENDS Generations

(* The image, two valid manifests, of which the first declares what the    *)
(* second's profile needs, one whose profile does not validate, and one    *)
(* that Parse rejects.                                                     *)
MCManifests == {"one", "two", "bad", "garbled"}
MCFits == {<< "image", "image" >>, << "one", "one" >>, << "two", "two" >>,
           << "one", "two" >>, << "image", "edit" >>, << "edit", "edit" >>,
           << "edit", "image" >>}

(* The second manifest has no settings. *)
MCLevels == [m \in MCManifests |-> CASE m = "one" -> "debug"
                                     [] m = "two" -> None
                                     [] OTHER     -> "warn"]

(* With the ticker, those that Parse accepts. *)
TickerManifests == MCManifests \ {"garbled"}
TickerLevels == [m \in TickerManifests |-> MCLevels[m]]
=============================================================================
