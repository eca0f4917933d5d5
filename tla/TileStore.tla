------------------------------ MODULE TileStore ------------------------------
(***************************************************************************)
(* What the tile cache promises its callers in the native build, without     *)
(* slots, signals, ticks or an eviction order: a set of resident tiles       *)
(* within the budget, at most one owner for a tile that is being fetched,    *)
(* and calls that are answered with exactly the tiles they asked for.        *)
(***************************************************************************)
EXTENDS Integers, Sequences

CONSTANTS
  Workers,    \* running calls
  Keys,       \* tiles
  Requests,   \* the lists calls may ask for
  Weight,     \* bytes of each set of tiles
  MaxBytes,   \* the budget
  Nobody      \* the owner of a tile that no call fetches

VARIABLES
  resident,   \* the tiles held
  owner,      \* the call that fetches each tile
  asked,      \* what each call asked for
  reply       \* "none" while it runs, "ok" or "err"; "ok" before the first

store == <<resident, owner, asked, reply>>

StoreInit ==
  /\ resident = {}
  /\ owner = [k \in Keys |-> Nobody]
  /\ asked = [w \in Workers |-> <<>>]
  /\ reply = [w \in Workers |-> <<"ok", <<>>>>]

\* A call is made; one for no tiles is answered at once.
Ask(w) ==
  /\ reply[w] # <<"none">>
  /\ \E r \in Requests :
       /\ asked' = [asked EXCEPT ![w] = r]
       /\ reply' = [reply EXCEPT ![w] = IF r = <<>> THEN <<"ok", r>> ELSE <<"none">>]
  /\ UNCHANGED <<resident, owner>>

\* It becomes the owner of a tile it asked for that is not there.
Take(w, k) ==
  /\ reply[w] = <<"none">> /\ k \in {asked[w][i] : i \in 1..Len(asked[w])}
  /\ k \notin resident /\ owner[k] = Nobody
  /\ owner' = [owner EXCEPT ![k] = w]
  /\ UNCHANGED <<resident, asked, reply>>

\* The owner publishes a tile; others may have to go.
Publish(w, k) ==
  /\ owner[k] = w
  /\ owner' = [owner EXCEPT ![k] = Nobody]
  /\ resident' \in SUBSET (resident \cup {k})
  /\ Weight[resident'] <= MaxBytes
  /\ UNCHANGED <<asked, reply>>

\* The owner gives a tile up.
GiveUp(w, k) ==
  /\ owner[k] = w
  /\ owner' = [owner EXCEPT ![k] = Nobody]
  /\ UNCHANGED <<resident, asked, reply>>

\* The call is answered, with its tiles or an error, and owns nothing then.
Reply(w) ==
  /\ reply[w] = <<"none">>
  /\ \A k \in Keys : owner[k] # w
  /\ \E r \in {<<"ok", asked[w]>>, <<"err">>} : reply' = [reply EXCEPT ![w] = r]
  /\ UNCHANGED <<resident, owner, asked>>

StoreNext ==
  \E w \in Workers :
    \/ Ask(w) \/ Reply(w)
    \/ \E k \in Keys : Take(w, k) \/ Publish(w, k) \/ GiveUp(w, k)

StoreSpec == StoreInit /\ [][StoreNext]_store

=============================================================================
