--------------------------- MODULE RegistryContent ---------------------------
(***************************************************************************)
(* One repository of Distribution, which is external: the manifests it     *)
(* serves and where its tags point.  A digest is a content address, so     *)
(* what a manifest lists and refers to never changes.  The operators are   *)
(* the questions Grom asks of it through                                   *)
(* backend/internal/registry/infrastructure/distribution/client.go and     *)
(* the last look before a manifest is deleted, manifest_deletion.go.       *)
(***************************************************************************)
EXTENDS ManifestGraph

CONSTANTS Tags,
          PlatformsOf,   \* what each manifest lists: itself, or its children
          SubjectOf,     \* the subject each manifest refers to, or NoSubject
          Nothing        \* no digest, no tag

ASSUME ContentAssumption ==
  /\ Nothing \notin Digests \cup Tags
  /\ PlatformsOf \in [Digests -> Seq(Digests)]
  /\ SubjectOf \in [Digests -> Digests \cup {NoSubject}]

VARIABLES live,     \* the manifests Distribution serves
          tagOf     \* the manifest of each tag, or Nothing

registry == <<live, tagOf>>

\* A manifest and everything it lists, as FetchManifest returns it.
Content == [d \in Digests |-> [platforms |-> PlatformsOf[d]]]
Tree == [d \in Digests |-> Descendants(Content, d)]

\* FetchManifest succeeds only when the whole tree can be fetched.
Fetchable(d) == d \in Digests /\ Tree[d] \subseteq live

Referrers(d) == {r \in live : SubjectOf[r] = d}

\* revalidateDeletionChildren, on the tags read before it and an inventory
\* listed before them; with no children there is nothing to look at.
StillUnneeded(view, tagged, target, children) ==
  LET listing == {m \in DOMAIN view \ (children \cup {target}) :
                    ~IsHistory(view[m]) /\ PlatformSet(view[m]) \cap children # {}}
      roots == (tagged \ {target}) \cup listing
  IN \/ children = {}
     \/ /\ tagged \cap children = {}
        /\ \A r \in roots \cap live :
             Fetchable(r) /\ (Tree[r] \ {r}) \cap children = {}
        /\ \A c \in children :
             Fetchable(c) /\ SubjectOf[c] = NoSubject /\ Referrers(c) = {}
=============================================================================
