----------------------------- MODULE DraftItems -----------------------------
(***************************************************************************)
(* The items of a menu draft (menu-draft.mapper.ts): what the model has    *)
(* read becomes items with issues (toMenuDraft), which are computed again  *)
(* for the store as it is when the draft is shown                          *)
(* (recomputeMenuDraftIssues) and when the owner saves it                  *)
(* (reviseMenuDraftItems), and whose categories are settled once more when *)
(* the draft is committed (resolveBulkCategories of menu.service.ts).      *)
(* Descriptions and the lengths of texts are left out, except that names   *)
(* may be cut.                                                             *)
(***************************************************************************)
EXTENDS MenuDraft, Sequences, SequencesExt

CONSTANTS
  Names,       \* names of menus and categories, trimmed, in NFC
  Key,         \* [Names -> normalizeNameKey]: without case and spaces
  Cut,         \* [Names -> Names]: truncate to MENU_NAME_MAX
  TooLong,     \* names longer than CATEGORY_NAME_MAX
  Ids,         \* publicIds of categories
  MaxItems,    \* BULK_MENU_MAX
  Extractions, \* what the model may read: sequences of raw items
  Stores,      \* what a store may be when a draft is made, and later
  Nothing      \* null, undefined, or a text that is blank

ASSUME NameAssumption ==
  /\ DOMAIN Key = Names /\ Cut \in [Names -> Names] /\ TooLong \subseteq Names
  /\ \A n \in Names : Cut[Cut[n]] = Cut[n]
  /\ Nothing \notin Ids \cup Names /\ Ids \cap Names = {}
ASSUME StoresAssumption ==    \* publicId is unique
  \A store \in Stores :
    /\ store.categories \in Seq([id : Ids, name : Names])
    /\ \A i, j \in DOMAIN store.categories :
         store.categories[i].id = store.categories[j].id => i = j
    /\ store.menus \subseteq Names
ASSUME ExtractionsAssumption ==
  \A raw \in Extractions :
    raw \in Seq([name : Names \cup {Nothing}, category : Names \cup {Nothing},
                 price : {"whole", "fraction", "outOfRange", "none"}])
ASSUME MaxItemsAssumption == MaxItems \in Nat \ {0}

-----------------------------------------------------------------------------
(* A store is its categories in their order and the names of its live menus. *)
(* A category that a commit creates has its name for an id.                  *)
SameName(n, m) == Key[n] = Key[m]

Existing(c) == [kind |-> "existing", id |-> c.id, name |-> c.name]
New(name) == [kind |-> "new", id |-> Nothing, name |-> name]
Unknown == [kind |-> "unknown", id |-> Nothing, name |-> Nothing]

(* The maps by name and by publicId: of several with one key the last.       *)
ByName(store, name) ==
  SelectLastInSeq(store.categories, LAMBDA c : SameName(c.name, name))
ById(store, id) == SelectLastInSeq(store.categories, LAMBDA c : c.id = id)
NamedOr(store, name, otherwise) ==
  LET i == ByName(store, name) IN
  IF i = 0 THEN otherwise ELSE Existing(store.categories[i])

(* The issues that depend on the store or on what the owner can fill in.     *)
STATEFUL_ISSUES == {"PRICE_MISSING", "CATEGORY_UNKNOWN", "DUPLICATE_NAME"}

Duplicate(store, names, i) ==    \* seenNames when item i is reached
  \/ \E n \in store.menus : SameName(n, names[i])
  \/ \E j \in DOMAIN names : j < i /\ SameName(names[j], names[i])

UnknownCategory(category) ==
  IF category = Unknown THEN {"CATEGORY_UNKNOWN"} ELSE {}
DuplicateName(store, names, i) ==
  IF Duplicate(store, names, i) THEN {"DUPLICATE_NAME"} ELSE {}
MissingPrice(price) == IF price = Nothing THEN {"PRICE_MISSING"} ELSE {}

-----------------------------------------------------------------------------
(* Mutated forms of the definitions below.                                   *)
StoredAsItWas(store, category) ==
  IF category.kind = "existing" /\ ById(store, category.id) = 0
  THEN Unknown ELSE category
OnePerItem(payload, store, i) ==
  /\ payload[i].categoryName # Nothing
  /\ ByName(store, payload[i].categoryName) = 0

-----------------------------------------------------------------------------
(* toMenuDraft.  A price is read, or not, or out of range, or a fraction.    *)
ReadPrice(raw) == IF raw \in {"whole", "fraction"} THEN "whole" ELSE Nothing
PriceIssues(raw) ==
  CASE raw = "outOfRange" -> {"PRICE_OUT_OF_RANGE"}
    [] raw = "fraction" -> {"PRICE_ROUNDED"}
    [] OTHER -> MissingPrice(ReadPrice(raw))

ReadCategory(store, name) ==
  IF name = Nothing THEN Unknown
  ELSE NamedOr(store, name, IF name \in TooLong THEN Unknown ELSE New(name))

(* The first MaxItems that have a name.  They keep their numbers, in which   *)
(* nothing shows but their order.                                            *)
Kept(raw) ==
  LET named == {i \in DOMAIN raw : raw[i].name # Nothing} IN
  {i \in named : Cardinality({j \in named : j < i}) < MaxItems}

Drafted(raw, store) ==
  LET names == [i \in Kept(raw) |-> Cut[raw[i].name]] IN
  [i \in Kept(raw) |->
       LET category == ReadCategory(store, raw[i].category) IN
       [name |-> names[i], price |-> ReadPrice(raw[i].price), category |-> category,
        issues |-> (IF names[i] # raw[i].name THEN {"NAME_TRUNCATED"} ELSE {})
                   \cup PriceIssues(raw[i].price)
                   \cup UnknownCategory(category)
                   \cup DuplicateName(store, names, i)]]

NamesOf(items) == [i \in DOMAIN items |-> items[i].name]

(* recomputeMenuDraftIssues, with resolveStoredCategory.                     *)
StoredCategory(store, category) ==
  CASE category.kind = "existing" /\ ById(store, category.id) # 0 ->
         Existing(store.categories[ById(store, category.id)])
    [] category.kind = "unknown" -> Unknown
    [] OTHER -> NamedOr(store, category.name,
                        IF category.kind = "new" THEN category ELSE Unknown)

Recomputed(items, store) ==
  [i \in DOMAIN items |->
    LET category == StoredCategory(store, items[i].category) IN
    [items[i] EXCEPT
      !.category = category,
      !.issues = (@ \ STATEFUL_ISSUES) \cup UnknownCategory(category)
                 \cup MissingPrice(items[i].price)
                 \cup DuplicateName(store, NamesOf(items), i)]]

(* reviseMenuDraftItems, with resolveEditedCategory: a payload has a         *)
(* categoryId or a categoryName or neither; an unknown categoryId is a 404.  *)
Refused(payload, store) ==
  \E i \in DOMAIN payload : payload[i].categoryId # Nothing
                            /\ ById(store, payload[i].categoryId) = 0

EditedCategory(store, item) ==
  CASE item.categoryId # Nothing ->
         Existing(store.categories[ById(store, item.categoryId)])
    [] item.categoryId = Nothing /\ item.categoryName # Nothing ->
         NamedOr(store, item.categoryName, New(item.categoryName))
    [] OTHER -> Unknown

Revised(payload, store) ==
  [i \in DOMAIN payload |->
    LET category == EditedCategory(store, payload[i]) IN
    [name |-> payload[i].name, price |-> payload[i].price, category |-> category,
     issues |-> UnknownCategory(category) \cup MissingPrice(payload[i].price)
                \cup DuplicateName(store, NamesOf(payload), i)]]

(* resolveBulkCategories: a name that no category has, nor an earlier item   *)
(* of the payload, becomes a category.                                       *)
FirstOfItsName(payload, store, i) ==
  /\ payload[i].categoryName # Nothing
  /\ ByName(store, payload[i].categoryName) = 0
  /\ \A j \in DOMAIN payload :
       j < i /\ payload[j].categoryName # Nothing
       => ~SameName(payload[j].categoryName, payload[i].categoryName)

(* No two of the new ones have one name, so that their order says nothing.   *)
CategoriesAfter(payload, store) ==
  LET first == SetToSeq({i \in DOMAIN payload : FirstOfItsName(payload, store, i)})
  IN store.categories \o
     [k \in DOMAIN first |-> [id |-> payload[first[k]].categoryName,
                              name |-> payload[first[k]].categoryName]]

StoreAfter(payload, store) ==
  [categories |-> CategoriesAfter(payload, store),
   menus |-> store.menus \cup ToSet(NamesOf(payload))]

Assigned(payload, store, i) ==
  LET after == StoreAfter(payload, store) IN
  IF payload[i].categoryId # Nothing THEN payload[i].categoryId
  ELSE after.categories[ByName(after, payload[i].categoryName)].id

-----------------------------------------------------------------------------
(* The payload that says what was shown (external: the owner's screen).      *)
Echo(items) ==
  [i \in DOMAIN items |->
    LET c == items[i].category IN
    [name |-> items[i].name, price |-> items[i].price,
     categoryId |-> c.id,
     categoryName |-> IF c.kind = "new" THEN c.name ELSE Nothing]]

Shown(raw, then, now) == Recomputed(Drafted(raw, then), now)

(* Saving what was shown, in an unchanged store, is not refused and changes  *)
(* nothing but the record of what the server had altered: the three          *)
(* resolutions of a category and the three computations of issues agree      *)
(* (resolveCategory, resolveStoredCategory, resolveEditedCategory).          *)
SavingKeepsShown ==
  \A raw \in Extractions, then, now \in Stores :
    LET shown == Shown(raw, then, now) IN
    /\ ~Refused(Echo(shown), now)
    /\ Revised(Echo(shown), now) =
         [i \in DOMAIN shown |-> [shown[i] EXCEPT !.issues = @ \cap STATEFUL_ISSUES]]

(* A draft shown without an open price or category can be committed, and     *)
(* every item lands in the category it was shown in: an existing one, or one *)
(* created under that name once.  Shown again it has nothing left to create  *)
(* (resolveBulkCategories and the mapper use one key).                       *)
CommitKeepsShown ==
  \A raw \in Extractions, then, now \in Stores :
    LET shown == Shown(raw, then, now)
        payload == Echo(shown)
        after == StoreAfter(payload, now)
        again == Recomputed(shown, after)
        open == {i \in DOMAIN shown :
                   shown[i].issues \cap {"PRICE_MISSING", "CATEGORY_UNKNOWN"} # {}}
    IN open = {} =>
       /\ ~Refused(payload, now)
       /\ \A i \in DOMAIN shown :
            /\ shown[i].price # Nothing
            /\ shown[i].category.kind = "existing" =>
                 Assigned(payload, now, i) = shown[i].category.id
            /\ again[i].category.kind = "existing"
            /\ again[i].category.id = Assigned(payload, now, i)
            /\ "DUPLICATE_NAME" \in again[i].issues
       /\ \A j \in DOMAIN after.categories :
            j > Len(now.categories) =>
              ByName(after, after.categories[j].name) = j

-----------------------------------------------------------------------------
(* A draft that is there, whatever was read for it and whatever has become   *)
(* of the store, is kept as it is shown when the owner saves it              *)
(* (recomputeMenuDraftIssues, reviseMenuDraftItems).                         *)
SavedAsShown == AliveDrafts # {} => SavingKeepsShown

(* And it lands in the menu as it is shown when the owner commits it         *)
(* (recomputeMenuDraftIssues, resolveBulkCategories).                        *)
CommittedAsShown == AliveDrafts # {} => CommitKeepsShown
=============================================================================
