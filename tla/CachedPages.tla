----------------------------- MODULE CachedPages ------------------------------
(***************************************************************************)
(* Brands, the blog, stories and settings behind the Redis cache: a write, *)
(* its invalidations and the rows that follow are statements of their own, *)
(* and pages are read and set in between.                                  *)
(*                                                                         *)
(* A behaviour follows one row of one kind and one key that shows it: the  *)
(* entries of the cache do not influence one another.                      *)
(***************************************************************************)
EXTENDS Integers, Sequences

CONSTANTS
    Slugs,             \* none is the beginning of another one
    ContentInputs,     \* what a request may set: any of slug, shown and text
    PageHandlers,      \* requests in flight together
    MaxContentChanges, \* bound: requests that write
    MaxViews,          \* bound: the views counted
    AnySlug, NoRow, NoPage, NotFound

ASSUME PageConstantsOK ==
    /\ MaxViews \in Nat
    /\ \A new \in ContentInputs :
          /\ DOMAIN new \subseteq {"slug", "shown", "text"}
          /\ "slug" \in DOMAIN new => new.slug \in Slugs
          /\ "shown" \in DOMAIN new => new.shown \in BOOLEAN

VARIABLES
    kind,              \* the kind of the row this behaviour is about
    pageKey,           \* the key, as a prefix and a slug
    content,           \* slug, shown (isActive, PUBLISHED), text, linked (its products), views
    page,              \* what Redis holds under the key
    cacheUp,           \* isRedisReady
    pageReq,           \* the handlers in flight
    contentChanges,    \* bound
    pageOutdated       \* history: why the page may be an old one

pagesVars == <<kind, pageKey, content, page, cacheUp, pageReq, contentChanges, pageOutdated>>
-------------------------------------------------------------------------------
Kinds == {"brand", "blog-category", "blog-post", "story", "setting"}

\* What a request of the kind may set.
FieldsOf(k) ==
    CASE k \in {"brand", "blog-post"} -> {"slug", "shown", "text"}
      [] k = "blog-category"          -> {"slug", "text"}
      [] k = "story"                  -> {"shown", "text"}
      [] k = "setting"                -> {"text"}

\* These are never invalidated: 15 or 30 seconds is all.
ShortLived == {"product-list", "product-filters", "product-detail", "landing-page"}

\* The prefixes of the keys under which a row of the kind is seen.
PrefixesOf(k) ==
    CASE k = "brand"         -> {"brand:slug", "brand-list:true", "brand-list:false"} \cup ShortLived
      [] k = "blog-category" -> {"blog-category:slug", "blog-category-list"}
      [] k = "blog-post"     -> {"blog-post:slug", "blog-post-list", "product-detail", "landing-page"}
      [] k = "story"         -> {"active-stories:list", "landing-page"}
      [] k = "setting"       -> {"public-settings", "landing-page"}

BySlug == {"brand:slug", "blog-category:slug", "blog-post:slug"}

\* The prefixes of the keys that begin with what invalidateCache is given.
BeginningWith(prefix) ==
    CASE prefix = "brand"          -> {"brand:slug", "brand-list:true", "brand-list:false"}
      [] prefix = "blog-category"  -> {"blog-category:slug", "blog-category-list"}
      [] prefix = "active-stories" -> {"active-stories:list"}
      [] OTHER                     -> {prefix}
-------------------------------------------------------------------------------
(* What the readers of the pages fetch, given the row.                      *)

Found(r, s) == r # NoRow /\ r.slug = s

GetBrandBySlug(r, s) == IF Found(r, s) THEN <<r.shown, r.text>> ELSE NotFound

ListBrands(r, includeInactive) ==
    IF r # NoRow /\ (includeInactive \/ r.shown) THEN <<r.slug, r.shown, r.text>> ELSE <<>>

GetBlogCategoryBySlug(r, s) == IF Found(r, s) THEN <<r.text>> ELSE NotFound

ListBlogCategories(r) == IF r = NoRow THEN <<>> ELSE <<r.slug, r.text>>

GetBlogPostBySlugPublic(r, s) ==
    IF Found(r, s) /\ r.shown THEN <<r.text, r.linked>> ELSE NotFound

\* With the number of views.
ListBlogPostsPublic(r) == IF r # NoRow /\ r.shown THEN <<r.slug, r.text, r.views>> ELSE <<>>

ListActiveStories(r) == IF r # NoRow /\ r.shown THEN <<r.text, r.linked>> ELSE <<>>

GetPublicSettings(r) == IF r = NoRow THEN <<>> ELSE <<r.text>>

\* A product of the brand shows it, active or not.
ListProductsStorefront(r) == IF r # NoRow /\ r.linked THEN <<r.slug, r.shown, r.text>> ELSE <<>>

GetStorefrontFilters(r) ==
    IF r # NoRow /\ r.shown /\ r.linked THEN <<r.slug, r.text>> ELSE <<>>

\* The posts that name the product, drafts too.
GetRelatedBlogPosts(r) == IF r # NoRow /\ r.linked THEN <<r.slug, r.text>> ELSE <<>>

\* With its brand.
FetchProductDetail(r) ==
    CASE kind = "blog-post" -> GetRelatedBlogPosts(r)
      [] kind = "brand"     -> IF r # NoRow /\ r.linked THEN <<r.slug, r.text>> ELSE <<>>

BuildLandingPageData(r) == IF r # NoRow /\ r.shown THEN <<r.slug, r.text>> ELSE <<>>

PageOf(key, r) ==
    CASE key.prefix = "brand:slug"          -> GetBrandBySlug(r, key.slug)
      [] key.prefix = "brand-list:true"     -> ListBrands(r, TRUE)
      [] key.prefix = "brand-list:false"    -> ListBrands(r, FALSE)
      [] key.prefix = "blog-category:slug"  -> GetBlogCategoryBySlug(r, key.slug)
      [] key.prefix = "blog-category-list"  -> ListBlogCategories(r)
      [] key.prefix = "blog-post:slug"      -> GetBlogPostBySlugPublic(r, key.slug)
      [] key.prefix = "blog-post-list"      -> ListBlogPostsPublic(r)
      [] key.prefix = "active-stories:list" -> ListActiveStories(r)
      [] key.prefix = "public-settings"     -> GetPublicSettings(r)
      [] key.prefix = "product-list"        -> ListProductsStorefront(r)
      [] key.prefix = "product-filters"     -> GetStorefrontFilters(r)
      [] key.prefix = "product-detail"      -> FetchProductDetail(r)
      [] key.prefix = "landing-page"        -> BuildLandingPageData(r)
-------------------------------------------------------------------------------
\* A statement a request has still to execute.
Do(what) == [do |-> what, prefix |-> "", slug |-> AnySlug]

\* Faulty: only a key that is the whole argument.
HasName(step, key) == key.prefix = step.prefix /\ step.slug \in {AnySlug, key.slug}

\* MATCH cache:<argument>*
HasPrefix(step, key) ==
    key.prefix \in BeginningWith(step.prefix) /\ step.slug \in {AnySlug, key.slug}

Invalidates(step, key) == step.do = "invalidate" /\ HasPrefix(step, key)

\* An invalidation; one that does not reach the key of this behaviour is left out.
Invalidate(prefix, s) ==
    LET step == [do |-> "invalidate", prefix |-> prefix, slug |-> s]
    IN  IF Invalidates(step, pageKey) THEN <<step>> ELSE <<>>

IdlePage == [todo |-> <<>>, new |-> <<>>, oldSlug |-> AnySlug, page |-> NoPage,
             wrote |-> FALSE, overtaken |-> FALSE]

SlugsOf(k) == IF "slug" \in FieldsOf(k) THEN Slugs ELSE {AnySlug}

PagesInit ==
    /\ kind \in Kinds
    /\ \E prefix \in PrefixesOf(kind) :
          pageKey \in [prefix : {prefix}, slug : IF prefix \in BySlug THEN Slugs ELSE {AnySlug}]
    /\ content \in [slug : SlugsOf(kind), shown : {TRUE}, text : {"old"}, linked : BOOLEAN, views : {0}]
               \cup {NoRow}
    /\ page = NoPage
    /\ cacheUp = TRUE
    /\ pageReq = [h \in PageHandlers |-> IdlePage]
    /\ contentChanges = 0
    /\ pageOutdated = FALSE

\* A request has passed its checks and begins: it is to write the row, and the rest.
\* Only the row of this behaviour has one of these slugs.
Start(h, what, new, rest) ==
    /\ pageReq[h].todo = <<>> /\ contentChanges < MaxContentChanges
    /\ pageReq' = [pageReq EXCEPT ![h] =
            [IdlePage EXCEPT !.todo = <<Do(what)>> \o rest, !.new = new,
                             !.oldSlug = IF content = NoRow THEN AnySlug ELSE content.slug]]
    /\ contentChanges' = contentChanges + 1
    /\ UNCHANGED <<kind, pageKey, content, page, cacheUp, pageOutdated>>

Given(new) == DOMAIN new \subseteq FieldsOf(kind)

\* A new row has everything its kind has.
Complete(new) == DOMAIN new = FieldsOf(kind)

\* The product rows of a new post or story are created with it.
WithProducts(new, linked) ==
    [f \in DOMAIN new \cup {"linked"} |-> IF f = "linked" THEN linked ELSE new[f]]

CreateBrand(h, new) ==
    /\ kind = "brand" /\ content = NoRow /\ Complete(new)
    /\ Start(h, "create", new, Invalidate("brand", AnySlug))

UpdateBrand(h, new) ==
    /\ kind = "brand" /\ content # NoRow /\ Given(new)
    /\ Start(h, "update", new, Invalidate("brand", AnySlug))

\* Not while products have it.
DeleteBrand(h) ==
    /\ kind = "brand" /\ content # NoRow /\ ~content.linked
    /\ Start(h, "delete", <<>>, Invalidate("brand", AnySlug))

CreateBlogCategory(h, new) ==
    /\ kind = "blog-category" /\ content = NoRow /\ Complete(new)
    /\ Start(h, "create", new, Invalidate("blog-category", AnySlug))

UpdateBlogCategory(h, new) ==
    /\ kind = "blog-category" /\ content # NoRow /\ Given(new)
    /\ Start(h, "update", new, Invalidate("blog-category", AnySlug))

\* Not while posts have it.
DeleteBlogCategory(h) ==
    /\ kind = "blog-category" /\ content # NoRow /\ ~content.linked
    /\ Start(h, "delete", <<>>, Invalidate("blog-category", AnySlug))

\* productIds of an update: absent, none, or some.
ProductRows(products) ==
    CASE products = "absent" -> <<>>
      [] products = "none"   -> <<Do("unlink")>>
      [] products = "some"   -> <<Do("unlink"), Do("link")>>

CreateBlogPost(h, new, linked) ==
    /\ kind = "blog-post" /\ content = NoRow /\ Complete(new)
    /\ Start(h, "create", WithProducts(new, linked), Invalidate("blog-post-list", AnySlug))

\* The list, the page under the slug it read and the one under the new slug; and
\* then the rows of the products.
UpdateBlogPost(h, new, products) ==
    LET moved == "slug" \in DOMAIN new /\ new.slug # content.slug
    IN  /\ kind = "blog-post" /\ content # NoRow /\ Given(new)
        /\ Start(h, "update", new,
              Invalidate("blog-post-list", AnySlug)
              \o Invalidate("blog-post:slug", content.slug)
              \o (IF moved THEN Invalidate("blog-post:slug", new.slug) ELSE <<>>)
              \o ProductRows(products))

DeleteBlogPost(h) ==
    /\ kind = "blog-post" /\ content # NoRow
    /\ Start(h, "delete", <<>>,
              Invalidate("blog-post-list", AnySlug) \o Invalidate("blog-post:slug", content.slug))

CreateStory(h, new, linked) ==
    /\ kind = "story" /\ content = NoRow /\ Complete(new)
    /\ Start(h, "create", WithProducts(new, linked), Invalidate("active-stories", AnySlug))

\* Here the rows of the products come first.
UpdateStory(h, new, products) ==
    /\ kind = "story" /\ content # NoRow /\ Given(new)
    /\ Start(h, "update", new, ProductRows(products) \o Invalidate("active-stories", AnySlug))

DeleteStory(h) ==
    /\ kind = "story" /\ content # NoRow
    /\ Start(h, "delete", <<>>, Invalidate("active-stories", AnySlug))

UpsertSetting(h, new) ==
    /\ kind = "setting" /\ Complete(new)
    /\ Start(h, "upsert", new, Invalidate("public-settings", AnySlug))

DeleteSetting(h) ==
    /\ kind = "setting" /\ content # NoRow
    /\ Start(h, "delete", <<>>, Invalidate("public-settings", AnySlug))
-------------------------------------------------------------------------------
NextOf(h) == Head(pageReq[h].todo)

\* Readers that have fetched are now behind.
ReadersBehind ==
    [g \in PageHandlers |->
        [pageReq[g] EXCEPT !.overtaken = @ \/ pageReq[g].todo = <<Do("set")>>]]

\* The next statement of the request wrote.
Wrote(h) ==
    pageReq' = [ReadersBehind EXCEPT ![h] =
        IF Len(pageReq[h].todo) = 1 THEN IdlePage
        ELSE [IdlePage EXCEPT !.todo = Tail(pageReq[h].todo), !.wrote = TRUE]]

\* There is a page other than that of row r, and nobody is to invalidate it for this.
LeftOutdated(r) ==
    pageOutdated' = (pageOutdated \/ page \notin {NoPage, PageOf(pageKey, r)})

Writable(what) ==
    CASE what = "create" -> content = NoRow
      [] what = "upsert" -> TRUE
      [] OTHER           -> content # NoRow

NewRow == [slug |-> AnySlug, shown |-> TRUE, text |-> "old", linked |-> FALSE, views |-> 0]

\* What is given is set; the rest stays as it is now.
Written(r) ==
    LET old == IF content = NoRow THEN NewRow ELSE content
    IN  [f \in DOMAIN old |-> IF f \in DOMAIN r.new THEN r.new[f] ELSE old[f]]

\* A post's request may have read an older slug than the one it now writes under.
WriteRow(h) ==
    LET r == pageReq[h]
    IN  /\ r.todo # <<>> /\ NextOf(h).do \in {"create", "update", "upsert", "delete"}
        /\ Writable(NextOf(h).do)
        /\ content' = IF NextOf(h).do = "delete" THEN NoRow ELSE Written(r)
        /\ Wrote(h)
        /\ IF \/ pageKey.prefix \in ShortLived
              \/ kind = "blog-post" /\ content # NoRow /\ content.slug # r.oldSlug
           THEN LeftOutdated(content') ELSE UNCHANGED pageOutdated
        /\ UNCHANGED <<kind, pageKey, page, cacheUp, contentChanges>>

\* The row is gone, or a link has no row to refer to.
WriteRefused(h) ==
    /\ pageReq[h].todo # <<>>
    /\ \/ NextOf(h).do \in {"create", "update", "upsert", "delete"} /\ ~Writable(NextOf(h).do)
       \/ NextOf(h).do = "link" /\ content = NoRow
    /\ pageReq' = [pageReq EXCEPT ![h] = IdlePage]
    /\ IF pageReq[h].wrote THEN LeftOutdated(content) ELSE UNCHANGED pageOutdated
    /\ UNCHANGED <<kind, pageKey, content, page, cacheUp, contentChanges>>

\* deleteMany and createMany of the product rows; a post's pages were invalidated before.
WriteLinks(h) ==
    /\ pageReq[h].todo # <<>> /\ NextOf(h).do \in {"unlink", "link"}
    /\ NextOf(h).do = "link" => content # NoRow
    /\ content' = IF content = NoRow THEN NoRow ELSE [content EXCEPT !.linked = (NextOf(h).do = "link")]
    /\ Wrote(h)
    /\ IF kind = "blog-post" \/ pageKey.prefix \in ShortLived
       THEN LeftOutdated(content') ELSE UNCHANGED pageOutdated
    /\ UNCHANGED <<kind, pageKey, page, cacheUp, contentChanges>>

\* invalidateCache: nothing at all without Redis.
InvalidateCache(h) ==
    /\ pageReq[h].todo # <<>> /\ NextOf(h).do = "invalidate"
    /\ pageReq' = [pageReq EXCEPT ![h] =
            IF Len(@.todo) = 1 THEN IdlePage
            ELSE [pageReq[h] EXCEPT !.todo = Tail(pageReq[h].todo)]]
    /\ page' = IF cacheUp THEN NoPage ELSE page
    /\ pageOutdated' = (~cacheUp /\ page \notin {NoPage, PageOf(pageKey, content)})
    /\ UNCHANGED <<kind, pageKey, content, cacheUp, contentChanges>>

\* getOrSetCache: a hit ends here, a miss fetches; what is not found is not kept ...
FetchPage(h) ==
    /\ pageReq[h].todo = <<>>
    /\ cacheUp /\ page = NoPage
    /\ PageOf(pageKey, content) # NotFound
    /\ pageReq' = [pageReq EXCEPT ![h] =
            [IdlePage EXCEPT !.todo = <<Do("set")>>, !.page = PageOf(pageKey, content)]]
    /\ UNCHANGED <<kind, pageKey, content, page, cacheUp, contentChanges, pageOutdated>>

\* ... and sets the key, whatever was written or invalidated in between.
SetPage(h) ==
    LET r == pageReq[h]
    IN  /\ r.todo # <<>> /\ NextOf(h).do = "set"
        /\ page' = IF cacheUp THEN r.page ELSE page
        /\ pageOutdated' = IF cacheUp THEN r.overtaken ELSE pageOutdated
        /\ pageReq' = [pageReq EXCEPT ![h] = IdlePage]
        /\ UNCHANGED <<kind, pageKey, content, cacheUp, contentChanges>>

\* Each view of a post is counted, cached or not; nothing is invalidated for it.
CountView ==
    /\ kind = "blog-post" /\ content # NoRow /\ content.shown /\ content.views < MaxViews
    /\ content' = [content EXCEPT !.views = @ + 1]
    /\ LeftOutdated(content')
    /\ pageReq' = ReadersBehind
    /\ UNCHANGED <<kind, pageKey, page, cacheUp, contentChanges>>

\* expiresAt of a story comes.
StoryExpires ==
    /\ kind = "story" /\ content # NoRow /\ content.shown
    /\ content' = [content EXCEPT !.shown = FALSE]
    /\ LeftOutdated(content')
    /\ pageReq' = ReadersBehind
    /\ UNCHANGED <<kind, pageKey, page, cacheUp, contentChanges>>

\* The services of products and posts give a product the brand, a post the category.
ContentUsed ==
    /\ kind \in {"brand", "blog-category"} /\ content # NoRow /\ ~content.linked
    /\ content' = [content EXCEPT !.linked = TRUE]
    /\ LeftOutdated(content')
    /\ pageReq' = ReadersBehind
    /\ UNCHANGED <<kind, pageKey, page, cacheUp, contentChanges>>

PageExpires ==
    /\ page # NoPage
    /\ page' = NoPage /\ pageOutdated' = FALSE
    /\ UNCHANGED <<kind, pageKey, content, cacheUp, pageReq, contentChanges>>

CacheComesAndGoes ==
    /\ cacheUp' = ~cacheUp
    /\ UNCHANGED <<kind, pageKey, content, page, pageReq, contentChanges, pageOutdated>>

\* The process stops; what a request had still to invalidate stays.
PagesCrash(h) ==
    /\ pageReq[h].todo # <<>>
    /\ pageReq' = [pageReq EXCEPT ![h] = IdlePage]
    /\ IF pageReq[h].wrote THEN LeftOutdated(content) ELSE UNCHANGED pageOutdated
    /\ UNCHANGED <<kind, pageKey, content, page, cacheUp, contentChanges>>

PagesNext ==
    \/ \E h \in PageHandlers, new \in ContentInputs :
          \/ CreateBrand(h, new) \/ UpdateBrand(h, new)
          \/ CreateBlogCategory(h, new) \/ UpdateBlogCategory(h, new)
          \/ UpsertSetting(h, new)
          \/ \E linked \in BOOLEAN : CreateBlogPost(h, new, linked) \/ CreateStory(h, new, linked)
          \/ \E products \in {"absent", "none", "some"} :
                UpdateBlogPost(h, new, products) \/ UpdateStory(h, new, products)
    \/ \E h \in PageHandlers :
          \/ DeleteBrand(h) \/ DeleteBlogCategory(h) \/ DeleteBlogPost(h)
          \/ DeleteStory(h) \/ DeleteSetting(h)
          \/ WriteRow(h) \/ WriteRefused(h) \/ WriteLinks(h) \/ InvalidateCache(h)
          \/ FetchPage(h) \/ SetPage(h) \/ PagesCrash(h)
    \/ CountView \/ StoryExpires \/ ContentUsed \/ PageExpires \/ CacheComesAndGoes
-------------------------------------------------------------------------------
PagesTypeOK ==
    /\ kind \in Kinds /\ pageKey.prefix \in PrefixesOf(kind)
    /\ content # NoRow => /\ content.slug \in SlugsOf(kind) /\ content.views \in 0 .. MaxViews
                      /\ {content.shown, content.linked} \subseteq BOOLEAN
    /\ cacheUp \in BOOLEAN /\ pageOutdated \in BOOLEAN

\* A cached page that no request is about to invalidate is the one that would be fetched
\* now, but for what the services leave to the expiry: a page set by a reader from
\* before the write; an invalidation without Redis or lost with its process; the pages
\* that have a TTL only; a view, an expired story; and of a post its products, which are
\* written after the invalidation, and a slug that changed since it was read
\* (lib/cache.ts 17-67, blog-post.service.ts 89-106).
CachedPagesAreCurrent ==
    (\A h \in PageHandlers : \A i \in DOMAIN pageReq[h].todo :
        ~(pageReq[h].wrote /\ Invalidates(pageReq[h].todo[i], pageKey)))
    => page \in {NoPage, PageOf(pageKey, content)} \/ pageOutdated
===============================================================================
