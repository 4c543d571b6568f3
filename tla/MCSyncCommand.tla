----------------------------- MODULE MCSyncCommand -----------------------------
(* SyncCommand on small instances: the reset of every directory of a tree    *)
(* under many environments, every selection of folders under many accounts,  *)
(* and commands over two accounts that fail at any step.                     *)
EXTENDS SyncCommand

MCPathNames == {"home", "u", "mail", "a", "b", "srv", "work", "repo", "src"}

Home == <<"home", "u">>
Repo == <<"srv", "work", "repo">>

Whole(dirs) == UNION {Ancestors(dir) : dir \in dirs}

Tree == Whole({Home \o <<"mail", "a">>, Repo \o <<"src">>, Repo \o <<"mail", "a">>,
               <<"srv", "mail", "a">>, <<"srv", "mail", "b">>})

Env(cwd, root, links) ==
  [home |-> Home, cwd |-> cwd, git |-> {Repo}, root |-> root, links |-> links]

Name(word) == [word |-> word, quoted |-> FALSE]
Quoted(word) == [word |-> word, quoted |-> TRUE]

MCLogical == [word \in {"inbox", "sent", "archive", "draft", "drafts", "trash", "deleted"} |->
                CASE word \in {"draft", "drafts"} -> "drafts"
                  [] word \in {"trash", "deleted"} -> "trash" [] OTHER -> word]

Standard == [role \in Roles |-> role]

AnAccount(path, custom) ==
  [path |-> path, custom |-> custom, provider |-> "imap", mode |-> "semantic",
   folders |-> Standard, defaults |-> NoDefaults]

Plain == [reset |-> FALSE, confirmed |-> FALSE, all |-> FALSE, named |-> <<>>,
          limit |-> NoLimit, window |-> "none", index |-> FALSE, embed |-> FALSE]

Resetting == [Plain EXCEPT !.reset = TRUE, !.confirmed = TRUE]

Old(dir) == [dir |-> dir, kind |-> "archive", new |-> FALSE]

Setting(env, accounts, options, fails) ==
  [env |-> env, tree |-> Tree, accounts |-> accounts, options |-> options, fails |-> fails,
   stored |-> {held \in {Old(dir) : dir \in Tree} : Len(held.dir) > 2}
              \union {[Old(accounts[i].path) EXCEPT !.kind = "session"] :
                        i \in {j \in DOMAIN accounts : accounts[j].provider = "proton-api"}}]

\* A link from a directory of the mail root into the home directory, or beside it.
SomeLinks == {{}, {[from |-> <<"srv", "mail", "a">>, to |-> Home]},
              {[from |-> <<"srv", "mail", "a">>, to |-> <<"srv", "mail", "b">>]}}

Workplaces == {Home, Repo, Repo \o <<"src">>, <<"srv">>, <<"srv", "mail", "a">>}

\* Resets of managed accounts, wherever the mail root and the process are.
ManagedResets ==
  {Setting(Env(cwd, root, links), <<AnAccount(Append(root, name), FALSE)>>, Resetting, FALSE) :
     cwd \in Workplaces, name \in {"a", "u"}, root \in Tree \union {<<"home", "b">>}, links \in SomeLinks}

\* Resets of custom directories, confirmed or not.
CustomResets ==
  {Setting(Env(cwd, root, links), <<AnAccount(path, TRUE)>>,
           [Resetting EXCEPT !.confirmed = confirmed], FALSE) :
     cwd \in Workplaces, root \in {Home \o <<"mail">>, <<"srv", "mail">>},
     links \in SomeLinks, path \in Tree, confirmed \in BOOLEAN}

SomeNames == {Name("inbox"), Name("sent"), Quoted("inbox"), Name("deleted"), Name("posted"),
              Name("all mail"), Name("list"), Name(NoWord), Quoted(NoWord)}

SomeFolders ==
  {Standard,
   [Standard EXCEPT !["sent"] = "posted", !["archive"] = "all mail"],
   [Standard EXCEPT !["trash"] = "posted", !["sent"] = "inbox", !["archive"] = "trash"]}

UpTo2(names) == {<<>>} \union {<<n>> : n \in names} \union {<<n, m>> : n \in names, m \in names}

Elsewhere == Env(Repo, <<"srv", "mail">>, {})

At(name) == <<"srv", "mail", name>>

\* Every choice of folders, by the options or by the account.
Selecting ==
  {Setting(Elsewhere, <<[AnAccount(At("a"), FALSE) EXCEPT !.folders = folders,
                                                          !.defaults = defaults]>>,
           [Plain EXCEPT !.all = all, !.named = named], FALSE) :
     folders \in SomeFolders, all \in BOOLEAN, named \in UpTo2(SomeNames),
     defaults \in {NoDefaults, <<>>, <<Name("drafts"), Name("trash")>>}}

\* Two accounts, each reset, synced and indexed, in directories of their own or not.
TwoAccounts ==
  {Setting(Elsewhere,
           <<[AnAccount(At("a"), FALSE) EXCEPT !.mode = mode],
             [AnAccount(At(second), FALSE) EXCEPT !.provider = provider, !.defaults = defaults]>>,
           [Resetting EXCEPT !.limit = limit, !.window = window, !.embed = TRUE, !.reset = reset],
           TRUE) :
     mode \in Modes, second \in {"a", "b"}, provider \in Providers,
     defaults \in {NoDefaults, <<Name("drafts")>>},
     limit \in {NoLimit, 0}, window \in Windows, reset \in BOOLEAN}

CommandSettings == ManagedResets \union CustomResets \union Selecting \union TwoAccounts

\* One account of the Proton API is reset, and nothing fails.
ProtonReset ==
  {Setting(Elsewhere, <<[AnAccount(At("a"), FALSE) EXCEPT !.provider = "proton-api"]>>,
           Resetting, FALSE)}
==============================================================================
