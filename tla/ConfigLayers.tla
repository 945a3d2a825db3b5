---------------------------- MODULE ConfigLayers ----------------------------
(***************************************************************************)
(* ServiceConfig::load (mutsuki-service-config/src/lib.rs) as a function   *)
(* of its layers: the command line, the environment, the files under the   *)
(* home directories and the stored control tokens.  A layer gives a key a  *)
(* value or leaves it Unset; serde fills an unset key of a file with the   *)
(* section's default.  LaunchArguments is how mutsuki-service-daemon/src/  *)
(* lib.rs lets systemd and launchd start the service.                      *)
(***************************************************************************)
EXTENDS Naturals

Unset == "unset"

\* Default::default of ServiceSection and IpcSection, run_dir relative.
DefaultConfig ==
  [home |-> "~", profile |-> "default", instance |-> "default", run |-> Unset,
   transport |-> "unix-socket", token |-> Unset]

\* read_optional_config: a partial file; an unset key is the default's.
Parsed(file) == [k \in DOMAIN DefaultConfig |-> IF file[k] = Unset THEN DefaultConfig[k] ELSE file[k]]

Or(value, otherwise) == IF value = Unset THEN otherwise ELSE value

\* merge: every section of the file replaces the one before, as a whole.
Merged(config, files, path) == IF path \in DOMAIN files THEN Parsed(files[path]) ELSE config

\* apply_env, with a transport of an unknown name ignored.
WithEnv(config, env) ==
  [config EXCEPT !.instance = Or(env.instance, @), !.token = Or(env.token, @),
                 !.transport = IF env.transport \in {"named-pipe", "unix-socket", "tcp-debug"}
                               THEN env.transport ELSE @]

\* absolutize: a relative directory lies under the home.
ResolveDirs(config) == [config EXCEPT !.run = Or(@, config.home)]

\* ensure_control_token: the stored token of the run directory, or a new one.
WithToken(config, stored) ==
  [config EXCEPT !.token = IF @ # Unset THEN @
                           ELSE IF config.run \in DOMAIN stored THEN stored[config.run]
                           ELSE "generated"]

\* A path is a directory and a name; "." is the working directory.
PathIn(cwd, path) == IF path[1] = "." THEN <<cwd, path[2]>> ELSE path

LocalPath(home) == <<home, "service">>

ProfilePath(home, profile) == <<home, profile>>

\* The local file, service.toml of the home that starts the load or an explicit
\* one.
LocalFile(cli, home) == IF cli.config = Unset THEN LocalPath(home) ELSE PathIn(cli.cwd, cli.config)

\* load.  files maps paths to partial configurations, stored run directories
\* to tokens; cli.config is the path of an explicit file, cli.cwd the working
\* directory.
Load(cli, env, files, stored) ==
  LET start == ResolveDirs([DefaultConfig EXCEPT !.home = Or(cli.home, Or(env.home, @))])
      local == LocalFile(cli, start.home)
      profile == Or(cli.profile, Or(env.profile,
                   IF local \in DOMAIN files THEN Parsed(files[local]).profile ELSE start.profile))
      named == [start EXCEPT !.profile = profile]
      merged == Merged(Merged(named, files, ProfilePath(start.home, profile)), files, local)
      layered == WithEnv(merged, env)
      final == [layered EXCEPT !.profile = Or(cli.profile, @), !.token = Or(cli.token, @)]
  IN IF cli.config # Unset /\ local \notin DOMAIN files
     THEN [failed |-> TRUE, config |-> start]       \* MissingConfigFile
     ELSE [failed |-> FALSE, config |-> WithToken(ResolveDirs(final), stored)]

\* launch_arguments, systemd_unit and launchd_plist: the home and the profile
\* of the loaded configuration and the explicit file as it was given; no token.
\* The working directory is the home, and no environment is carried over.
LaunchArguments(cli, config) ==
  [home |-> config.home, profile |-> config.profile, config |-> cli.config, token |-> Unset,
   cwd |-> config.home]

LaunchEnv == [home |-> Unset, profile |-> Unset, instance |-> Unset, token |-> Unset, transport |-> Unset]

-----------------------------------------------------------------------------
\* The layers of docs/config.md, weakest first: default, profile file, local
\* file, environment, command line; the strongest that sets a key wins.
Documented(key, cli, env, files) ==
  LET home == Or(cli.home, Or(env.home, DefaultConfig.home))
      local == LocalFile(cli, home)
      In(path, k) == IF path \in DOMAIN files THEN files[path][k] ELSE Unset
      profile == Or(cli.profile, Or(env.profile, Or(In(local, "profile"), DefaultConfig.profile)))
      From(layer) == IF key \in DOMAIN layer THEN layer[key] ELSE Unset
  IN Or(From(cli), Or(From(env), Or(In(local, key), Or(In(ProfilePath(home, profile), key), DefaultConfig[key]))))

HomeOf(cli, env) == Or(cli.home, Or(env.home, DefaultConfig.home))

AsDocumented(cli, env, files) ==
  LET result == Load(cli, env, files, <<>>) IN
  \A key \in {"instance", "transport", "token"} :
    LET value == Documented(key, cli, env, files) IN
    result.config[key] = IF key = "token" /\ value = Unset THEN "generated" ELSE value

\* With one configuration file, the local one or that of the profile, the
\* instance, the transport and the token come from the layer the documentation
\* names.  With both, the sections of the local file replace those of the
\* profile as a whole.  Home and profile do not follow it even with one file:
\* its service section replaces a home of the command line or the environment
\* and a profile of the environment (merge).
OneFileAsDocumented(clis, envs, locals, profiles) ==
  \A cli \in clis, env \in envs :
    LET local == LocalFile(cli, HomeOf(cli, env))
        profile == ProfilePath(HomeOf(cli, env), Or(cli.profile, Or(env.profile, DefaultConfig.profile)))
    IN /\ \A l \in locals : AsDocumented(cli, env, [path \in {local} |-> l])
       /\ cli.config = Unset => \A p \in profiles : AsDocumented(cli, env, [path \in {profile} |-> p])

\* The launch finds the file install has read: an explicit one with an absolute
\* path, or the local one of a home that the file itself does not change.
SameFile(cli, env, l) ==
  IF cli.config = Unset THEN Or(l.home, DefaultConfig.home) = HomeOf(cli, env) ELSE cli.config[1] # "."

\* Where it does, the service the manager launches has the home, the run
\* directory and the profile of the configuration install was given, and the
\* instance and the transport too unless the installing shell's environment had
\* set them.  m is whatever else lies where the launch looks.
RelaunchSame(clis, envs, locals) ==
  \A cli \in clis, env \in envs, l, m \in locals :
    LET local == LocalFile(cli, HomeOf(cli, env))
        moved == LocalPath(Or(l.home, DefaultConfig.home))
        files == [path \in {local, moved} |-> IF path = local THEN l ELSE m]
        installed == Load(cli, env, files, <<>>).config
        launched == Load(LaunchArguments(cli, installed), LaunchEnv, files, <<>>).config
    IN SameFile(cli, env, l) =>
         /\ \A key \in {"home", "run", "profile"} : launched[key] = installed[key]
         /\ \A key \in {"instance", "transport"} :
              env[key] = Unset => launched[key] = installed[key]
=============================================================================
